----------------------------- MODULE FileProofs -----------------------------
(***************************************************************************)
(* FileInv is an invariant of the store, for every bound, every set of     *)
(* calls and every kind of failure, and with it TypeOK, RolloverFileIsNew  *)
(* and CursorAtEnd.                                                        *)
(***************************************************************************)
EXTENDS StoreProofs, EntryIndexProofs, FiniteSetTheorems

(***************************************************************************)
(* Frames.                                                                 *)
(***************************************************************************)
OkFrameType == {f \in FrameType : f.ok}

\* The smallest element of a set of naturals.
LEMMA MinIs ==
    ASSUME NEW S, S \subseteq Nat, S # {}
    PROVE  Min(S) \in S /\ \A y \in S : Min(S) <= y
<1>1. \E m \in S : \A y \in S : m <= y
    BY LeastNat
<1> QED
    BY <1>1 DEF Min

\* set_len leaves a file of the length asked for.
LEMMA SetLenType ==
    ASSUME NEW frames \in Seq(FrameType), NEW n \in Nat
    PROVE  SetLen(frames, n) \in Seq(FrameType) /\ Len(SetLen(frames, n)) = n
<1>1. ZeroFrame \in FrameType
    BY BoundsAssumption DEF ZeroFrame, FrameType
<1>2. \A i \in 1..n : (IF i <= Len(frames) THEN frames[i] ELSE ZeroFrame) \in FrameType
    <2> SUFFICES ASSUME NEW i \in 1..n, i <= Len(frames) PROVE frames[i] \in FrameType
        BY <1>1
    <2>1. i \in 1..Len(frames)
        OBVIOUS
    <2> QED
        BY <2>1
<1>3. SetLen(frames, n) \in [1..n -> FrameType]
    BY <1>2 DEF SetLen
<1> QED
    BY <1>3

\* A file cut to its own length stays as it is.
LEMMA SetLenSame ==
    ASSUME NEW frames \in Seq(FrameType)
    PROVE  SetLen(frames, Len(frames)) = frames
    BY DEF SetLen

\* A write at the cursor leaves a file; one at its end appends.
LEMMA WriteAtType ==
    ASSUME NEW frames \in Seq(FrameType), NEW pos \in Nat, NEW new \in Seq(FrameType)
    PROVE  /\ WriteAt(frames, pos, new) \in Seq(FrameType)
           /\ pos = Len(frames) => WriteAt(frames, pos, new) = frames \o new
<1> DEFINE rest == SubSeq(frames, pos + Len(new) + 1, Len(frames))
<1>1. Len(frames) \in Nat /\ Len(new) \in Nat
    OBVIOUS
<1>2. rest \in Seq(FrameType) /\ (pos = Len(frames) => rest = <<>>)
    BY <1>1, SubSeqProperties
<1>3. SetLen(frames, pos) \in Seq(FrameType)
    BY SetLenType
<1>4. WriteAt(frames, pos, new) = SetLen(frames, pos) \o new \o rest
    BY DEF WriteAt
<1>5. SetLen(frames, pos) \o new \in Seq(FrameType)
    BY <1>3, ConcatProperties
<1> HIDE DEF rest
<1>6. WriteAt(frames, pos, new) \in Seq(FrameType)
    BY <1>2, <1>4, <1>5, ConcatProperties
<1>7. ASSUME pos = Len(frames) PROVE WriteAt(frames, pos, new) = frames \o new
    <2>1. SetLen(frames, pos) = frames
        BY <1>7, SetLenSame
    <2>2. frames \o new \in Seq(FrameType)
        BY ConcatProperties
    <2> QED
        BY <1>2, <1>4, <1>7, <2>1, <2>2, ConcatEmptySeq
<1> QED
    BY <1>6, <1>7

\* Whatever a power loss leaves of an append is a file.
LEMMA AppendOutcomesType ==
    ASSUME NEW file \in FileType, NEW pos \in Nat, NEW new \in Seq(FrameType)
    PROVE  /\ AppendOutcomes(file, pos, new) \subseteq FileType
           /\ SegmentFile(WriteAt(file.frames, pos, new), FALSE) \in FileType
<1>1. file.frames \in Seq(FrameType)
    BY DEF FileType
<1>2. \A n \in 0..(Len(new) - 1) : SubSeq(new, 1, n) \in Seq(FrameType)
    BY SubSeqProperties
<1>3. \A s \in Seq(FrameType), torn \in BOOLEAN :
        SegmentFile(WriteAt(file.frames, pos, s), torn) \in FileType
    BY <1>1, WriteAtType DEF SegmentFile, FileType
<1>4. SegmentFile(WriteAt(file.frames, pos, new), FALSE) \in FileType
    BY <1>3
<1> DEFINE part(n, torn) == SegmentFile(WriteAt(file.frames, pos, SubSeq(new, 1, n)), torn)
           whole == SegmentFile(WriteAt(file.frames, pos, new), FALSE)
           last == Len(new) - 1
<1>5. AppendOutcomes(file, pos, new) =
        {part(n, torn) : n \in 0..last, torn \in BOOLEAN} \cup {whole}
    BY DEF AppendOutcomes
<1>6. \A n \in 0..last, torn \in BOOLEAN : part(n, torn) \in FileType
    BY <1>2, <1>3
<1> HIDE DEF part, whole, last
<1>7. AppendOutcomes(file, pos, new) \subseteq FileType \cup {whole}
    BY <1>5, <1>6
<1> QED
    BY <1>4, <1>7 DEF whole

\* The clean prefix is a prefix, and all its frames are ok.
LEMMA CleanPrefix ==
    ASSUME NEW frames \in Seq(FrameType)
    PROVE  /\ CleanLen(frames) \in 0..Len(frames)
           /\ \A i \in DOMAIN frames : i <= CleanLen(frames) => frames[i].ok
<1> DEFINE bad == {i \in DOMAIN frames : ~frames[i].ok}
<1>1. CASE bad = {}
    BY <1>1 DEF CleanLen
<1>2. CASE bad # {}
    <2>1. bad \subseteq Nat
        OBVIOUS
    <2>2. Min(bad) \in bad /\ \A y \in bad : Min(bad) <= y
        <3> HIDE DEF bad
        <3> QED
            BY <1>2, <2>1, MinIs
    <2>3. Min(bad) \in 1..Len(frames) /\ Len(frames) \in Nat
        BY <2>2
    <2>4. CleanLen(frames) = Min(bad) - 1
        BY <1>2 DEF CleanLen
    <2>5. ASSUME NEW i \in DOMAIN frames, i <= CleanLen(frames) PROVE frames[i].ok
        <3>1. i \in Nat /\ i < Min(bad)
            <4> HIDE DEF bad
            <4> QED
                BY <2>3, <2>4, <2>5
        <3>2. i \notin bad
            <4> HIDE DEF bad
            <4> QED
                BY <2>2, <2>3, <3>1
        <3> QED
            BY <3>2
    <2> QED
        BY <2>3, <2>4, <2>5
<1> QED
    BY <1>1, <1>2

\* Every checkpoint of a file is one.
LEMMA CheckpointsType ==
    ASSUME NEW frames \in Seq(FrameType)
    PROVE  Checkpoints(frames) \in Seq(Checkpoint)
<1> DEFINE n == CleanLen(frames)
           k == (n + Stride - 1) \div Stride
<1>1. n \in 0..Len(frames) /\ Len(frames) \in Nat
    BY CleanPrefix
<1>2. n \in Nat /\ Stride \in Nat /\ Stride # 0
    BY <1>1, StrideAssumption
<1> HIDE DEF n
<1>3. k \in Nat /\ k * Stride <= n + Stride - 1
    BY <1>2
<1>4. ASSUME NEW i \in 1..k
      PROVE  [id |-> frames[(i - 1) * Stride + 1].id, byte_offset |-> (i - 1) * Stride]
                \in Checkpoint
    <2>1. (i - 1) * Stride \in Nat /\ (i - 1) * Stride + 1 <= n
        <3> HIDE DEF k
        <3>1. i * Stride <= k * Stride
            BY <1>2, <1>3
        <3>2. (i - 1) * Stride = i * Stride - Stride /\ i * Stride \in Nat /\ k * Stride \in Nat
            BY <1>2, <1>3
        <3>3. (i - 1) * Stride \in Nat
            BY <1>2, <1>3
        <3> QED
            BY <1>2, <1>3, <3>1, <3>2, <3>3
    <2> DEFINE j == (i - 1) * Stride + 1
    <2>2. j \in 1..Len(frames)
        BY <1>1, <1>2, <2>1
    <2>3. frames[j].id \in Nat
        <3> HIDE DEF j
        <3>1. frames[j] \in FrameType
            BY <2>2
        <3> QED
            BY <3>1, BoundsAssumption DEF FrameType
    <2> QED
        BY <2>1, <2>3 DEF Checkpoint
<1>5. Checkpoints(frames) =
        [i \in 1..k |-> [id |-> frames[(i - 1) * Stride + 1].id,
                         byte_offset |-> (i - 1) * Stride]]
    BY DEF Checkpoints, n
<1> HIDE DEF k
<1> QED
    BY <1>3, <1>4, <1>5

-----------------------------------------------------------------------------
(***************************************************************************)
(* The segments in order, and what from_scan_report makes of them.         *)
(***************************************************************************)
\* A finite set of positions that can be listed in order.
Listable(D) ==
    /\ IsFiniteSet(D)
    /\ \E order \in [1..Cardinality(D) -> D] :
        \A i, j \in DOMAIN order : i < j => order[i] < order[j]

\* Every bounded set of positions can: by the least bound that would fail.
LEMMA BoundedListable ==
    ASSUME NEW b \in Nat, NEW D, D \subseteq 0..b
    PROVE  Listable(D)
<1> DEFINE Below(c) == {x \in Nat : x < c}
           Bad == {c \in Nat : \E S \in SUBSET Below(c) : ~Listable(S)}
<1>1. Bad = {}
    <2> SUFFICES ASSUME Bad # {} PROVE FALSE
        OBVIOUS
    <2>1. PICK c \in Bad : \A x \in Bad : c <= x
        <3>1. Bad \subseteq Nat
            OBVIOUS
        <3> HIDE DEF Bad
        <3> QED
            BY <3>1, LeastNat
    <2>2. PICK S \in SUBSET Below(c) : ~Listable(S)
        OBVIOUS
    <2>3. c \in Nat
        OBVIOUS
    <2>4. CASE c = 0
        <3>1. S = {}
            BY <2>4
        <3>2. IsFiniteSet({}) /\ Cardinality({}) = 0
            BY FS_EmptySet
        <3>3. <<>> \in [1..0 -> {}] /\ DOMAIN <<>> = {}
            OBVIOUS
        <3> QED
            BY <2>2, <3>1, <3>2, <3>3 DEF Listable
    <2>5. CASE c # 0
        <3> DEFINE E == S \ {c - 1}
                   n == Cardinality(E)
        <3>1. c - 1 \in Nat /\ c - 1 \notin Bad
            <4>1. c - 1 \in Nat /\ ~(c <= c - 1)
                BY <2>3, <2>5
            <4> HIDE DEF Bad
            <4> QED
                BY <2>1, <4>1
        <3>2. E \in SUBSET Below(c - 1)
            BY <2>3, <2>5
        <3>3. Listable(E)
            <4> HIDE DEF E
            <4> QED
                BY <3>1, <3>2
        <3>4. S # E
            BY <2>2, <3>3
        <3>5. c - 1 \in S /\ S = E \cup {c - 1} /\ c - 1 \notin E
            BY <3>4
        <3>6. \A x \in E : x \in Nat /\ x < c - 1
            BY <3>2
        <3> HIDE DEF E
        <3>7. n \in Nat
            BY <3>3, FS_CardinalityType DEF Listable
        <3>8. IsFiniteSet(S) /\ Cardinality(S) = n + 1
            BY <3>3, <3>5, FS_AddElement DEF Listable
        <3>9. PICK order \in [1..n -> E] :
                \A i, j \in DOMAIN order : i < j => order[i] < order[j]
            BY <3>3 DEF Listable
        <3> HIDE DEF n
        <3> DEFINE more == [i \in 1..(n + 1) |-> IF i = n + 1 THEN c - 1 ELSE order[i]]
        <3>10. more \in [1..(n + 1) -> S]
            BY <3>5, <3>7
        <3>11. ASSUME NEW i \in 1..(n + 1), NEW j \in 1..(n + 1), i < j
               PROVE  more[i] < more[j]
            <4>1. i \in 1..n /\ more[i] = order[i] /\ order[i] \in E
                BY <3>7, <3>11
            <4>2. CASE j = n + 1
                BY <3>6, <4>1, <4>2
            <4>3. CASE j # n + 1
                <5>1. j \in 1..n
                    BY <3>7, <4>3
                <5> QED
                    BY <3>9, <3>11, <4>1, <4>3, <5>1
            <4> QED
                BY <4>2, <4>3
        <3>12. DOMAIN more = 1..(n + 1)
            OBVIOUS
        <3> HIDE DEF more
        <3> QED
            BY <2>2, <3>8, <3>10, <3>11, <3>12 DEF Listable
    <2> QED
        BY <2>4, <2>5
<1>2. b + 1 \in Nat /\ D \in SUBSET Below(b + 1)
    OBVIOUS
<1> QED
    BY <1>1, <1>2

\* The positions of a Vec of segments, in order.
LEMMA InOrderIs ==
    ASSUME NEW st, WellFormed(st)
    PROVE  LET n == Cardinality(DOMAIN st.segments)
           IN  /\ n \in Nat
               /\ InOrder(st) \in [1..n -> DOMAIN st.segments]
               /\ \A i, j \in 1..n : i < j => InOrder(st)[i] < InOrder(st)[j]
<1> DEFINE D == DOMAIN st.segments
<1>1. PICK p \in D : \A q \in D : q <= p
    BY DEF WellFormed, ActiveIsLast
<1>2. D \subseteq Nat
    BY DEF WellFormed, StateShape
<1>3. p \in Nat /\ D \subseteq 0..p
    BY <1>1, <1>2
<1>4. Listable(D)
    BY <1>3, BoundedListable
<1>5. Cardinality(D) \in Nat
    BY <1>4, FS_CardinalityType DEF Listable
<1> HIDE DEF D
<1>6. \E order \in [1..Cardinality(D) -> D] :
        \A i, j \in DOMAIN order : i < j => order[i] < order[j]
    BY <1>4, Zenon DEF Listable
<1>7. /\ InOrder(st) \in [1..Cardinality(D) -> D]
      /\ \A i, j \in DOMAIN InOrder(st) : i < j => InOrder(st)[i] < InOrder(st)[j]
    BY <1>6, Zenon DEF InOrder, D
<1> QED
    BY <1>5, <1>7 DEF D

\* The index that open builds.
LEMMA BuildIndexType ==
    ASSUME NEW st, WellFormed(st), Live(st) \subseteq SegIds,
           NEW files \in [SegIds -> FileType]
    PROVE  BuildIndex(st, files) \in Seq(SegmentIndex)
<1> DEFINE n == Cardinality(DOMAIN st.segments)
           ids == SegmentIdsInOrder(st)
           entry(i) == [segment |-> ids[i], checkpoints |-> Checkpoints(files[ids[i]].frames)]
<1>1. n \in Nat /\ InOrder(st) \in [1..n -> DOMAIN st.segments]
    BY InOrderIs
<1> HIDE DEF n
<1>2. DOMAIN ids = 1..n /\ \A i \in 1..n : ids[i] \in Live(st)
    BY <1>1 DEF SegmentIdsInOrder, Live
<1> HIDE DEF ids
<1>3. ASSUME NEW i \in 1..n PROVE entry(i) \in SegmentIndex
    <2>1. ids[i] \in SegIds /\ ids[i] \in Nat
        BY <1>2, MaxSegAssumption DEF SegIds
    <2>2. files[ids[i]].frames \in Seq(FrameType)
        BY <2>1 DEF FileType
    <2>3. Checkpoints(files[ids[i]].frames) \in Seq(Checkpoint)
        BY <2>2, CheckpointsType
    <2> QED
        BY <2>1, <2>3 DEF SegmentIndex
<1>4. BuildIndex(st, files) = [i \in 1..n |-> entry(i)]
    BY <1>2 DEF BuildIndex, ids
<1> HIDE DEF entry
<1> QED
    BY <1>1, <1>3, <1>4

\* The last segment of the Vec is the active one, and the position of a
\* sealed one.
LEMMA RecordsType ==
    ASSUME NEW st, WellFormed(st), EntriesOk(st), Live(st) \subseteq SegIds,
           NEW files \in [SegIds -> FileType]
    PROVE  /\ FirstOf(st, st.active_segment_id) \in 0..MaxId
           /\ st.active_segment_id \in Live(st)
           /\ \A id \in Live(st) : FirstOf(st, id) \in 0..MaxId
           /\ ScannedLastEntry(st, files) \in 0..MaxId
<1> DEFINE D == DOMAIN st.segments
           frames == files[st.active_segment_id].frames
           sealed == {p \in D : IsSealed(st, st.segments[p].id)}
<1>1. PICK a \in D : st.segments[a].id = st.active_segment_id /\ \A q \in D : q <= a
    BY DEF WellFormed, ActiveIsLast
<1>2. st.active_segment_id \in Live(st)
    BY <1>1 DEF Live
<1>3. ASSUME NEW id \in Live(st) PROVE FirstOf(st, id) \in 0..MaxId
    <2> DEFINE s == CHOOSE r \in Range(st.segments) : r.id = id
    <2>1. \E r \in Range(st.segments) : r.id = id
        BY DEF Live, Range
    <2>2. s \in Range(st.segments)
        BY <2>1
    <2>3. s.first_entry \in 0..MaxId
        BY <2>2 DEF Range, EntriesOk
    <2> QED
        BY <2>3 DEF FirstOf
<1>4. frames \in Seq(FrameType)
    BY <1>2 DEF FileType
<1>5. ASSUME frames # <<>> PROVE Last(frames).id \in 0..MaxId
    <2>1. Last(frames) \in FrameType
        BY <1>4, <1>5 DEF Last
    <2> QED
        BY <2>1 DEF FrameType
<1>6. ASSUME sealed # {}
      PROVE  st.seals[st.segments[Max(sealed)].id].last_entry \in 0..MaxId
    <2>1. D \subseteq Nat
        BY DEF WellFormed, StateShape
    <2>2. a \in Nat /\ \A p \in sealed : p \in Nat /\ p <= a
        BY <1>1, <2>1
    <2>3. PICK m \in sealed : \A p \in sealed : p <= m
        <3>1. sealed \subseteq 0..a
            BY <2>2
        <3> HIDE DEF sealed
        <3>2. \E m \in sealed : \A p \in sealed : p <= m
            BY <1>6, <2>2, <3>1, LargestOf
        <3> QED
            BY <3>2
    <2>4. Max(sealed) = m
        <3> HIDE DEF sealed
        <3>1. sealed \subseteq Int
            BY <2>2
        <3> QED
            BY <2>3, <3>1, MaxIs
    <2>5. st.segments[m].id \in DOMAIN st.seals
        BY DEF IsSealed
    <2> HIDE DEF sealed
    <2> QED
        BY <2>4, <2>5, BoundsAssumption DEF EntriesOk, SealInfo
<1>7. ScannedLastEntry(st, files) \in 0..MaxId
    <2>1. NoEntry \in 0..MaxId
        BY BoundsAssumption DEF NoEntry
    <2> QED
        BY <1>5, <1>6, <2>1 DEF ScannedLastEntry
<1> QED
    BY <1>2, <1>3, <1>7

-----------------------------------------------------------------------------
\* apply() records only what the operation brings.
OpEntriesOk(op) ==
    /\ op.type = "CreateSegment" => op.id \in Nat \ {0} /\ op.first_entry \in 0..MaxId
    /\ op.type = "RollSegment" =>
        /\ op.new_id \in Nat \ {0} /\ op.new_first_entry \in 0..MaxId
        /\ op.seal \in SealInfo /\ op.seal.last_entry <= MaxId

LEMMA ApplyEntries ==
    ASSUME NEW st, EntriesOk(st), NEW op, op.type \in OpTypesOf, OpEntriesOk(op)
    PROVE  EntriesOk(Apply(st, op))
<1> DEFINE k == ApplyStructure(st, op)
<1>1. Apply(st, op).segments = k.segments /\ Apply(st, op).seals = k.seals
    BY DEF Apply, WithMeta
<1>2. SUFFICES EntriesOk(k)
    BY <1>1 DEF EntriesOk
<1>3. CASE op.type = "CreateSegment"
    BY <1>3 DEF ApplyStructure, create_segment, Push, Insert, EntriesOk, OpEntriesOk
<1>4. CASE op.type = "RollSegment"
    <2>1. /\ k.segments = Push(st.segments, [id |-> op.new_id, first_entry |-> op.new_first_entry])
          /\ k.seals = Insert(st.seals, op.sealed_id, op.seal)
        BY <1>4 DEF ApplyStructure, roll_segment
    <2> HIDE DEF k
    <2>2. \A p \in DOMAIN k.segments :
            k.segments[p] \in [id : Nat \ {0}, first_entry : 0..MaxId]
        BY <1>4, <2>1 DEF Push, Insert, EntriesOk, OpEntriesOk
    <2>3. \A id \in DOMAIN k.seals :
            k.seals[id] \in SealInfo /\ k.seals[id].last_entry <= MaxId
        BY <1>4, <2>1 DEF Insert, EntriesOk, OpEntriesOk
    <2> QED
        BY <2>2, <2>3 DEF EntriesOk
<1>5. CASE op.type \in {"TruncateStart", "TruncateEnd"}
    <2> DEFINE d == kill_segments(st, op.drop)
    <2>1. EntriesOk(d)
        BY DEF kill_segments, Retain, Without, EntriesOk
    <2>2. CASE op.type = "TruncateStart"
        <3>1. k.segments = d.segments /\ k.seals = d.seals
            BY <2>2 DEF ApplyStructure, truncate_start
        <3> HIDE DEF k, d
        <3> QED
            BY <2>1, <3>1 DEF EntriesOk
    <2>3. CASE op.type = "TruncateEnd"
        <3>1. k.segments = d.segments /\ k.seals = Without(d.seals, {op.new_active_id})
            BY <2>3 DEF ApplyStructure, truncate_end
        <3> HIDE DEF k, d
        <3> QED
            BY <2>1, <3>1 DEF EntriesOk, Without
    <2> QED
        BY <1>5, <2>2, <2>3
<1>6. CASE op.type \in {"SegmentDeleted", "RecordOrphan", "Metadata"}
    BY <1>6 DEF ApplyStructure, segment_deleted, record_orphan, WithDead, EntriesOk
<1> QED
    BY <1>3, <1>4, <1>5, <1>6 DEF OpTypesOf

\* A scan without issues finds every live segment whole and no file that the
\* manifest does not know; its issues name segments and offsets in them.
SegmentFixes ==
    {"ActiveSegmentTornTail", "SealedSegmentChecksumCorrupt", "ActiveSegmentMissing"}
LEMMA ScanFiles ==
    ASSUME NEW m, ManifestOk(m), NEW files \in [SegIds -> FileType]
    PROVE  /\ scan(m, files) = {} =>
                /\ m.kind = "ok" /\ WellFormed(m.st) /\ Known(m.st) \subseteq SegIds
                /\ \A id \in SegIds : files[id].kind # "absent" => id \in Known(m.st)
                /\ \A id \in Live(m.st) :
                    \A i \in DOMAIN files[id].frames : files[id].frames[i].ok
           /\ \A i \in scan(m, files) :
                /\ i.issue \in SegmentFixes => i.id \in SegIds /\ i.at \in Nat
                /\ i.issue \notin ManifestIssues => m.kind = "ok" /\ WellFormed(m.st)
<1> DEFINE seg(id) == scan_segment(m.st, files, id)
           orphans == find_orphans(m.st, files)
           gone == find_missing_dead(m.st, files)
<1>1. \A i \in ManifestTail(m) : i.issue \in ManifestIssues
    BY DEF ManifestTail, Issue, ManifestIssues
<1>2. ASSUME NEW id \in SegIds
      PROVE  /\ \A i \in seg(id) : i.id = id /\ i.at \in Nat /\ i.issue \notin ManifestIssues
             /\ seg(id) = {} => \A i \in DOMAIN files[id].frames : files[id].frames[i].ok
    <2>1. files[id].frames \in Seq(FrameType)
        BY DEF FileType
    <2> DEFINE bad == CleanLen(files[id].frames)
    <2>2. /\ bad \in 0..Len(files[id].frames) /\ Len(files[id].frames) \in Nat
          /\ \A i \in DOMAIN files[id].frames : i <= bad => files[id].frames[i].ok
          /\ DOMAIN files[id].frames = 1..Len(files[id].frames)
        BY <2>1, CleanPrefix
    <2>3. seg(id) = {} => bad = Len(files[id].frames)
        <3>1. ASSUME bad < Len(files[id].frames) PROVE seg(id) # {}
            <4>1. ~IsClean(files[id])
                <5> HIDE DEF bad
                <5>1. bad # Len(files[id].frames)
                    BY <2>2, <3>1
                <5> QED
                    BY <5>1 DEF IsClean, bad
            <4>2. CASE IsSealed(m.st, id)
                BY <3>1, <4>2 DEF scan_segment
            <4>3. CASE ~IsSealed(m.st, id)
                BY <4>1, <4>3 DEF scan_segment
            <4> QED
                BY <4>2, <4>3
        <3> HIDE DEF bad
        <3> QED
            BY <2>2, <3>1
    <2>4. \A i \in seg(id) : i.id = id /\ i.at \in Nat /\ i.issue \notin ManifestIssues
        BY <2>2 DEF scan_segment, Issue, ManifestIssues
    <2> QED
        BY <2>2, <2>3, <2>4
<1>3. \A i \in orphans \cup gone : i.issue \notin SegmentFixes
    BY DEF find_orphans, find_missing_dead, Issue, SegmentFixes
<1>4. CASE /\ m.kind = "ok" /\ WellFormed(m.st) /\ Known(m.st) \subseteq SegIds
           /\ scan(m, files) =
                ManifestTail(m) \cup orphans \cup gone \cup UNION {seg(id) : id \in Live(m.st)}
    <2>1. Live(m.st) \subseteq SegIds
        BY <1>4 DEF Known
    <2>2. orphans = {} => \A id \in SegIds : files[id].kind # "absent" => id \in Known(m.st)
        BY DEF find_orphans, OnDisk, Known
    <2> HIDE DEF orphans, gone, seg
    <2>3. scan(m, files) = {} => orphans = {} /\ \A id \in Live(m.st) : seg(id) = {}
        BY <1>4
    <2>4. ASSUME NEW i \in scan(m, files), i.issue \in SegmentFixes
          PROVE  i.id \in SegIds /\ i.at \in Nat
        <3>1. PICK id \in Live(m.st) : i \in seg(id)
            BY <1>1, <1>3, <1>4, <2>4 DEF SegmentFixes, ManifestIssues
        <3> QED
            BY <1>2, <2>1, <3>1
    <2> QED
        BY <1>2, <1>4, <2>1, <2>2, <2>3, <2>4
<1>5. CASE scan(m, files) # {} /\ \A i \in scan(m, files) : i.issue \in ManifestIssues
    BY <1>5 DEF ManifestIssues, SegmentFixes
<1> QED
    BY <1>4, <1>5, ScanIs

-----------------------------------------------------------------------------
(***************************************************************************)
(* FileInv, part by part.                                                  *)
(***************************************************************************)
\* The segments an open store names are segments.
LEMMA OpenFacts ==
    ASSUME StructureInv, Opened
    PROVE  /\ WellFormed(state) /\ Known(state) \subseteq SegIds /\ Live(state) \subseteq SegIds
           /\ active_id = state.active_segment_id
           /\ active_id \in Live(state) /\ active_id \in SegIds
           /\ next_seg_id \in Nat /\ \A id \in Known(state) : id < next_seg_id
           /\ active_id < next_seg_id
           /\ to_delete \subseteq state.dead
<1>1. /\ WellFormed(state) /\ Known(state) \subseteq SegIds
      /\ active_id = state.active_segment_id
      /\ next_seg_id \in Nat /\ \A id \in Known(state) : id < next_seg_id
      /\ to_delete \subseteq state.dead
    BY DEF StructureInv, MemoryOk
<1>2. active_id \in Live(state)
    BY <1>1 DEF WellFormed, ActiveIsLast, Live
<1> QED
    BY <1>1, <1>2 DEF Known

LEMMA EmptyEntries == EntriesOk(EmptyState)
    BY DEF EntriesOk, EmptyState

\* An append leaves manifests with typed records, whole or torn.
LEMMA AppendTyped ==
    ASSUME ManifestsTyped, NEW op, op.type \in OpTypesOf, OpEntriesOk(op), AppendManifest(op)
    PROVE  ManifestsTyped'
<1> DEFINE m == ManifestFile(Apply(mdisk.st, op), "clean")
           torn == {ManifestFile(mdisk.st, k) : k \in TornKinds}
<1>1. EntriesOk(mdisk.st)
    BY DEF ManifestsTyped, Manifests
<1>2. EntriesOk(m.st) /\ m.tail = "clean"
    BY <1>1, ApplyEntries DEF ManifestFile
<1>3. \A t \in torn : t.st = mdisk.st /\ t.tail \in TornKinds
    BY DEF ManifestFile
<1>4. mdisk' = m /\ msurv' = msurv \cup {m} \cup torn
    BY DEF AppendManifest
<1> HIDE DEF m, torn
<1>5. ASSUME NEW x \in Manifests' PROVE x.tail \in {"clean"} \cup TornKinds /\ EntriesOk(x.st)
    <2>1. x \in Manifests \/ x = m \/ x \in torn
        BY <1>4 DEF Manifests
    <2> QED
        BY <1>1, <1>2, <1>3, <2>1 DEF ManifestsTyped
<1> QED
    BY <1>5 DEF ManifestsTyped

\* The manifests a failure may leave.
LEMMA NextManifests ==
    ASSUME StructureInv, FileInv, [Next]_vars
    PROVE  ManifestsTyped'
<1>1. ManifestsTyped /\ mdisk \in Manifests
    BY DEF FileInv, Manifests
<1>2. ASSUME Manifests' \subseteq Manifests PROVE ManifestsTyped'
    BY <1>1, <1>2 DEF ManifestsTyped
<1>3. CASE CreateManifest
    <2>1. UnreadableManifest.tail = "clean" /\ EntriesOk(UnreadableManifest.st)
        BY EmptyEntries DEF UnreadableManifest
    <2>2. Manifests' \subseteq Manifests \cup {UnreadableManifest}
        BY <1>3 DEF CreateManifest, Manifests
    <2> QED
        BY <1>1, <2>1, <2>2 DEF ManifestsTyped
<1>4. CASE WriteManifestMagic
    <2> DEFINE m == ManifestFile(EmptyState, "clean")
    <2>1. m.tail = "clean" /\ EntriesOk(m.st)
        BY EmptyEntries DEF ManifestFile
    <2>2. Manifests' = {m}
        BY <1>4 DEF WriteManifestMagic, Manifests
    <2> QED
        BY <2>1, <2>2 DEF ManifestsTyped
<1>5. CASE FlushCreate
    <2>1. mbuf = CreateSegmentOp(1, 0) /\ AppendManifest(mbuf)
        BY <1>5 DEF FlushCreate, StructureInv, ControlOk, OpAt
    <2>2. mbuf.type \in OpTypesOf /\ OpEntriesOk(mbuf)
        BY <2>1, BoundsAssumption DEF CreateSegmentOp, OpTypesOf, OpEntriesOk
    <2> QED
        BY <1>1, <2>1, <2>2, AppendTyped
<1>6. CASE Flush
    <2>1. pc = "flush" /\ mbuf # NoOp /\ Opened /\ AppendManifest(mbuf)
        BY <1>6 DEF Flush, Opened, StructureInv, ControlOk, OpAt
    <2>2. mbuf.type \in OpTypesOf /\ mbuf.type # "CreateSegment"
        BY <1>6, <2>1, InFlightType DEF Flush
    <2>3. mbuf.type = "RollSegment" => mbuf.new_id = next_seg_id /\ next_seg_id \in SegIds
        <3>1. OpValid(state, mbuf, next_seg_id, to_delete)
            BY <1>6, <2>1 DEF StructureInv, ControlOk, Flush
        <3> QED
            BY <3>1 DEF OpValid, RollSegmentOp, TruncateStartOp, TruncateEndOp,
                        SegmentDeletedOp, MetadataOp
    <2>4. OpEntriesOk(mbuf)
        BY <2>2, <2>3, MaxSegAssumption DEF OpEntriesOk, FileInv, CallTyped, SegIds
    <2> QED
        BY <1>1, <2>1, <2>2, <2>4, AppendTyped
<1>7. CASE FixUp
    <2>1. PICK fix \in fix_ups : \/ TruncateManifest(fix) \/ TruncateSegment(fix)
                                 \/ AppendFixOp(fix) \/ CreateActiveSegment(fix)
        BY <1>7 DEF FixUp, NextFixUps
    <2>2. CASE TruncateManifest(fix)
        <3> DEFINE m == ManifestFile(mdisk.st, "clean")
        <3>1. m.tail = "clean" /\ m.st = mdisk.st
            BY DEF ManifestFile
        <3>2. Manifests' = {m}
            BY <2>2 DEF TruncateManifest, Manifests
        <3> HIDE DEF m
        <3> QED
            BY <1>1, <3>1, <3>2 DEF ManifestsTyped
    <2>3. CASE AppendFixOp(fix)
        <3>1. mbuf' \in {RecordOrphanOp(fix.id), SegmentDeletedOp(fix.id)}
              /\ AppendManifest(mbuf')
            BY <2>3 DEF AppendFixOp
        <3>2. mbuf'.type \in OpTypesOf /\ OpEntriesOk(mbuf')
            BY <3>1 DEF RecordOrphanOp, SegmentDeletedOp, OpTypesOf, OpEntriesOk
        <3> QED
            BY <1>1, <3>1, <3>2, AppendTyped
    <2>4. CASE TruncateSegment(fix) \/ CreateActiveSegment(fix)
        <3>1. UNCHANGED <<mdisk, msurv>>
            BY <2>4 DEF TruncateSegment, CreateActiveSegment, manifestVars, diskVars
        <3> QED
            BY <1>2, <3>1 DEF Manifests
    <2> QED
        BY <2>1, <2>2, <2>3, <2>4
<1>8. CASE SyncRollover \/ SyncTruncateStart \/ SyncTruncateEnd \/ SyncDeleted
             \/ SyncMetadata \/ SyncFixOp
    <2>1. mdisk' = mdisk /\ msurv' = {mdisk}
        BY <1>8 DEF SyncRollover, SyncTruncateStart, SyncTruncateEnd, SyncDeleted,
                    SyncMetadata, SyncFixOp, SyncManifest
    <2> QED
        BY <1>2, <2>1 DEF Manifests
<1>9. CASE PowerLoss
    BY <1>2, <1>9 DEF PowerLoss, Manifests
<1>10. CASE UNCHANGED <<mdisk, msurv>>
    BY <1>2, <1>10 DEF Manifests
<1>11. CASE OpenClean \/ OpenWithIssues \/ Recover \/ FixedUp \/ UNCHANGED vars
              \/ CreateNew \/ WriteMagic \/ AppendFrames \/ CommitSync \/ CommitDrop
    BY <1>10, <1>11 DEF OpenClean, OpenWithIssues, Recover, Attempt, FixedUp, vars, diskVars,
              manifestVars, CreateNew, WriteMagic, AppendFrames, AppendAfter, CommitSync,
              CommitDrop
<1>12. CASE Write \/ TruncateStart \/ TruncateEnd \/ SyncTruncated \/ DeleteDeadSegments
              \/ RemoveFile \/ WriteMetadata \/ Restart \/ Corrupt
    BY <1>10, <1>12 DEF Write, TruncateStart, TruncateEnd, SyncTruncated, DeleteDeadSegments,
              RemoveFile, WriteMetadata, Restart, Corrupt, diskVars, manifestVars
<1> QED
    BY <1>3, <1>4, <1>5, <1>6, <1>7, <1>8, <1>9, <1>11, <1>12
        DEF Next, OpenSteps, CallSteps, Calls, Failures

-----------------------------------------------------------------------------
\* A change of one file.
LEMMA SetSegmentIs ==
    ASSUME DiskTyped, NEW id \in SegIds, NEW file \in FileType,
           NEW outcomes, outcomes \subseteq FileType, SetSegment(id, file, outcomes)
    PROVE  /\ DiskTyped'
           /\ disk'[id] = file
           /\ surv'[id] = outcomes
           /\ \A x \in SegIds : x # id => disk'[x] = disk[x] /\ surv'[x] = surv[x]
    BY DEF SetSegment, DiskTyped

\* The files that the store makes.
LEMMA NewFilesType ==
    /\ AbsentFile \in FileType /\ NoMagicFile \in FileType
    /\ SegmentFile(<<>>, FALSE) \in FileType
<1>1. <<>> \in Seq(FrameType)
    OBVIOUS
<1> QED
    BY <1>1 DEF AbsentFile, NoMagicFile, SegmentFile, FileType

\* What sync_all leaves.
LEMMA SyncedType ==
    ASSUME NEW file \in FileType, NEW outcomes, outcomes \subseteq FileType
    PROVE  Synced(file, outcomes) \subseteq FileType
    BY DEF Synced

\* The file that truncate_end cuts, and where.
LEMMA TruncateEndCut ==
    ASSUME StructureInv, DiskTyped, MemoryTyped, TruncateEnd
    PROVE  \E last \in 1..MaxId, p \in DOMAIN state.segments, n \in Nat :
            LET target == state.segments[p].id
                file == SegmentFile(SetLen(disk[target].frames, n), FALSE)
            IN  /\ target \in SegIds /\ target \in Live(state)
                /\ file \in FileType
                /\ IsTarget(state, p, last)
                /\ last < last_entry_id
                /\ SetSegment(target, file, surv[target] \cup {file})
                /\ mbuf' = TruncateEndOp(target, LaterSegments(state, p))
                /\ last_valid' = last
                /\ acked' = {x \in acked : x <= last}
<1>1. PICK last \in 1..(last_entry_id - 1), p \in DOMAIN state.segments :
        LET target == state.segments[p].id
            found == Find(index, last)
            start == IF found.segment = target THEN found.byte_offset ELSE 0
            frames == disk[target].frames
            file == SegmentFile(SetLen(frames, ScanToAfter(frames, start, last)), FALSE)
        IN  /\ IsTarget(state, p, last)
            /\ last \in Ids(frames)
            /\ SetSegment(target, file, surv[target] \cup {file})
            /\ mbuf' = TruncateEndOp(target, LaterSegments(state, p))
            /\ last_valid' = last
            /\ acked' = {x \in acked : x <= last}
    BY DEF TruncateEnd
<1> DEFINE target == state.segments[p].id
           frames == disk[target].frames
           start == IF Find(index, last).segment = target
                    THEN Find(index, last).byte_offset ELSE 0
           at == {i \in DOMAIN frames : frames[i].id = last}
           n == ScanToAfter(frames, start, last)
           file == SegmentFile(SetLen(frames, n), FALSE)
<1>2. last_entry_id \in 0..MaxId /\ MaxId \in Nat /\ index \in Seq(SegmentIndex)
    BY BoundsAssumption DEF MemoryTyped
<1>3. last \in 1..MaxId /\ last \in Nat /\ last < last_entry_id
    BY <1>2
<1>4. Opened
    BY DEF TruncateEnd, Opened
<1>5. target \in Live(state) /\ target \in SegIds
    BY <1>4, OpenFacts DEF Live
<1>6. frames \in Seq(FrameType)
    BY <1>5 DEF DiskTyped, FileType
<1>7. n \in Nat
    <2>1. start \in Nat
        BY <1>2, <1>3, FindType
    <2>2. at # {} /\ at \subseteq Nat
        <3>1. last \in Ids(frames)
            BY <1>1
        <3>2. DOMAIN frames = 1..Len(frames)
            BY <1>6
        <3> HIDE DEF frames
        <3> QED
            BY <3>1, <3>2 DEF Ids
    <2>3. Min(at) \in Nat
        <3> HIDE DEF at
        <3> QED
            BY <2>2, MinIs
    <2>4. n = start + Min(at)
        BY DEF ScanToAfter
    <2> HIDE DEF start, at, n
    <2> QED
        BY <2>1, <2>3, <2>4
<1>8. file \in FileType
    <2> HIDE DEF n, frames
    <2>1. SetLen(frames, n) \in Seq(FrameType)
        BY <1>6, <1>7, SetLenType
    <2> QED
        BY <2>1 DEF SegmentFile, FileType
<1>9. /\ IsTarget(state, p, last)
      /\ SetSegment(target, file, surv[target] \cup {file})
      /\ mbuf' = TruncateEndOp(target, LaterSegments(state, p))
      /\ last_valid' = last
      /\ acked' = {x \in acked : x <= last}
    BY <1>1
<1> HIDE DEF n
<1> QED
    BY <1>3, <1>5, <1>7, <1>8, <1>9

\* Every file stays a file.
LEMMA NextDisk ==
    ASSUME StructureInv, FileInv, [Next]_vars
    PROVE  DiskTyped'
<1>1. DiskTyped /\ MemoryTyped /\ CallTyped
    BY DEF FileInv
<1>2. \A id \in SegIds : disk[id] \in FileType /\ surv[id] \subseteq FileType
    BY <1>1 DEF DiskTyped
<1>3. CASE CreateNew
    <2>1. creating \in SegIds
        BY <1>3 DEF CreateNew, FileInv, NewFileOk
    <2>2. surv[creating] \cup {NoMagicFile} \subseteq FileType
        BY <1>2, <2>1, NewFilesType
    <2> QED
        BY <1>1, <1>3, <2>1, <2>2, NewFilesType, SetSegmentIs DEF CreateNew
<1>4. CASE WriteMagic
    <2>1. creating \in SegIds
        BY <1>4 DEF WriteMagic, FileInv, NewFileOk
    <2>2. Synced(SegmentFile(<<>>, FALSE), surv[creating]) \subseteq FileType
        BY <1>2, <2>1, NewFilesType, SyncedType
    <2> QED
        BY <1>1, <1>4, <2>1, <2>2, NewFilesType, SetSegmentIs DEF WriteMagic
<1>5. CASE FixUp
    <2>1. PICK fix \in fix_ups : \/ TruncateManifest(fix) \/ TruncateSegment(fix)
                                 \/ AppendFixOp(fix) \/ CreateActiveSegment(fix)
        BY <1>5 DEF FixUp, NextFixUps
    <2>2. CASE TruncateSegment(fix)
        <3> DEFINE file == SegmentFile(SetLen(disk[fix.id].frames, fix.at), FALSE)
        <3>1. fix.id \in SegIds /\ fix.at \in Nat
            BY <1>1, <2>2 DEF CallTyped, TruncateSegment
        <3>2. disk[fix.id].frames \in Seq(FrameType)
            BY <1>2, <3>1 DEF FileType
        <3>3. file \in FileType
            BY <3>1, <3>2, SetLenType DEF SegmentFile, FileType
        <3>4. SetSegment(fix.id, file, Synced(file, surv[fix.id]))
            BY <2>2 DEF TruncateSegment
        <3> HIDE DEF file
        <3>5. Synced(file, surv[fix.id]) \subseteq FileType
            BY <1>2, <3>1, <3>3, SyncedType
        <3> QED
            BY <1>1, <3>1, <3>3, <3>4, <3>5, SetSegmentIs
    <2>3. CASE TruncateManifest(fix) \/ AppendFixOp(fix) \/ CreateActiveSegment(fix)
        <3>1. UNCHANGED <<disk, surv>>
            BY <2>3 DEF TruncateManifest, AppendFixOp, CreateActiveSegment, segmentVars, diskVars
        <3> QED
            BY <1>1, <3>1 DEF DiskTyped
    <2> QED
        BY <2>1, <2>2, <2>3
<1>6. CASE AppendFrames
    <2> DEFINE file == SegmentFile(WriteAt(disk[active_id].frames, position, <<>> \o buf), FALSE)
               outcomes == AppendOutcomes(disk[active_id], position, <<>> \o buf)
    <2>1. Opened
        BY <1>6 DEF AppendFrames, AppendAfter, Opened
    <2>2. active_id \in SegIds
        BY <2>1, OpenFacts
    <2>3. buf \in Seq(FrameType) /\ <<>> \o buf = buf
        BY <1>1 DEF CallTyped
    <2>4. position \in Nat
        BY <1>1 DEF MemoryTyped
    <2>5. file \in FileType /\ outcomes \subseteq FileType
        BY <1>2, <2>2, <2>3, <2>4, AppendOutcomesType
    <2>6. SetSegment(active_id, file, surv[active_id] \cup outcomes)
        BY <1>6 DEF AppendFrames, AppendAfter
    <2> HIDE DEF file, outcomes
    <2> QED
        BY <1>1, <1>2, <2>2, <2>5, <2>6, SetSegmentIs
<1>7. CASE CommitSync
    <2>1. Opened /\ SyncSegment(active_id)
        BY <1>7 DEF CommitSync, Opened
    <2>2. active_id \in SegIds
        BY <2>1, OpenFacts
    <2> QED
        BY <1>1, <1>2, <2>1, <2>2, SyncedType, SetSegmentIs DEF SyncSegment
<1>8. CASE TruncateEnd
    <2>1. PICK last \in 1..MaxId, p \in DOMAIN state.segments, n \in Nat :
            LET target == state.segments[p].id
                file == SegmentFile(SetLen(disk[target].frames, n), FALSE)
            IN  /\ target \in SegIds
                /\ file \in FileType
                /\ SetSegment(target, file, surv[target] \cup {file})
        BY <1>1, <1>8, TruncateEndCut
    <2> DEFINE target == state.segments[p].id
               file == SegmentFile(SetLen(disk[target].frames, n), FALSE)
    <2>2. /\ target \in SegIds /\ file \in FileType
          /\ SetSegment(target, file, surv[target] \cup {file})
        BY <2>1
    <2> HIDE DEF target, file
    <2>3. surv[target] \cup {file} \subseteq FileType
        BY <1>2, <2>2
    <2> QED
        BY <1>1, <2>2, <2>3, SetSegmentIs
<1>9. CASE SyncTruncated
    <2>1. Opened /\ SyncSegment(mbuf.new_active_id) /\ pc = "truncated"
        BY <1>9 DEF SyncTruncated, Opened
    <2>2. mbuf.new_active_id \in SegIds
        <3>1. mbuf.type = "TruncateEnd" /\ OpValid(state, mbuf, next_seg_id, to_delete)
            BY <2>1 DEF StructureInv, ControlOk, OpAt
        <3>2. mbuf.new_active_id \in Live(state)
            BY <3>1 DEF OpValid, TruncateEndOp, Live
        <3> QED
            BY <2>1, <3>2, OpenFacts
    <2> QED
        BY <1>1, <1>2, <2>1, <2>2, SyncedType, SetSegmentIs DEF SyncSegment
<1>10. CASE RemoveFile
    <2>1. PICK id \in to_delete : SetSegment(id, AbsentFile, surv[id] \cup {AbsentFile})
        BY <1>10 DEF RemoveFile
    <2>2. Opened
        BY <1>10 DEF RemoveFile, Opened
    <2>3. id \in SegIds
        BY <2>2, OpenFacts DEF Known
    <2>4. surv[id] \cup {AbsentFile} \subseteq FileType
        BY <1>2, <2>3, NewFilesType
    <2> QED
        BY <1>1, <2>1, <2>3, <2>4, NewFilesType, SetSegmentIs
<1>11. CASE PowerLoss
    <2>1. disk' \in [SegIds -> UNION {surv[id] : id \in SegIds}]
          /\ (\A id \in SegIds : disk'[id] \in surv[id])
          /\ surv' = [id \in SegIds |-> {disk'[id]}]
        BY <1>11 DEF PowerLoss
    <2>2. \A id \in SegIds : disk'[id] \in FileType
        BY <1>2, <2>1
    <2>3. disk' \in [SegIds -> FileType]
        BY <2>1, <2>2
    <2> QED
        BY <2>1, <2>2, <2>3 DEF DiskTyped
<1>12. CASE Corrupt
    <2>1. PICK id \in SegIds : \E i \in DOMAIN disk[id].frames :
            LET file == [disk[id] EXCEPT !.frames[i].ok = FALSE]
            IN  SetSegment(id, file, {file})
        BY <1>12 DEF Corrupt
    <2>2. PICK i \in DOMAIN disk[id].frames :
            LET file == [disk[id] EXCEPT !.frames[i].ok = FALSE]
            IN  SetSegment(id, file, {file})
        BY <2>1
    <2> DEFINE file == [disk[id] EXCEPT !.frames[i].ok = FALSE]
               rotten == [disk[id].frames EXCEPT ![i].ok = FALSE]
    <2>3. disk[id] \in FileType /\ disk[id].frames \in Seq(FrameType)
        BY <1>2 DEF FileType
    <2>4. rotten \in Seq(FrameType)
        <3>1. [disk[id].frames[i] EXCEPT !.ok = FALSE] \in FrameType
            <4>1. disk[id].frames[i] \in FrameType
                BY <2>3
            <4> QED
                BY <4>1 DEF FrameType
        <3> QED
            BY <2>3, <3>1
    <2>5. file = [disk[id] EXCEPT !.frames = rotten]
        BY <2>3 DEF FileType
    <2>6. file \in FileType
        <3> HIDE DEF file, rotten
        <3> QED
            BY <2>3, <2>4, <2>5 DEF FileType
    <2>7. SetSegment(id, file, {file})
        BY <2>2
    <2> HIDE DEF file
    <2> QED
        BY <1>1, <2>6, <2>7, SetSegmentIs
<1>13. CASE UNCHANGED <<disk, surv>>
    BY <1>1, <1>13 DEF DiskTyped
<1>14. CASE OpenClean \/ OpenWithIssues \/ Recover \/ FixedUp \/ SyncFixOp \/ UNCHANGED vars
              \/ CreateManifest \/ WriteManifestMagic \/ FlushCreate \/ Flush \/ CommitDrop
    BY <1>13, <1>14 DEF OpenClean, OpenWithIssues, Recover, Attempt, FixedUp, SyncFixOp, vars,
              diskVars, segmentVars, CreateManifest, WriteManifestMagic, FlushCreate, Flush,
              CommitDrop
<1>15. CASE Write \/ TruncateStart \/ DeleteDeadSegments \/ WriteMetadata \/ Restart
              \/ SyncRollover \/ SyncTruncateStart \/ SyncTruncateEnd \/ SyncDeleted \/ SyncMetadata
    BY <1>13, <1>15 DEF Write, TruncateStart, DeleteDeadSegments, WriteMetadata, Restart,
              SyncRollover, SyncTruncateStart, SyncTruncateEnd, SyncDeleted, SyncMetadata,
              diskVars, segmentVars
<1> QED
    BY <1>3, <1>4, <1>5, <1>6, <1>7, <1>8, <1>9, <1>10, <1>11, <1>12, <1>14, <1>15
        DEF Next, OpenSteps, CallSteps, Calls, Failures

-----------------------------------------------------------------------------
\* Only a failure closes an open store.
LEMMA StaysOpen ==
    ASSUME StructureInv, [Next]_vars, Opened
    PROVE  Opened' \/ PowerLoss \/ Restart
<1>1. /\ pc \in {"idle", "append", "commit", "truncated", "delete", "sync",
                 "create", "magic", "flush"}
      /\ pc \in {"create", "magic", "flush"} => mbuf # NoOp /\ mbuf.type # "CreateSegment"
    BY DEF Opened
<1>2. CASE CreateNew \/ WriteMagic \/ Flush \/ UNCHANGED vars
    BY <1>1, <1>2 DEF CreateNew, WriteMagic, Flush, vars, callVars, Goto, Opened
<1>3. CASE AppendFrames \/ CommitSync \/ CommitDrop \/ SyncRollover \/ SyncTruncateStart
             \/ SyncTruncateEnd \/ SyncDeleted \/ SyncMetadata
    BY <1>3 DEF AppendFrames, AppendAfter, CommitSync, CommitDrop, SyncRollover,
             SyncTruncateStart, SyncTruncateEnd, SyncDeleted, SyncMetadata, Goto, Opened
<1>4. CASE Write
    <2>1. pc' = "append" \/ (pc' = "create" /\ \E f : mbuf' = RolloverOp(f))
        BY <1>4 DEF Write, Goto
    <2> QED
        BY <2>1 DEF RolloverOp, RollSegmentOp, NoOp, Opened
<1>5. CASE TruncateStart
    BY <1>5 DEF TruncateStart, TruncateStartOp, Goto, NoOp, Opened
<1>6. CASE TruncateEnd \/ DeleteDeadSegments
    BY <1>6 DEF TruncateEnd, DeleteDeadSegments, Goto, Opened
<1>7. CASE SyncTruncated
    <2>1. pc = "truncated" /\ pc' = "flush" /\ mbuf' = mbuf
        BY <1>7 DEF SyncTruncated, Goto, callVars
    <2> QED
        BY <2>1 DEF StructureInv, ControlOk, OpAt, Opened
<1>8. CASE RemoveFile \/ WriteMetadata
    <2>1. pc' = "flush" /\ \E v : mbuf' = SegmentDeletedOp(v) \/ mbuf' = MetadataOp(v)
        BY <1>8 DEF RemoveFile, WriteMetadata, Goto
    <2>2. mbuf'.type \in {"SegmentDeleted", "Metadata"}
        BY <2>1 DEF SegmentDeletedOp, MetadataOp
    <2> QED
        BY <2>1, <2>2 DEF NoOp, Opened
<1>9. CASE OpenSteps \/ Corrupt
    BY <1>1, <1>9 DEF OpenSteps, CreateManifest, WriteManifestMagic, FlushCreate, OpenClean,
             OpenWithIssues, Recover, Attempt, FixUp, SyncFixOp, FixedUp, Corrupt
<1> QED
    BY <1>2, <1>3, <1>4, <1>5, <1>6, <1>7, <1>8, <1>9 DEF Next, CallSteps, Calls, Failures

\* The steps that load a store found every file whole.
LEMMA LoadedFrom ==
    ASSUME StructureInv, DiskTyped, OpenClean \/ (FixedUp /\ pc' = "idle")
    PROVE  /\ Load /\ pc' = "idle" /\ mbuf' = NoOp /\ UNCHANGED <<disk, surv, mdisk, msurv>>
           /\ mdisk.kind = "ok" /\ WellFormed(mdisk.st) /\ Known(mdisk.st) \subseteq SegIds
           /\ \A id \in SegIds : disk[id].kind # "absent" => id \in Known(mdisk.st)
           /\ \A id \in Live(mdisk.st) : \A i \in DOMAIN disk[id].frames : disk[id].frames[i].ok
<1>1. /\ scan(mdisk, disk) = {} /\ Load /\ pc' = "idle" /\ mbuf' = mbuf
      /\ UNCHANGED <<disk, surv, mdisk, msurv>>
    BY DEF OpenClean, FixedUp, Loaded, NotOpened, Goto, diskVars, callVars
<1>2. mbuf = NoOp
    BY DEF OpenClean, FixedUp, StructureInv, ControlOk, NoOpAt
<1>3. ManifestOk(mdisk) /\ disk \in [SegIds -> FileType]
    BY DEF StructureInv, Manifests, DiskTyped
<1> QED
    BY <1>1, <1>2, <1>3, ScanFiles

\* The memory of the store.
LEMMA NextMemory ==
    ASSUME StructureInv, FileInv, [Next]_vars
    PROVE  MemoryTyped'
<1>1. ManifestsTyped /\ DiskTyped /\ MemoryTyped /\ CallTyped
    BY DEF FileInv
<1>3. ASSUME UNCHANGED <<state, index, active_id, position, active_first_entry,
                         active_entry_count, last_entry_id, next_seg_id>>,
             ~PowerLoss, ~Restart
      PROVE  MemoryTyped'
    BY <1>1, <1>3, StaysOpen DEF MemoryTyped
<1>4. CASE OpenClean \/ (FixedUp /\ pc' = "idle")
    <2>1. /\ Load /\ pc' = "idle"
          /\ WellFormed(mdisk.st) /\ Known(mdisk.st) \subseteq SegIds
        BY <1>1, <1>4, LoadedFrom
    <2>2. EntriesOk(mdisk.st) /\ Live(mdisk.st) \subseteq SegIds
          /\ disk \in [SegIds -> FileType]
        BY <1>1, <2>1 DEF ManifestsTyped, Manifests, Known, DiskTyped
    <2>3. BuildIndex(mdisk.st, disk) \in Seq(SegmentIndex)
        BY <2>1, <2>2, BuildIndexType
    <2>4. /\ FirstOf(mdisk.st, mdisk.st.active_segment_id) \in 0..MaxId
          /\ mdisk.st.active_segment_id \in Live(mdisk.st)
          /\ ScannedLastEntry(mdisk.st, disk) \in 0..MaxId
        BY <2>1, <2>2, RecordsType
    <2>5. ScannedNextSegId(mdisk.st) \in Nat
        BY <2>1, NextSegIdFences
    <2>6. Len(disk[mdisk.st.active_segment_id].frames) \in Nat
        BY <2>2, <2>4 DEF FileType
    <2>7. /\ state' = mdisk.st /\ index' = BuildIndex(mdisk.st, disk)
          /\ active_id' = mdisk.st.active_segment_id
          /\ position' = Len(disk[mdisk.st.active_segment_id].frames)
          /\ active_first_entry' = FirstOf(mdisk.st, mdisk.st.active_segment_id)
          /\ active_entry_count' = Len(disk[mdisk.st.active_segment_id].frames)
          /\ last_entry_id' = ScannedLastEntry(mdisk.st, disk)
          /\ next_seg_id' = ScannedNextSegId(mdisk.st)
        BY <2>1, Zenon DEF Load
    <2>8. Opened'
        BY <2>1 DEF Opened
    <2> QED
        BY <2>2, <2>3, <2>4, <2>5, <2>6, <2>7, <2>8 DEF MemoryTyped
<1>5. CASE SyncRollover \/ SyncTruncateStart \/ SyncTruncateEnd \/ SyncDeleted \/ SyncMetadata
    <2>1. /\ pc = "sync" /\ pc' \in {"append", "idle", "delete"}
          /\ state' = Apply(state, mbuf) /\ mdisk' = mdisk
        BY <1>5 DEF SyncRollover, SyncTruncateStart, SyncTruncateEnd, SyncDeleted,
                    SyncMetadata, SyncManifest, Goto
    <2>2. Opened /\ Opened'
        BY <2>1 DEF Opened
    <2>3. mdisk.st = Apply(state, mbuf)
        BY <2>1, <2>2 DEF StructureInv, MemoryOk
    <2>4. EntriesOk(state')
        BY <1>1, <2>1, <2>3 DEF ManifestsTyped, Manifests
    <2>5. /\ WellFormed(state') /\ Live(state') \subseteq SegIds
          /\ mbuf.type = "RollSegment" =>
                mbuf.new_id = next_seg_id /\ state'.active_segment_id = next_seg_id
          /\ mbuf.type = "TruncateEnd" => mbuf.new_active_id = state'.active_segment_id
        BY <2>1, <2>2, InFlight DEF Known
    <2>6. disk \in [SegIds -> FileType]
        BY <1>1 DEF DiskTyped
    <2>7. /\ FirstOf(state', state'.active_segment_id) \in 0..MaxId
          /\ state'.active_segment_id \in Live(state')
        BY <2>4, <2>5, <2>6, RecordsType
    <2>8. CASE SyncRollover
        <3>1. next_seg_id \in Nat /\ mbuf.new_id = next_seg_id /\ mbuf.new_id \in SegIds
            BY <1>1, <2>5, <2>7, <2>8 DEF SyncRollover, MemoryTyped
        <3>2. mbuf.new_first_entry \in 0..MaxId
            BY <1>1, <2>8 DEF SyncRollover, CallTyped
        <3> QED
            BY <1>1, <2>2, <2>4, <2>8, <3>1, <3>2 DEF SyncRollover, MemoryTyped
    <2>9. CASE SyncTruncateStart
        <3>1. IndexTruncateStart(index, mbuf.first_entry) \in Seq(SegmentIndex)
            BY <1>1, IndexTruncateStartType DEF MemoryTyped
        <3> QED
            BY <1>1, <2>2, <2>4, <2>9, <3>1 DEF SyncTruncateStart, MemoryTyped, cursorVars
    <2>10. CASE SyncTruncateEnd
        <3>1. IndexTruncateEnd(index, last_valid) \in Seq(SegmentIndex)
            BY <1>1, IndexTruncateEndType DEF MemoryTyped
        <3>2. mbuf.new_active_id \in SegIds
              /\ mbuf.new_active_id = state'.active_segment_id
            BY <2>5, <2>7, <2>10 DEF SyncTruncateEnd
        <3>3. Len(disk[mbuf.new_active_id].frames) \in Nat
            BY <2>6, <3>2 DEF FileType
        <3>4. last_valid \in 0..MaxId
            BY <1>1 DEF CallTyped
        <3>5. /\ active_id' = mbuf.new_active_id
              /\ position' = Len(disk[mbuf.new_active_id].frames)
              /\ last_entry_id' = last_valid
              /\ index' = IndexTruncateEnd(index, last_valid)
              /\ active_first_entry' = FirstOf(state', mbuf.new_active_id)
              /\ active_entry_count' = 0 /\ next_seg_id' = next_seg_id
            BY <2>10, Zenon DEF SyncTruncateEnd
        <3>6. active_first_entry' \in 0..MaxId
            BY <2>7, <3>2, <3>5, Zenon
        <3> QED
            BY <1>1, <2>2, <2>4, <3>1, <3>2, <3>3, <3>4, <3>5, <3>6 DEF MemoryTyped
    <2>11. CASE SyncDeleted \/ SyncMetadata
        BY <1>1, <2>2, <2>4, <2>11 DEF SyncDeleted, SyncMetadata, MemoryTyped, cursorVars
    <2> QED
        BY <1>5, <2>8, <2>9, <2>10, <2>11
<1>6. CASE AppendFrames
    <2>1. /\ buf \in Seq({f \in FrameType : f.ok}) /\ buf # <<>>
          /\ <<>> \o buf = buf /\ Len(buf) \in Nat
        BY <1>1, <1>6 DEF CallTyped, AppendFrames, AppendAfter
    <2>2. Last(buf).id \in 0..MaxId
        <3>1. Last(buf) \in FrameType
            BY <2>1 DEF Last
        <3> QED
            BY <3>1 DEF FrameType
    <2>3. /\ position' = position + Len(buf) /\ last_entry_id' = Last(buf).id
          /\ active_entry_count' = active_entry_count + Len(buf)
          /\ UNCHANGED <<state, index, active_id, active_first_entry, next_seg_id>>
          /\ pc' = "commit" /\ pc = "append"
        BY <1>6, <2>1 DEF AppendFrames, AppendAfter, CursorAfter, Goto
    <2>4. Opened' /\ Opened
        BY <2>3 DEF Opened
    <2> QED
        BY <1>1, <2>1, <2>2, <2>3, <2>4 DEF MemoryTyped
<1>7. CASE PowerLoss \/ Restart
    <2>1. ForgetMemory
        BY <1>7 DEF PowerLoss, Restart
    <2>2. <<>> \in Seq(SegmentIndex)
        OBVIOUS
    <2> QED
        BY <2>1, <2>2, EmptyEntries, BoundsAssumption
            DEF ForgetMemory, MemoryTyped, NoSeg, NoEntry
<1>8. CASE ~PowerLoss /\ ~Restart /\ (CreateManifest \/ WriteManifestMagic \/ FlushCreate
             \/ OpenWithIssues \/ Recover \/ FixUp \/ SyncFixOp \/ (FixedUp /\ pc' # "idle")
             \/ UNCHANGED vars \/ CreateNew \/ WriteMagic \/ Flush)
    BY <1>3, <1>8 DEF CreateManifest, WriteManifestMagic, FlushCreate, OpenWithIssues, Recover,
             Attempt, NotOpened, FixUp, SyncFixOp, FixedUp, Loaded, Goto, vars, CreateNew,
             WriteMagic, Flush, storeVars, cursorVars
<1>9. CASE ~PowerLoss /\ ~Restart /\ (CommitSync \/ CommitDrop \/ Write \/ TruncateStart
             \/ TruncateEnd \/ SyncTruncated \/ DeleteDeadSegments \/ RemoveFile
             \/ WriteMetadata \/ Corrupt)
    BY <1>3, <1>9 DEF CommitSync, CommitDrop, Write, TruncateStart, TruncateEnd, SyncTruncated,
             DeleteDeadSegments, RemoveFile, WriteMetadata, Corrupt, storeVars, cursorVars
<1> QED
    BY <1>4, <1>5, <1>6, <1>7, <1>8, <1>9 DEF Next, OpenSteps, CallSteps, Calls, Failures

-----------------------------------------------------------------------------
\* The batches a caller may write: frames that are ok, with ids that grow by
\* one from some id that the store has not seen and that is not before its head.
LEMMA BatchIs ==
    ASSUME StructureInv, Opened, last_entry_id \in Nat,
           NEW batch \in Batches, Last(batch).id <= MaxId
    PROVE  /\ batch \in Seq(OkFrameType) /\ batch # <<>> /\ Len(batch) \in Nat /\ Len(batch) >= 1
           /\ batch[1].id \in 1..MaxId
           /\ \A i \in 1..Len(batch) : batch[i] = Frame(batch[1].id + i - 1)
           /\ batch[1].id > last_entry_id /\ batch[1].id >= state.first_entry
           /\ MaxGap = 0 => batch[1].id \in {last_entry_id + 1, state.first_entry}
<1>1. state.first_entry \in Nat
    BY OpenFacts DEF WellFormed, StateShape
<1>2. /\ NextIds \in Nat /\ NextIds >= last_entry_id + 1 /\ NextIds >= state.first_entry
      /\ NextIds \in {last_entry_id + 1, state.first_entry}
    <2> DEFINE S == {last_entry_id + 1, state.first_entry}
    <2>1. CASE last_entry_id + 1 <= state.first_entry
        <3>1. Max(S) = state.first_entry
            BY <1>1, <2>1, MaxIs
        <3> QED
            BY <1>1, <2>1, <3>1 DEF NextIds
    <2>2. CASE ~(last_entry_id + 1 <= state.first_entry)
        <3>1. Max(S) = last_entry_id + 1
            BY <1>1, <2>2, MaxIs
        <3> QED
            BY <1>1, <2>2, <3>1 DEF NextIds
    <2> QED
        BY <2>1, <2>2
<1> DEFINE make(n, first) == [i \in 1..n |-> Frame(first + i - 1)]
<1>3. Batches = {make(n, first) : n \in 1..MaxBatch, first \in NextIds..(NextIds + MaxGap)}
    BY DEF Batches
<1>4. PICK n \in 1..MaxBatch, first \in NextIds..(NextIds + MaxGap) : batch = make(n, first)
    <2> HIDE DEF make
    <2> QED
        BY <1>3
<1>5. n \in Nat /\ n >= 1 /\ first \in Nat /\ first >= NextIds /\ MaxId \in Nat
    BY <1>2, BoundsAssumption
<1>6. Len(batch) = n /\ DOMAIN batch = 1..n /\ batch # <<>>
      /\ \A i \in 1..n : batch[i] = Frame(first + i - 1)
    BY <1>4, <1>5
<1>7. Last(batch) = Frame(first + n - 1) /\ batch[1] = Frame(first)
    BY <1>5, <1>6 DEF Last
<1>8. first + n - 1 <= MaxId /\ batch[1].id = first
    BY <1>7 DEF Frame
<1>9. \A i \in 1..n : Frame(first + i - 1) \in OkFrameType
    <2> SUFFICES ASSUME NEW i \in 1..n PROVE Frame(first + i - 1) \in OkFrameType
        OBVIOUS
    <2>1. first + i - 1 \in 1..MaxId
        BY <1>2, <1>5, <1>8
    <2> QED
        BY <2>1 DEF Frame, FrameType, OkFrameType
<1>10. batch \in Seq(OkFrameType)
    BY <1>4, <1>5, <1>9
<1>11. \A i \in 1..Len(batch) : batch[i] = Frame(batch[1].id + i - 1)
    BY <1>6, <1>8
<1>12. first > last_entry_id /\ first >= state.first_entry /\ first \in 1..MaxId
    BY <1>1, <1>2, <1>5, <1>8
<1>13. MaxGap = 0 => first = NextIds
    BY <1>2, <1>4
<1> QED
    BY <1>5, <1>6, <1>8, <1>10, <1>11, <1>12, <1>13, <1>2

\* The arguments of the call in progress and the fix-ups still to be made.
LEMMA NextCall ==
    ASSUME StructureInv, FileInv, [Next]_vars
    PROVE  CallTyped'
<1>1. CallTyped /\ MemoryTyped /\ DiskTyped
    BY DEF FileInv
<1>2. \A op : op = NoOp => op.type # "RollSegment"
    BY DEF NoOp
<1>3. ASSUME last_valid' = last_valid, buf' = buf, fix_ups' \subseteq fix_ups,
             mbuf'.type # "RollSegment" \/ mbuf' = mbuf,
             pc' = "append" => pc = "append"
      PROVE  CallTyped'
    BY <1>1, <1>3 DEF CallTyped
<1>4. CASE Write
    <2>1. PICK batch \in Batches :
            /\ Last(batch).id <= MaxId /\ buf' = batch
            /\ mbuf' = mbuf \/ mbuf' = RolloverOp(batch[1].id)
            /\ UNCHANGED <<last_valid, fix_ups>>
        BY <1>4 DEF Write
    <2>2. Opened /\ mbuf = NoOp
        BY <1>4 DEF Write, Opened, StructureInv, ControlOk, NoOpAt
    <2>3. last_entry_id \in Nat /\ last_entry_id <= MaxId /\ position \in Nat
          /\ active_entry_count \in Nat /\ active_first_entry \in Nat
          /\ active_first_entry <= MaxId
        BY <1>1, BoundsAssumption DEF MemoryTyped
    <2>4. batch \in Seq(OkFrameType) /\ batch # <<>> /\ batch[1].id \in 0..MaxId
        BY <2>1, <2>2, <2>3, BatchIs
    <2>5. mbuf'.type = "RollSegment" => mbuf' = RolloverOp(batch[1].id)
        BY <1>2, <2>1, <2>2
    <2> DEFINE op == RolloverOp(batch[1].id)
    <2>6. /\ op.seal \in SealInfo /\ op.seal.last_entry <= MaxId
          /\ op.new_first_entry = batch[1].id
        BY <2>3 DEF RolloverOp, RollSegmentOp, SealInfo
    <2> HIDE DEF op
    <2> QED
        BY <1>1, <2>1, <2>4, <2>5, <2>6 DEF CallTyped, OkFrameType, op
<1>5. CASE AppendFrames
    <2>1. /\ buf' = <<>> /\ pc = "append" /\ pc' = "commit" /\ mbuf' = mbuf
          /\ last_valid' = last_valid /\ fix_ups' = fix_ups
        BY <1>5 DEF AppendFrames, AppendAfter, Goto
    <2>2. mbuf = NoOp
        BY <2>1 DEF StructureInv, ControlOk, NoOpAt
    <2>3. <<>> \in Seq({f \in FrameType : f.ok})
        OBVIOUS
    <2> QED
        BY <1>1, <1>2, <2>1, <2>2, <2>3 DEF CallTyped
<1>6. CASE SyncRollover
    <2>1. /\ mbuf' = NoOp /\ mbuf.type = "RollSegment"
          /\ UNCHANGED <<buf, last_valid, fix_ups>>
        BY <1>6 DEF SyncRollover
    <2> QED
        BY <1>1, <1>2, <2>1 DEF CallTyped
<1>7. CASE TruncateEnd
    <2>1. /\ last_valid' \in 1..MaxId /\ pc' = "truncated"
          /\ mbuf'.type = "TruncateEnd" /\ UNCHANGED <<buf, fix_ups>>
        <3>1. \E last \in 1..MaxId : last_valid' = last /\ \E t, d : mbuf' = TruncateEndOp(t, d)
            BY <1>1, <1>7, TruncateEndCut
        <3>2. pc' = "truncated" /\ UNCHANGED <<buf, fix_ups>>
            BY <1>7 DEF TruncateEnd, Goto
        <3> QED
            BY <3>1, <3>2 DEF TruncateEndOp
    <2>2. last_valid' \in 0..MaxId
        BY <2>1, BoundsAssumption
    <2> QED
        BY <1>1, <2>1, <2>2 DEF CallTyped
<1>8. CASE SyncTruncateEnd
    <2>1. /\ last_valid' = NoEntry /\ mbuf' = NoOp /\ pc' = "idle" /\ UNCHANGED <<buf, fix_ups>>
        BY <1>8 DEF SyncTruncateEnd, Goto
    <2> QED
        BY <1>1, <1>2, <2>1, BoundsAssumption DEF CallTyped, NoEntry
<1>9. CASE OpenWithIssues \/ Recover
    <2>1. /\ pc = "closed" /\ pc' \in {"fix", "closed"}
          /\ fix_ups' = fix_ups \/ fix_ups' = scan(mdisk, disk)
          /\ UNCHANGED <<mbuf, buf, last_valid>>
        BY <1>9 DEF OpenWithIssues, Recover, Attempt, NotOpened, Goto
    <2>2. ManifestOk(mdisk) /\ disk \in [SegIds -> FileType]
        BY <1>1 DEF StructureInv, Manifests, DiskTyped
    <2>3. \A i \in scan(mdisk, disk) :
            i.issue \in {"ActiveSegmentTornTail", "SealedSegmentChecksumCorrupt",
                         "ActiveSegmentMissing"} => i.id \in SegIds /\ i.at \in Nat
        BY <2>2, ScanFiles DEF SegmentFixes
    <2> QED
        BY <1>1, <2>1, <2>3 DEF CallTyped
<1>10. CASE FixUp
    <2>1. /\ pc' \in {"fix", "fixsync", "create", "closed"} /\ fix_ups' \subseteq fix_ups
          /\ UNCHANGED <<buf, last_valid>>
          /\ mbuf' = mbuf \/ \E id : mbuf' \in {RecordOrphanOp(id), SegmentDeletedOp(id)}
        BY <1>10 DEF FixUp, TruncateManifest, TruncateSegment, AppendFixOp,
                     CreateActiveSegment, Goto
    <2>2. mbuf' = mbuf \/ mbuf'.type # "RollSegment"
        BY <2>1 DEF RecordOrphanOp, SegmentDeletedOp
    <2> QED
        BY <1>3, <2>1, <2>2
<1>11. CASE PowerLoss \/ Restart
    <2>1. ForgetMemory
        BY <1>11 DEF PowerLoss, Restart
    <2>2. <<>> \in Seq({f \in FrameType : f.ok})
        OBVIOUS
    <2> QED
        BY <1>2, <2>1, <2>2, BoundsAssumption DEF ForgetMemory, Goto, CallTyped, NoEntry
<1>12. CASE CreateManifest \/ WriteManifestMagic \/ FlushCreate \/ OpenClean \/ SyncFixOp
              \/ FixedUp \/ UNCHANGED vars
    BY <1>2, <1>3, <1>12 DEF CreateManifest, WriteManifestMagic, CreateSegmentOp, FlushCreate,
              OpenClean, Loaded, SyncFixOp, FixedUp, NotOpened, vars, callVars, Goto
<1>13. CASE CreateNew \/ WriteMagic \/ Flush \/ CommitSync \/ CommitDrop \/ SyncTruncateStart
              \/ SyncTruncated \/ SyncDeleted \/ SyncMetadata \/ Corrupt
    BY <1>2, <1>3, <1>13 DEF CreateNew, WriteMagic, Flush, CommitSync, CommitDrop,
              SyncTruncateStart, SyncTruncated, SyncDeleted, SyncMetadata, Corrupt,
              callVars, Goto
<1>14. CASE TruncateStart \/ DeleteDeadSegments \/ RemoveFile \/ WriteMetadata
    <2>1. /\ pc' \in {"flush", "delete"} /\ UNCHANGED <<buf, last_valid, fix_ups>>
          /\ \/ mbuf' = mbuf
             \/ \E u, v, w : \/ mbuf' = TruncateStartOp(u, v, w)
                             \/ mbuf' = SegmentDeletedOp(u)
                             \/ mbuf' = MetadataOp(u)
        BY <1>14 DEF TruncateStart, DeleteDeadSegments, RemoveFile, WriteMetadata, Goto
    <2>2. mbuf' = mbuf \/ mbuf'.type # "RollSegment"
        BY <2>1 DEF TruncateStartOp, SegmentDeletedOp, MetadataOp
    <2> QED
        BY <1>3, <2>1, <2>2
<1> QED
    BY <1>4, <1>5, <1>6, <1>7, <1>8, <1>9, <1>10, <1>11, <1>12, <1>13, <1>14
        DEF Next, OpenSteps, CallSteps, Calls, Failures

\* Only entries that a caller wrote are readable or known to be durable.
LEMMA NextHistory ==
    ASSUME StructureInv, FileInv, [Next]_vars
    PROVE  HistoryTyped'
<1>1. HistoryTyped /\ DiskTyped /\ MemoryTyped /\ CallTyped
    BY DEF FileInv
<1>2. ASSUME log' \subseteq log, acked' \subseteq acked \cup log PROVE HistoryTyped'
    BY <1>1, <1>2 DEF HistoryTyped
<1>3. \A f \in FrameType : f.ok => f.id \in 1..MaxId
    BY BoundsAssumption DEF FrameType
<1>4. CASE OpenClean \/ (FixedUp /\ pc' = "idle")
    <2>1. /\ Load /\ Known(mdisk.st) \subseteq SegIds
          /\ \A id \in Live(mdisk.st) : \A i \in DOMAIN disk[id].frames : disk[id].frames[i].ok
        BY <1>1, <1>4, LoadedFrom
    <2>2. log' = LogIds(mdisk.st, disk)
        BY <2>1, Zenon DEF Load
    <2>3. ASSUME NEW id \in Live(mdisk.st) PROVE Ids(disk[id].frames) \subseteq 1..MaxId
        <3>1. disk[id].frames \in Seq(FrameType)
            BY <1>1, <2>1 DEF DiskTyped, FileType, Known
        <3>2. \A i \in DOMAIN disk[id].frames : disk[id].frames[i] \in FrameType
            BY <3>1
        <3> QED
            BY <1>3, <2>1, <3>2 DEF Ids
    <2>4. log' \subseteq 1..MaxId
        BY <2>2, <2>3 DEF LogIds
    <2>5. acked' = acked
        BY <1>4 DEF OpenClean, FixedUp
    <2> QED
        BY <1>1, <2>4, <2>5 DEF HistoryTyped
<1>5. CASE AppendFrames
    <2>1. log' = log \cup Ids(buf) /\ acked' = acked /\ buf \in Seq({f \in FrameType : f.ok})
        BY <1>1, <1>5 DEF AppendFrames, AppendAfter, CallTyped
    <2>2. \A i \in DOMAIN buf : buf[i] \in FrameType /\ buf[i].ok
        BY <2>1
    <2> QED
        BY <1>1, <1>3, <2>1, <2>2 DEF HistoryTyped, Ids
<1>6. CASE TruncateEnd
    BY <1>2, <1>6 DEF TruncateEnd
<1>7. CASE CreateManifest \/ WriteManifestMagic \/ FlushCreate \/ OpenWithIssues \/ Recover
             \/ FixUp \/ SyncFixOp \/ (FixedUp /\ pc' # "idle") \/ UNCHANGED vars
    BY <1>2, <1>7 DEF CreateManifest, WriteManifestMagic, FlushCreate, OpenWithIssues, Recover,
             Attempt, NotOpened, FixUp, SyncFixOp, FixedUp, Loaded, Goto, vars
<1>8. CASE CreateNew \/ WriteMagic \/ Flush \/ SyncRollover \/ CommitSync \/ CommitDrop
             \/ SyncTruncateStart \/ SyncTruncated \/ SyncTruncateEnd \/ SyncDeleted
             \/ SyncMetadata
    BY <1>2, <1>8 DEF CreateNew, WriteMagic, Flush, SyncRollover, CommitSync, CommitDrop,
             SyncTruncateStart, SyncTruncated, SyncTruncateEnd, SyncDeleted, SyncMetadata
<1>9. CASE Write \/ TruncateStart \/ DeleteDeadSegments \/ RemoveFile \/ WriteMetadata
             \/ PowerLoss \/ Restart \/ Corrupt
    BY <1>2, <1>9 DEF Write, TruncateStart, DeleteDeadSegments, RemoveFile, WriteMetadata,
             PowerLoss, Restart, Corrupt
<1> QED
    BY <1>4, <1>5, <1>6, <1>7, <1>8, <1>9 DEF Next, OpenSteps, CallSteps, Calls, Failures

-----------------------------------------------------------------------------
\* Only a clean scan opens a store.
LEMMA NewlyOpen ==
    ASSUME StructureInv, [Next]_vars, ~Opened, Opened'
    PROVE  OpenClean \/ (FixedUp /\ pc' = "idle")
<1>1. /\ pc \in {"closed", "manifest_magic", "fix", "fixsync", "create", "magic", "flush"}
      /\ pc \in {"create", "magic", "flush"} => mbuf = NoOp \/ mbuf.type = "CreateSegment"
    BY DEF Opened, StructureInv, ControlOk, NoOpAt, OpAt
<1>2. \A op : op = NoOp => op.type = "None"
    BY DEF NoOp
<1>3. CASE CreateNew \/ WriteMagic \/ UNCHANGED vars
    BY <1>1, <1>3 DEF CreateNew, WriteMagic, vars, callVars, Goto, Opened
<1>4. CASE CreateManifest \/ WriteManifestMagic \/ FlushCreate \/ OpenWithIssues \/ Recover
             \/ SyncFixOp
    <2>1. \/ pc' \in {"closed", "manifest_magic", "fix"}
          \/ mbuf' = CreateSegmentOp(1, 0) /\ pc' = "create"
        BY <1>4 DEF CreateManifest, WriteManifestMagic, FlushCreate, OpenWithIssues,
             Recover, Attempt, NotOpened, SyncFixOp, Goto
    <2> QED
        BY <2>1 DEF CreateSegmentOp, Opened
<1>5. CASE FixUp
    <2>1. pc = "fix" /\ mbuf = NoOp
        BY <1>5 DEF FixUp, StructureInv, ControlOk, NoOpAt
    <2>2. pc' \in {"fix", "fixsync", "closed"} \/ (pc' = "create" /\ mbuf' = mbuf)
        BY <1>5 DEF FixUp, TruncateManifest, TruncateSegment, AppendFixOp,
                    CreateActiveSegment, Goto
    <2> QED
        BY <2>1, <2>2 DEF Opened
<1>6. CASE FixedUp
    BY <1>6 DEF FixedUp, NotOpened, Loaded, Goto, Opened
<1>7. CASE PowerLoss \/ Restart \/ Corrupt
    BY <1>7 DEF PowerLoss, Restart, Corrupt, ForgetMemory, Goto, Opened
<1>8. CASE Flush \/ SyncRollover \/ AppendFrames \/ CommitSync \/ SyncTruncateStart
             \/ SyncTruncated \/ SyncTruncateEnd \/ RemoveFile \/ SyncDeleted \/ SyncMetadata
    <2>1. CASE Flush
        BY <1>1, <2>1, InFlightType DEF Flush
    <2> QED
        BY <1>1, <1>8, <2>1 DEF SyncRollover, AppendFrames, AppendAfter, CommitSync,
             SyncTruncateStart, SyncTruncated, SyncTruncateEnd, RemoveFile, SyncDeleted,
             SyncMetadata
<1>9. CASE Calls
    BY <1>1, <1>9 DEF Calls, Write, CommitDrop, TruncateStart, TruncateEnd,
             DeleteDeadSegments, WriteMetadata
<1> QED
    BY <1>3, <1>4, <1>5, <1>6, <1>7, <1>8, <1>9 DEF Next, OpenSteps, CallSteps, Failures

\* The files that a running store changes: the one a rollover makes, the
\* active one, a live one that truncate_end cuts, a dead one that it removes.
LEMMA CallWrites ==
    ASSUME StructureInv, FileInv, [Next]_vars, Opened, Opened'
    PROVE  \/ UNCHANGED <<disk, surv>>
           \/ /\ CreateNew /\ mbuf.type = "RollSegment" /\ disk'[next_seg_id] = NoMagicFile
              /\ \A x \in SegIds : x # next_seg_id => disk'[x] = disk[x]
           \/ /\ WriteMagic /\ mbuf.type = "RollSegment"
              /\ disk'[next_seg_id] = SegmentFile(<<>>, FALSE)
              /\ \A x \in SegIds : x # next_seg_id => disk'[x] = disk[x]
           \/ /\ AppendFrames
              /\ disk'[active_id] = SegmentFile(disk[active_id].frames \o buf, FALSE)
              /\ \A x \in SegIds : x # active_id => disk'[x] = disk[x]
           \/ /\ CommitSync \/ SyncTruncated
              /\ disk' = disk
           \/ /\ TruncateEnd
              /\ \E id \in Live(state) : \A x \in SegIds : x # id => disk'[x] = disk[x]
           \/ /\ RemoveFile
              /\ \E id \in state.dead : /\ disk'[id] = AbsentFile
                                        /\ \A x \in SegIds : x # id => disk'[x] = disk[x]
<1>1. DiskTyped /\ MemoryTyped /\ CallTyped
    BY DEF FileInv
<1>2. \A id \in SegIds : disk[id] \in FileType /\ surv[id] \subseteq FileType
    BY <1>1 DEF DiskTyped
<1>3. \A op : op = NoOp => op.type = "None"
    BY DEF NoOp
<1>4. \A id \in SegIds : SyncSegment(id) => disk' = disk
    BY <1>1 DEF SyncSegment, SetSegment, DiskTyped
<1>5. ASSUME pc \in {"create", "magic"}
      PROVE  mbuf.type = "RollSegment" /\ creating = next_seg_id /\ creating \in SegIds
    BY <1>3, <1>5 DEF FileInv, NewFileOk, Opened
<1>6. CASE CreateNew
    <2>1. /\ creating \in SegIds /\ creating = next_seg_id /\ mbuf.type = "RollSegment"
          /\ SetSegment(creating, NoMagicFile, surv[creating] \cup {NoMagicFile})
        BY <1>5, <1>6 DEF CreateNew
    <2>2. surv[creating] \cup {NoMagicFile} \subseteq FileType
        BY <1>2, <2>1, NewFilesType
    <2>3. /\ disk'[creating] = NoMagicFile
          /\ \A x \in SegIds : x # creating => disk'[x] = disk[x]
        BY <1>1, <2>1, <2>2, NewFilesType, SetSegmentIs
    <2> QED
        BY <1>6, <2>1, <2>3
<1>7. CASE WriteMagic
    <2> DEFINE file == SegmentFile(<<>>, FALSE)
    <2>1. /\ creating \in SegIds /\ creating = next_seg_id /\ mbuf.type = "RollSegment"
          /\ SetSegment(creating, file, Synced(file, surv[creating]))
        BY <1>5, <1>7 DEF WriteMagic
    <2>2. file \in FileType /\ Synced(file, surv[creating]) \subseteq FileType
        BY <1>2, <2>1, NewFilesType, SyncedType
    <2> HIDE DEF file
    <2>3. disk'[creating] = file /\ \A x \in SegIds : x # creating => disk'[x] = disk[x]
        BY <1>1, <2>1, <2>2, SetSegmentIs
    <2> QED
        BY <1>7, <2>1, <2>3 DEF file
<1>8. CASE AppendFrames
    <2> DEFINE file == SegmentFile(WriteAt(disk[active_id].frames, position, <<>> \o buf), FALSE)
               outcomes == AppendOutcomes(disk[active_id], position, <<>> \o buf)
    <2>1. active_id \in SegIds
        BY OpenFacts
    <2>2. buf \in Seq(FrameType) /\ <<>> \o buf = buf /\ position \in Nat
        BY <1>1 DEF CallTyped, MemoryTyped
    <2>3. file \in FileType /\ outcomes \subseteq FileType
        BY <1>2, <2>1, <2>2, AppendOutcomesType
    <2>4. position = Len(disk[active_id].frames)
        <3>1. mbuf = NoOp
            BY <1>8 DEF AppendFrames, AppendAfter, StructureInv, ControlOk, NoOpAt
        <3> QED
            BY <1>3, <3>1 DEF FileInv, CursorOk
    <2>5. disk[active_id].frames \in Seq(FrameType)
        BY <1>2, <2>1 DEF FileType
    <2>6. file = SegmentFile(disk[active_id].frames \o buf, FALSE)
        BY <2>2, <2>4, <2>5, WriteAtType
    <2>7. SetSegment(active_id, file, surv[active_id] \cup outcomes)
        BY <1>8 DEF AppendFrames, AppendAfter
    <2> HIDE DEF file, outcomes
    <2>8. disk'[active_id] = file /\ \A x \in SegIds : x # active_id => disk'[x] = disk[x]
        BY <1>1, <1>2, <2>1, <2>3, <2>7, SetSegmentIs
    <2> QED
        BY <1>8, <2>6, <2>8
<1>9. CASE CommitSync
    BY <1>4, <1>9, OpenFacts DEF CommitSync
<1>10. CASE SyncTruncated
    <2>1. mbuf.type = "TruncateEnd" /\ OpValid(state, mbuf, next_seg_id, to_delete)
        BY <1>10 DEF SyncTruncated, StructureInv, ControlOk, OpAt
    <2>2. mbuf.new_active_id \in Live(state)
        BY <2>1 DEF OpValid, TruncateEndOp, Live
    <2>3. mbuf.new_active_id \in SegIds
        BY <2>2, OpenFacts
    <2> QED
        BY <1>4, <1>10, <2>3 DEF SyncTruncated
<1>11. CASE TruncateEnd
    <2>1. PICK last \in 1..MaxId, p \in DOMAIN state.segments, n \in Nat :
            LET target == state.segments[p].id
                file == SegmentFile(SetLen(disk[target].frames, n), FALSE)
            IN  /\ target \in SegIds /\ target \in Live(state)
                /\ file \in FileType
                /\ SetSegment(target, file, surv[target] \cup {file})
        BY <1>1, <1>11, TruncateEndCut
    <2> DEFINE target == state.segments[p].id
               file == SegmentFile(SetLen(disk[target].frames, n), FALSE)
    <2>2. /\ target \in SegIds /\ target \in Live(state) /\ file \in FileType
          /\ SetSegment(target, file, surv[target] \cup {file})
        BY <2>1
    <2> HIDE DEF target, file
    <2>3. surv[target] \cup {file} \subseteq FileType
        BY <1>2, <2>2
    <2>4. \A x \in SegIds : x # target => disk'[x] = disk[x]
        BY <1>1, <2>2, <2>3, SetSegmentIs
    <2> QED
        BY <1>11, <2>2, <2>4
<1>12. CASE RemoveFile
    <2>1. PICK id \in to_delete : SetSegment(id, AbsentFile, surv[id] \cup {AbsentFile})
        BY <1>12 DEF RemoveFile
    <2>2. id \in state.dead /\ id \in SegIds
        BY OpenFacts DEF Known
    <2>3. surv[id] \cup {AbsentFile} \subseteq FileType
        BY <1>2, <2>2, NewFilesType
    <2>4. disk'[id] = AbsentFile /\ \A x \in SegIds : x # id => disk'[x] = disk[x]
        BY <1>1, <2>1, <2>2, <2>3, NewFilesType, SetSegmentIs
    <2> QED
        BY <1>12, <2>2, <2>4
<1>13. CASE PowerLoss \/ Restart
    BY <1>13 DEF PowerLoss, Restart, ForgetMemory, Goto, Opened
<1>14. CASE OpenSteps \/ Corrupt
    BY <1>14 DEF OpenSteps, CreateManifest, WriteManifestMagic, FlushCreate, OpenClean,
             OpenWithIssues, Recover, Attempt, FixUp, SyncFixOp, FixedUp, Corrupt, Opened
<1>15. CASE Flush \/ CommitDrop \/ Write \/ TruncateStart \/ DeleteDeadSegments
              \/ WriteMetadata \/ UNCHANGED vars
    BY <1>15 DEF Flush, CommitDrop, Write, TruncateStart, DeleteDeadSegments, WriteMetadata,
              vars, diskVars, segmentVars
<1>16. CASE SyncRollover \/ SyncTruncateStart \/ SyncTruncateEnd \/ SyncDeleted \/ SyncMetadata
    BY <1>16 DEF SyncRollover, SyncTruncateStart, SyncTruncateEnd, SyncDeleted, SyncMetadata,
              segmentVars
<1> QED
    BY <1>6, <1>7, <1>8, <1>9, <1>10, <1>11, <1>12, <1>13, <1>14, <1>15, <1>16
        DEF Next, CallSteps, Calls, Failures

-----------------------------------------------------------------------------
\* The cursor follows the end of the active segment's file.
LEMMA NextCursor ==
    ASSUME StructureInv, FileInv, [Next]_vars
    PROVE  CursorOk'
<1>1. DiskTyped /\ MemoryTyped /\ CallTyped /\ CursorOk
    BY DEF FileInv
<1>2. SUFFICES ASSUME Opened', mbuf'.type # "TruncateEnd"
               PROVE  position' = Len(disk'[active_id'].frames)
    BY DEF CursorOk
<1>3. CASE ~Opened
    <2>1. OpenClean \/ (FixedUp /\ pc' = "idle")
        BY <1>2, <1>3, NewlyOpen
    <2>2. Load /\ disk' = disk
        BY <1>1, <2>1, LoadedFrom
    <2> QED
        BY <2>2, Zenon DEF Load
<1>4. CASE Opened
    <2>1. active_id \in Live(state) /\ active_id \in SegIds /\ active_id # next_seg_id
          /\ active_id \notin state.dead
        BY <1>4, OpenFacts DEF WellFormed, DeadNotLive
    <2>2. \A op : op = NoOp => op.type = "None"
        BY DEF NoOp
    <2>3. CASE SyncRollover
        <3>1. /\ position' = 0 /\ active_id' = mbuf.new_id /\ disk' = disk
              /\ pc = "sync" /\ mbuf.type = "RollSegment"
            BY <2>3 DEF SyncRollover, segmentVars
        <3>2. mbuf.new_id = next_seg_id
            BY <1>4, <3>1, InFlight
        <3>3. disk[next_seg_id].frames = <<>>
            BY <3>1 DEF FileInv, NewFileOk
        <3> QED
            BY <3>1, <3>2, <3>3
    <2>4. CASE SyncTruncateEnd
        BY <2>4 DEF SyncTruncateEnd, segmentVars
    <2>5. CASE AppendFrames
        <3>1. disk'[active_id] = SegmentFile(disk[active_id].frames \o buf, FALSE)
            <4>1. /\ pc = "append"
                  /\ SetSegment(active_id,
                        SegmentFile(WriteAt(disk[active_id].frames, position, <<>> \o buf), FALSE),
                        surv[active_id] \cup AppendOutcomes(disk[active_id], position, <<>> \o buf))
                BY <2>5 DEF AppendFrames, AppendAfter
            <4>2. mbuf = NoOp
                BY <4>1 DEF StructureInv, ControlOk, NoOpAt
            <4>3. position = Len(disk[active_id].frames) /\ position \in Nat
                BY <1>1, <1>4, <2>2, <4>2 DEF CursorOk, FileInv, MemoryTyped
            <4>4. buf \in Seq(FrameType) /\ <<>> \o buf = buf
                  /\ disk[active_id].frames \in Seq(FrameType)
                BY <1>1, <2>1 DEF CallTyped, DiskTyped, FileType
            <4>5. WriteAt(disk[active_id].frames, position, <<>> \o buf)
                    = disk[active_id].frames \o buf
                BY <4>3, <4>4, WriteAtType
            <4> QED
                BY <1>1, <2>1, <4>1, <4>5 DEF SetSegment, DiskTyped
        <3>2. /\ position' = position + Len(<<>> \o buf) /\ active_id' = active_id
              /\ pc = "append"
            BY <2>5 DEF AppendFrames, AppendAfter, CursorAfter
        <3>3. mbuf = NoOp
            BY <3>2 DEF StructureInv, ControlOk, NoOpAt
        <3>4. position = Len(disk[active_id].frames)
            BY <1>1, <1>4, <2>2, <3>3 DEF CursorOk
        <3>5. buf \in Seq(FrameType) /\ <<>> \o buf = buf
              /\ disk[active_id].frames \in Seq(FrameType)
            BY <1>1, <2>1 DEF CallTyped, DiskTyped, FileType
        <3>6. Len(disk[active_id].frames \o buf) = Len(disk[active_id].frames) + Len(buf)
            BY <3>5, ConcatProperties
        <3> QED
            BY <3>1, <3>2, <3>4, <3>5, <3>6 DEF SegmentFile
    <2>6. CASE ~SyncRollover /\ ~SyncTruncateEnd /\ ~AppendFrames
        <3>1. UNCHANGED <<active_id, position>>
            <4>1. CASE OpenSteps \/ Failures
                BY <1>2, <1>4, <4>1 DEF OpenSteps, CreateManifest, WriteManifestMagic, FlushCreate,
                    OpenClean, OpenWithIssues, Recover, Attempt, FixUp, SyncFixOp, FixedUp,
                    Failures, PowerLoss, Restart, Corrupt, ForgetMemory, Goto, Opened
            <4>2. CASE CallSteps \/ Calls \/ UNCHANGED vars
                BY <2>6, <4>2 DEF CallSteps, CreateNew, WriteMagic, Flush, CommitSync,
                    SyncTruncateStart, SyncTruncated, RemoveFile, SyncDeleted, SyncMetadata,
                    Calls, Write, CommitDrop, TruncateStart, TruncateEnd, DeleteDeadSegments,
                    WriteMetadata, vars, storeVars, cursorVars
            <4> QED
                BY <4>1, <4>2 DEF Next
        <3>2. mbuf.type # "TruncateEnd"
            <4> SUFFICES ASSUME mbuf.type = "TruncateEnd" PROVE FALSE
                OBVIOUS
            <4>1. mbuf # NoOp /\ pc \notin NoOpAt
                BY <2>2 DEF StructureInv, ControlOk
            <4>2. pc \in {"truncated", "flush", "sync"}
                BY <1>4, <2>2, <4>1 DEF StructureInv, ControlOk, NoOpAt, OpAt, FileInv,
                                        NewFileOk, Opened
            <4>3. mbuf' = mbuf \/ ~Opened'
                BY <2>6, <4>2 DEF Next, OpenSteps, CreateManifest, WriteManifestMagic,
                    FlushCreate, OpenClean, OpenWithIssues, Recover, Attempt, FixUp, SyncFixOp,
                    FixedUp, Failures, PowerLoss, Restart, Corrupt, ForgetMemory, Goto, Opened,
                    CallSteps, CreateNew, WriteMagic, Flush, AppendFrames, AppendAfter,
                    CommitSync, SyncRollover, SyncTruncateStart, SyncTruncated, RemoveFile,
                    SyncDeleted, SyncMetadata, Calls, Write, CommitDrop, TruncateStart,
                    TruncateEnd, DeleteDeadSegments, WriteMetadata, vars, callVars
            <4> QED
                BY <1>2, <4>3
        <3>3. position = Len(disk[active_id].frames)
            BY <1>1, <1>4, <3>2 DEF CursorOk
        <3>4. disk'[active_id] = disk[active_id]
            <4>1. ~TruncateEnd
                <5>1. TruncateEnd => \E t, d : mbuf' = TruncateEndOp(t, d)
                    BY DEF TruncateEnd
                <5> QED
                    BY <1>2, <5>1 DEF TruncateEndOp
            <4> QED
                BY <1>2, <1>4, <2>1, <2>6, <4>1, CallWrites
        <3> QED
            BY <3>1, <3>3, <3>4
    <2> QED
        BY <2>3, <2>4, <2>5, <2>6
<1> QED
    BY <1>3, <1>4

-----------------------------------------------------------------------------
\* No file has the number of a segment to come, also after a reopen: a clean
\* scan leaves no file that the manifest does not know.
LEMMA NextNewFile ==
    ASSUME StructureInv, FileInv, [Next]_vars
    PROVE  NewFileOk'
<1>1. DiskTyped /\ MemoryTyped /\ CallTyped /\ NewFileOk /\ EmptyDirectoryOk
    BY DEF FileInv
<1>2. \A op : op = NoOp => op.type = "None"
    BY DEF NoOp
<1>3. ASSUME Opened', NEW id \in SegIds, id >= next_seg_id', disk'[id].kind # "absent"
      PROVE  /\ id = next_seg_id'
             /\ mbuf'.type = "RollSegment" /\ pc' \in {"magic", "flush", "sync"}
    <2>1. id \in Nat /\ next_seg_id \in Nat
        BY <1>1, MaxSegAssumption DEF SegIds, MemoryTyped
    <2>2. CASE ~Opened
        <3>1. OpenClean \/ (FixedUp /\ pc' = "idle")
            BY <1>3, <2>2, NewlyOpen
        <3>2. /\ Load /\ disk' = disk /\ WellFormed(mdisk.st) /\ Known(mdisk.st) \subseteq SegIds
              /\ \A x \in SegIds : disk[x].kind # "absent" => x \in Known(mdisk.st)
            BY <1>1, <3>1, LoadedFrom
        <3>3. next_seg_id' = ScannedNextSegId(mdisk.st)
            BY <3>2, Zenon DEF Load
        <3>4. id < next_seg_id' /\ next_seg_id' \in Nat
            BY <1>3, <3>2, <3>3, NextSegIdFences
        <3> QED
            BY <1>3, <2>1, <3>4
    <2>3. CASE Opened /\ SyncRollover
        <3>1. /\ next_seg_id' = mbuf.new_id + 1 /\ disk' = disk /\ pc = "sync"
              /\ mbuf.type = "RollSegment"
            BY <2>3 DEF SyncRollover, segmentVars
        <3>2. mbuf.new_id = next_seg_id
            BY <2>3, <3>1, InFlight
        <3>3. id >= next_seg_id + 1
            BY <1>3, <3>1, <3>2
        <3>4. id # next_seg_id /\ id >= next_seg_id
            BY <2>1, <3>3
        <3> QED
            BY <1>1, <1>3, <2>3, <3>1, <3>4 DEF NewFileOk
    <2>4. CASE Opened /\ ~SyncRollover
        <3>1. next_seg_id' = next_seg_id
            <4>1. CASE OpenSteps \/ Failures
                BY <1>3, <2>4, <4>1 DEF OpenSteps, CreateManifest, WriteManifestMagic,
                    FlushCreate, OpenClean, OpenWithIssues, Recover, Attempt, FixUp, SyncFixOp,
                    FixedUp, Failures, PowerLoss, Restart, Corrupt, ForgetMemory, Goto, Opened
            <4>2. CASE CallSteps \/ Calls \/ UNCHANGED vars
                BY <2>4, <4>2 DEF CallSteps, CreateNew, WriteMagic, Flush, AppendFrames,
                    AppendAfter, CommitSync, SyncTruncateStart, SyncTruncated, SyncTruncateEnd,
                    RemoveFile, SyncDeleted, SyncMetadata, Calls, Write, CommitDrop,
                    TruncateStart, TruncateEnd, DeleteDeadSegments, WriteMetadata, vars,
                    storeVars, cursorVars
            <4> QED
                BY <4>1, <4>2 DEF Next
        <3>2. id >= next_seg_id /\ id \notin Known(state)
            <4>1. \A x \in Known(state) : x < next_seg_id
                BY <2>4, OpenFacts
            <4> QED
                BY <1>3, <2>1, <3>1, <4>1
        <3>3. AbsentFile.kind = "absent"
            BY DEF AbsentFile
        <3>4. active_id \in Known(state)
            BY <2>4, OpenFacts DEF Known
        <3>5. \/ disk'[id] = disk[id]
              \/ (CreateNew \/ WriteMagic) /\ mbuf.type = "RollSegment" /\ id = next_seg_id
            BY <1>3, <2>4, <3>2, <3>3, <3>4, CallWrites DEF Known
        <3>6. CASE (CreateNew \/ WriteMagic) /\ mbuf.type = "RollSegment" /\ id = next_seg_id
            BY <1>2, <3>1, <3>6 DEF CreateNew, WriteMagic, callVars, Goto
        <3>7. CASE disk'[id] = disk[id]
            <4>1. /\ id = next_seg_id /\ mbuf.type = "RollSegment"
                  /\ pc \in {"magic", "flush", "sync"}
                BY <1>1, <1>3, <2>4, <3>2, <3>7 DEF NewFileOk
            <4>2. CASE WriteMagic \/ Flush \/ UNCHANGED vars
                BY <1>2, <3>1, <4>1, <4>2 DEF WriteMagic, Flush, vars, callVars, Goto
            <4>3. CASE PowerLoss \/ Restart
                BY <1>3, <4>3 DEF PowerLoss, Restart, ForgetMemory, Goto, Opened
            <4>4. CASE ~(WriteMagic \/ Flush \/ UNCHANGED vars \/ PowerLoss \/ Restart)
                <5>1. CASE OpenSteps \/ Failures
                    BY <4>1, <4>4, <5>1 DEF OpenSteps, CreateManifest, WriteManifestMagic,
                        FlushCreate, OpenClean, OpenWithIssues, Recover, Attempt, FixUp,
                        SyncFixOp, FixedUp, Failures, Corrupt
                <5>2. CASE CallSteps \/ Calls
                    BY <2>4, <4>1, <4>4, <5>2 DEF CallSteps, CreateNew, AppendFrames, AppendAfter,
                        CommitSync, SyncTruncateStart, SyncTruncated, SyncTruncateEnd,
                        RemoveFile, SyncDeleted, SyncMetadata, Calls, Write, CommitDrop,
                        TruncateStart, TruncateEnd, DeleteDeadSegments, WriteMetadata
                <5> QED
                    BY <4>4, <5>1, <5>2 DEF Next
            <4> QED
                BY <4>2, <4>3, <4>4
        <3> QED
            BY <3>5, <3>6, <3>7
    <2> QED
        BY <2>2, <2>3, <2>4
<1>4. /\ pc' \in {"create", "magic"} =>
            /\ creating' \in SegIds
            /\ mbuf' = NoOp \/ mbuf'.type \in {"CreateSegment", "RollSegment"}
      /\ pc' = "create" => disk'[creating'].kind = "absent"
      /\ (pc' \in {"create", "magic"} /\ mbuf'.type = "RollSegment") => creating' = next_seg_id'
    <2>1. CASE Write
        <3>1. \/ pc' = "append"
              \/ /\ creating' = next_seg_id /\ next_seg_id \in SegIds
                 /\ \E f : mbuf' = RolloverOp(f)
            BY <2>1 DEF Write, Goto
        <3>2. disk' = disk /\ next_seg_id' = next_seg_id /\ pc = "idle" /\ Opened
            BY <2>1 DEF Write, diskVars, storeVars, Opened
        <3>3. next_seg_id \in SegIds => disk[next_seg_id].kind = "absent"
            BY <1>1, <3>2 DEF NewFileOk, MemoryTyped
        <3> QED
            BY <3>1, <3>2, <3>3 DEF RolloverOp, RollSegmentOp
    <2>2. CASE WriteManifestMagic
        <3>1. creating' = 1 /\ mbuf' = CreateSegmentOp(1, 0) /\ disk' = disk
              /\ pc = "manifest_magic"
            BY <2>2 DEF WriteManifestMagic, segmentVars
        <3>2. 1 \in SegIds
            BY MaxSegAssumption DEF SegIds
        <3>3. disk[1].kind = "absent"
            BY <1>1, <3>1, <3>2 DEF EmptyDirectoryOk, AbsentFile
        <3> QED
            BY <3>1, <3>2, <3>3 DEF CreateSegmentOp
    <2>3. CASE CreateNew
        BY <1>1, <2>3 DEF CreateNew, callVars, storeVars, Goto, NewFileOk
    <2>4. CASE FixUp
        <3>1. pc = "fix" /\ mbuf = NoOp
            BY <2>4 DEF FixUp, StructureInv, ControlOk, NoOpAt
        <3>2. PICK fix \in fix_ups : \/ TruncateManifest(fix) \/ TruncateSegment(fix)
                                     \/ AppendFixOp(fix) \/ CreateActiveSegment(fix)
            BY <2>4 DEF FixUp, NextFixUps
        <3>3. CASE CreateActiveSegment(fix)
            <4>1. fix.id \in SegIds
                BY <1>1, <3>3 DEF CallTyped, CreateActiveSegment
            <4> QED
                BY <1>2, <3>1, <3>3, <4>1 DEF CreateActiveSegment, diskVars, Goto
        <3>4. CASE TruncateManifest(fix) \/ TruncateSegment(fix) \/ AppendFixOp(fix)
            BY <3>4 DEF TruncateManifest, TruncateSegment, AppendFixOp, Goto
        <3> QED
            BY <3>2, <3>3, <3>4
    <2>5. CASE UNCHANGED vars
        BY <1>1, <2>5 DEF vars, diskVars, callVars, storeVars, NewFileOk
    <2>6. CASE ~(Write \/ WriteManifestMagic \/ CreateNew \/ FixUp \/ UNCHANGED vars)
        <3>1. pc' \notin {"create", "magic"}
            <4>1. CASE OpenSteps \/ Failures
                BY <2>6, <4>1 DEF OpenSteps, CreateManifest, FlushCreate, OpenClean, Loaded,
                    OpenWithIssues, Recover, Attempt, NotOpened, SyncFixOp, FixedUp, Failures,
                    PowerLoss, Restart, Corrupt, ForgetMemory, Goto
            <4>2. CASE CallSteps \/ Calls
                BY <2>6, <4>2 DEF CallSteps, WriteMagic, Flush, SyncRollover, AppendFrames,
                    AppendAfter, CommitSync, SyncTruncateStart, SyncTruncated, SyncTruncateEnd,
                    RemoveFile, SyncDeleted, SyncMetadata, Calls, CommitDrop, TruncateStart,
                    TruncateEnd, DeleteDeadSegments, WriteMetadata, Goto
            <4> QED
                BY <2>6, <4>1, <4>2 DEF Next
        <3> QED
            BY <3>1
    <2> QED
        BY <2>1, <2>2, <2>3, <2>4, <2>5, <2>6
<1>5. ASSUME pc' \in {"flush", "sync"}, mbuf'.type = "RollSegment"
      PROVE  disk'[next_seg_id'].frames = <<>>
    <2>1. CASE WriteMagic
        <3>1. /\ pc = "magic" /\ mbuf' = mbuf /\ next_seg_id' = next_seg_id
              /\ SetSegment(creating, SegmentFile(<<>>, FALSE),
                            Synced(SegmentFile(<<>>, FALSE), surv[creating]))
            BY <2>1 DEF WriteMagic, storeVars
        <3>2. creating = next_seg_id /\ creating \in SegIds
            BY <1>1, <1>5, <3>1 DEF NewFileOk
        <3>3. disk'[creating] = SegmentFile(<<>>, FALSE)
            BY <1>1, <3>1, <3>2 DEF SetSegment, DiskTyped
        <3> QED
            BY <3>1, <3>2, <3>3 DEF SegmentFile
    <2>2. CASE Flush \/ UNCHANGED vars
        BY <1>1, <1>5, <2>2 DEF Flush, vars, diskVars, segmentVars, callVars, storeVars, NewFileOk
    <2>3. CASE SyncTruncated
        <3>1. pc = "truncated" /\ mbuf' = mbuf
            BY <2>3 DEF SyncTruncated, callVars
        <3> QED
            BY <1>5, <3>1 DEF StructureInv, ControlOk
    <2>4. CASE ~(WriteMagic \/ Flush \/ UNCHANGED vars \/ SyncTruncated)
        <3>1. CASE OpenSteps \/ Failures
            BY <1>5, <2>4, <3>1 DEF OpenSteps, CreateManifest, WriteManifestMagic, FlushCreate,
                OpenClean, Loaded, OpenWithIssues, Recover, Attempt, NotOpened, FixUp,
                TruncateManifest, TruncateSegment, AppendFixOp, CreateActiveSegment, SyncFixOp,
                FixedUp, Failures, PowerLoss, Restart, Corrupt, ForgetMemory, Goto
        <3>2. CASE CallSteps \/ Calls
            <4>1. \/ pc' \notin {"flush", "sync"}
                  \/ \E u, v, w : \/ mbuf' = TruncateStartOp(u, v, w)
                                  \/ mbuf' = SegmentDeletedOp(u)
                                  \/ mbuf' = MetadataOp(u)
                BY <2>4, <3>2 DEF CallSteps, CreateNew, SyncRollover, AppendFrames, AppendAfter,
                    CommitSync, SyncTruncateStart, SyncTruncateEnd, RemoveFile,
                    SyncDeleted, SyncMetadata, Calls, Write, CommitDrop, TruncateStart,
                    TruncateEnd, DeleteDeadSegments, WriteMetadata, Goto
            <4> QED
                BY <1>5, <4>1 DEF TruncateStartOp, SegmentDeletedOp, MetadataOp
        <3> QED
            BY <2>4, <3>1, <3>2 DEF Next
    <2> QED
        BY <2>1, <2>2, <2>3, <2>4
<1> QED
    BY <1>3, <1>4, <1>5 DEF NewFileOk

-----------------------------------------------------------------------------
\* A manifest without readable magic stops every attempt to open the store.
LEMMA UnreadableStops ==
    ASSUME NEW m, m.kind = "unreadable", NEW files, NEW approve
    PROVE  /\ scan(m, files) # {}
           /\ create_fix_up(m.st, scan(m, files), approve) # "proceed"
<1> DEFINE blocker == Issue("ManifestNotReadable", 0, 0)
<1>1. scan(m, files) = {blocker}
    BY DEF scan
<1>2. blocker.issue \notin AutoFixed \cup NeedsApproval
    BY DEF Issue, AutoFixed, NeedsApproval
<1> HIDE DEF blocker
<1>3. {i \in scan(m, files) : /\ i.issue \notin AutoFixed
                              /\ ~(approve /\ i.issue \in NeedsApproval)} # {}
    BY <1>1, <1>2
<1> QED
    BY <1>1, <1>3 DEF create_fix_up

\* Segment files exist only beside a manifest that no failure takes away.
LEMMA NextEmptyDirectory ==
    ASSUME StructureInv, FileInv, [Next]_vars
    PROVE  EmptyDirectoryOk'
<1> DEFINE Bare == \A id \in SegIds : disk[id] = AbsentFile /\ surv[id] = {AbsentFile}
           Early == NoManifest \/ pc = "manifest_magic"
<1>1. EmptyDirectoryOk /\ DiskTyped
    BY DEF FileInv
<1>2. /\ Early => Bare /\ pc \in {"closed", "manifest_magic"}
      /\ NoManifest => mdisk.kind \in {"absent", "unreadable"}
    BY <1>1 DEF EmptyDirectoryOk
<1>3. mdisk \in Manifests
    BY DEF Manifests
<1>4. SUFFICES /\ NoManifest' => mdisk'.kind \in {"absent", "unreadable"}
               /\ (NoManifest' \/ pc' = "manifest_magic") =>
                    Bare' /\ pc' \in {"closed", "manifest_magic"}
    BY DEF EmptyDirectoryOk
<1>5. CASE CreateManifest
    <2>1. /\ mdisk.kind = "absent" /\ pc' = "manifest_magic" /\ mdisk' = UnreadableManifest
          /\ UNCHANGED <<disk, surv>>
        BY <1>5 DEF CreateManifest, Goto, segmentVars
    <2>2. Early /\ UnreadableManifest.kind = "unreadable"
        BY <1>3, <2>1 DEF NoManifest, UnreadableManifest
    <2> QED
        BY <1>2, <2>1, <2>2
<1>6. CASE WriteManifestMagic
    <2>1. Manifests' = {ManifestFile(EmptyState, "clean")} /\ pc' = "create"
        BY <1>6 DEF WriteManifestMagic, Manifests, Goto
    <2> QED
        BY <2>1 DEF NoManifest, ManifestFile
<1>7. CASE PowerLoss
    <2>1. PICK m \in Manifests : mdisk' = m /\ Manifests' = {m}
        BY <1>7 DEF PowerLoss, Manifests
    <2>2. /\ pc' = "closed" /\ (\A id \in SegIds : disk'[id] \in surv[id])
          /\ surv' = [id \in SegIds |-> {disk'[id]}]
        BY <1>7 DEF PowerLoss, ForgetMemory, Goto
    <2>3. NoManifest' => m.kind = "absent" /\ NoManifest
        BY <2>1 DEF NoManifest
    <2>4. Bare => Bare'
        BY <2>2
    <2> HIDE DEF Bare
    <2> QED
        BY <1>2, <2>1, <2>2, <2>3, <2>4
<1>8. CASE Restart \/ UNCHANGED vars
    <2>1. /\ UNCHANGED <<mdisk, msurv, disk, surv>>
          /\ pc' = pc \/ pc' = "closed"
        BY <1>8 DEF Restart, ForgetMemory, Goto, vars, diskVars
    <2> QED
        BY <1>2, <2>1 DEF NoManifest, Manifests
<1>9. CASE Corrupt
    <2>1. PICK id \in SegIds : DOMAIN disk[id].frames # {}
        BY <1>9 DEF Corrupt
    <2>2. ~Bare
        BY <2>1 DEF AbsentFile
    <2>3. UNCHANGED <<mdisk, msurv, pc>>
        BY <1>9 DEF Corrupt, manifestVars
    <2> HIDE DEF Bare
    <2> QED
        BY <1>2, <2>2, <2>3 DEF NoManifest, Manifests
<1>10. CASE OpenClean \/ OpenWithIssues \/ Recover
    <2>1. UNCHANGED <<mdisk, msurv, disk, surv>> /\ pc = "closed" /\ mdisk.kind # "absent"
        BY <1>10 DEF OpenClean, OpenWithIssues, Recover, Attempt, diskVars
    <2>2. NoManifest' <=> NoManifest
        BY <2>1 DEF NoManifest, Manifests
    <2>3. ASSUME NoManifest PROVE pc' = "closed"
        <3>1. mdisk.kind = "unreadable"
            BY <1>2, <2>1, <2>3
        <3>2. /\ scan(mdisk, disk) # {}
              /\ \A approve : create_fix_up(mdisk.st, scan(mdisk, disk), approve) # "proceed"
            BY <3>1, UnreadableStops
        <3> QED
            BY <1>10, <3>2 DEF OpenClean, OpenWithIssues, Recover, Attempt, NotOpened, Goto
    <2>4. pc' # "manifest_magic"
        BY <1>10 DEF OpenClean, Loaded, OpenWithIssues, Recover, Attempt, NotOpened, Goto
    <2> QED
        BY <1>2, <2>1, <2>2, <2>3, <2>4
<1>11. CASE pc \notin {"closed", "manifest_magic"} /\ ~(PowerLoss \/ Restart \/ UNCHANGED vars)
    <2>1. ~NoManifest
        BY <1>2, <1>11
    <2>2. pc' # "manifest_magic"
        <3>1. CASE OpenSteps \/ Failures
            BY <1>11, <3>1 DEF OpenSteps, CreateManifest, WriteManifestMagic, FlushCreate,
                OpenClean, OpenWithIssues, Recover, Attempt, NotOpened, FixUp, TruncateManifest,
                TruncateSegment, AppendFixOp, CreateActiveSegment, SyncFixOp, FixedUp, Loaded,
                Failures, Corrupt, Goto
        <3>2. CASE CallSteps \/ Calls
            BY <3>2 DEF CallSteps, CreateNew, WriteMagic, Flush, SyncRollover, AppendFrames,
                AppendAfter, CommitSync, SyncTruncateStart, SyncTruncated, SyncTruncateEnd,
                RemoveFile, SyncDeleted, SyncMetadata, Calls, Write, CommitDrop, TruncateStart,
                TruncateEnd, DeleteDeadSegments, WriteMetadata, Goto
        <3> QED
            BY <1>11, <3>1, <3>2 DEF Next
    <2>3. \A m \in Manifests' : m \in Manifests \/ m.kind = "ok"
        <3>1. \A op : AppendManifest(op) => \A m \in Manifests' : m \in Manifests \/ m.kind = "ok"
            BY DEF AppendManifest, Manifests, ManifestFile
        <3>2. CASE FixUp
            <4>1. PICK fix \in fix_ups : \/ TruncateManifest(fix) \/ TruncateSegment(fix)
                                         \/ AppendFixOp(fix) \/ CreateActiveSegment(fix)
                BY <3>2 DEF FixUp, NextFixUps
            <4>2. CASE TruncateManifest(fix)
                BY <4>2 DEF TruncateManifest, Manifests, ManifestFile
            <4>3. CASE AppendFixOp(fix)
                BY <3>1, <4>3 DEF AppendFixOp
            <4>4. CASE TruncateSegment(fix) \/ CreateActiveSegment(fix)
                BY <4>4 DEF TruncateSegment, CreateActiveSegment, Manifests, manifestVars, diskVars
            <4> QED
                BY <4>1, <4>2, <4>3, <4>4
        <3>3. CASE Flush \/ FlushCreate
            BY <3>1, <3>3 DEF Flush, FlushCreate
        <3>4. CASE SyncRollover \/ SyncTruncateStart \/ SyncTruncateEnd \/ SyncDeleted
                     \/ SyncMetadata \/ SyncFixOp
            BY <3>4 DEF SyncRollover, SyncTruncateStart, SyncTruncateEnd, SyncDeleted,
                        SyncMetadata, SyncFixOp, SyncManifest, Manifests
        <3>5. CASE FixedUp \/ CreateNew \/ WriteMagic \/ AppendFrames \/ CommitSync \/ CommitDrop
                     \/ Write \/ TruncateStart \/ TruncateEnd \/ SyncTruncated
                     \/ DeleteDeadSegments \/ RemoveFile \/ WriteMetadata
            BY <3>5 DEF FixedUp, CreateNew, WriteMagic, AppendFrames, AppendAfter, CommitSync,
                        CommitDrop, Write, TruncateStart, TruncateEnd, SyncTruncated,
                        DeleteDeadSegments, RemoveFile, WriteMetadata, diskVars, manifestVars,
                        Manifests
        <3>6. ~(CreateManifest \/ WriteManifestMagic \/ OpenClean \/ OpenWithIssues \/ Recover
                \/ Corrupt)
            BY <1>11 DEF CreateManifest, WriteManifestMagic, OpenClean, OpenWithIssues, Recover,
                         Attempt, Corrupt
        <3> QED
            BY <1>11, <3>2, <3>3, <3>4, <3>5, <3>6
                DEF Next, OpenSteps, CallSteps, Calls, Failures
    <2> QED
        BY <2>1, <2>2, <2>3 DEF NoManifest
<1>12. CASE pc \in {"closed", "manifest_magic"} /\ ~(PowerLoss \/ Restart \/ UNCHANGED vars)
    <2>1. CreateManifest \/ WriteManifestMagic \/ OpenClean \/ OpenWithIssues \/ Recover
            \/ Corrupt
        BY <1>12 DEF Next, OpenSteps, FlushCreate, FixUp, SyncFixOp, FixedUp, Failures,
             CallSteps, CreateNew, WriteMagic, Flush, SyncRollover, AppendFrames, AppendAfter,
             CommitSync, SyncTruncateStart, SyncTruncated, SyncTruncateEnd, RemoveFile,
             SyncDeleted, SyncMetadata, Calls, Write, CommitDrop, TruncateStart, TruncateEnd,
             DeleteDeadSegments, WriteMetadata
    <2> QED
        BY <1>5, <1>6, <1>9, <1>10, <2>1
<1> QED
    BY <1>7, <1>8, <1>11, <1>12

-----------------------------------------------------------------------------
\* A new directory, and a store that was created and synced.
LEMMA InitFiles == Init => FileInv
<1> SUFFICES ASSUME Init PROVE FileInv
    OBVIOUS
<1>1. /\ Manifests = {InitialManifest} /\ mdisk = InitialManifest
      /\ disk = [id \in SegIds |-> InitialSegment(id)]
      /\ surv = [id \in SegIds |-> {InitialSegment(id)}]
      /\ pc = "closed" /\ mbuf = NoOp /\ ~Opened
    BY DEF Init, Manifests, Opened
<1>2. EntriesOk(FormattedState)
    <2>1. CreateSegmentOp(1, 0).type \in OpTypesOf /\ OpEntriesOk(CreateSegmentOp(1, 0))
        BY BoundsAssumption DEF CreateSegmentOp, OpTypesOf, OpEntriesOk
    <2> QED
        BY <2>1, EmptyEntries, ApplyEntries DEF FormattedState
<1>3. ManifestsTyped
    <2>1. InitialManifest.tail = "clean" /\ EntriesOk(InitialManifest.st)
        BY <1>2, EmptyEntries DEF InitialManifest, ManifestFile, AbsentManifest
    <2> QED
        BY <1>1, <2>1 DEF ManifestsTyped
<1>4. DiskTyped
    <2>1. \A id : InitialSegment(id) \in FileType
        BY NewFilesType DEF InitialSegment
    <2> QED
        BY <1>1, <2>1 DEF DiskTyped
<1>5. MemoryTyped
    <2>1. <<>> \in Seq(SegmentIndex)
        OBVIOUS
    <2> QED
        BY <2>1, EmptyEntries, BoundsAssumption DEF Init, MemoryTyped, NoSeg, NoEntry
<1>6. CallTyped
    <2>1. <<>> \in Seq({f \in FrameType : f.ok})
        OBVIOUS
    <2> QED
        BY <1>1, <2>1, BoundsAssumption DEF Init, CallTyped, NoEntry, NoOp
<1>7. HistoryTyped /\ CursorOk /\ NewFileOk
    BY <1>1 DEF Init, HistoryTyped, CursorOk, NewFileOk
<1>8. EmptyDirectoryOk
    <2>1. CASE Formatted
        <3>1. InitialManifest.kind = "ok"
            BY <2>1 DEF InitialManifest, ManifestFile
        <3> QED
            BY <1>1, <3>1 DEF EmptyDirectoryOk, NoManifest
    <2>2. CASE ~Formatted
        <3>1. InitialManifest.kind = "absent" /\ \A id : InitialSegment(id) = AbsentFile
            BY <2>2 DEF InitialManifest, AbsentManifest, InitialSegment
        <3> QED
            BY <1>1, <3>1 DEF EmptyDirectoryOk
    <2> QED
        BY <2>1, <2>2
<1> QED
    BY <1>3, <1>4, <1>5, <1>6, <1>7, <1>8 DEF FileInv

LEMMA NextFiles == StructureInv /\ FileInv /\ [Next]_vars => FileInv'
<1> SUFFICES ASSUME StructureInv, FileInv, [Next]_vars PROVE FileInv'
    OBVIOUS
<1> QED
    BY NextManifests, NextDisk, NextMemory, NextCall, NextHistory, NextCursor, NextNewFile,
       NextEmptyDirectory DEF FileInv

-----------------------------------------------------------------------------
(***************************************************************************)
(* The theorems.  As those about the manifest they hold for any number of  *)
(* segments and entries, any mix of calls, and power losses, kills and bit *)
(* rot in any number and at any point.                                     *)
(***************************************************************************)
\* Manifest, files, memory and the call in progress always fit together:
\* every part of FileInv holds, whatever fails.
THEOREM FileTheorem == Spec => [](StructureInv /\ FileInv)
<1> QED
    BY InitStructure, NextStructure, InitFiles, NextFiles, PTL DEF Spec

\* Every variable of the store keeps its type, in the files too: ids are ones
\* the caller wrote or 0 in a hole, and no entry with id 0 is ever served.
THEOREM TypeTheorem == Spec => []TypeOK
<1>1. StructureInv /\ FileInv => TypeOK
    <2> SUFFICES ASSUME StructureInv, FileInv PROVE TypeOK
        OBVIOUS
    <2>1. ManifestsTyped /\ DiskTyped /\ MemoryTyped /\ HistoryTyped
        BY DEF FileInv
    <2>2. StateShape(EmptyState)
        BY DEF StateShape, EmptyState
    <2>3. ASSUME NEW st, StateShape(st), EntriesOk(st) PROVE StateType(st)
        <3>1. Range(st.segments) \subseteq SegmentEntry
            BY <2>3, BoundsAssumption DEF Range, EntriesOk, SegmentEntry
        <3>2. Range(st.seals) \subseteq SealInfo
            BY <2>3 DEF Range, EntriesOk
        <3> QED
            BY <2>3, <3>1, <3>2 DEF StateType
    <2>4. ASSUME NEW m \in Manifests
          PROVE  /\ m.kind \in {"ok", "absent", "unreadable"}
                 /\ m.tail \in {"clean"} \cup TornKinds
                 /\ StateType(m.st)
        <3>1. ManifestOk(m)
            BY DEF StructureInv
        <3>2. StateShape(m.st)
            BY <2>2, <3>1 DEF ManifestOk, WellFormed
        <3> QED
            BY <2>1, <2>3, <3>1, <3>2 DEF ManifestOk, ManifestsTyped
    <2>5. ASSUME NEW id \in SegIds, NEW f \in surv[id] \cup {disk[id]}
          PROVE  /\ f.kind \in {"ok", "absent", "nomagic"} /\ f.torn \in BOOLEAN
                 /\ \A i \in DOMAIN f.frames : f.frames[i].id \in 0..MaxId
        <3>1. f \in FileType
            BY <2>1 DEF DiskTyped
        <3>2. \A i \in DOMAIN f.frames : f.frames[i] \in FrameType
            BY <3>1 DEF FileType
        <3> QED
            BY <3>1, <3>2 DEF FileType, FrameType
    <2>6. StateType(state)
        <3>1. StateShape(state)
            BY <2>1, <2>2, OpenFacts DEF MemoryTyped, WellFormed
        <3> QED
            BY <2>1, <2>3, <3>1 DEF MemoryTyped
    <2> QED
        BY <2>1, <2>4, <2>5, <2>6 DEF TypeOK, MemoryTyped, HistoryTyped
<1> QED
    BY <1>1, FileTheorem, PTL

\* create_new in a rollover, in the creation of a store and in a recovery
\* never fails on a file that exists.
THEOREM RolloverTheorem == Spec => []RolloverFileIsNew
<1>1. FileInv => RolloverFileIsNew
    BY DEF FileInv, NewFileOk, RolloverFileIsNew
<1> QED
    BY <1>1, FileTheorem, PTL

\* A write starts exactly at the end of the active segment's file, after any
\* sequence of writes, rollovers, truncations, failures and recoveries.
THEOREM CursorTheorem == Spec => []CursorAtEnd
<1>1. StructureInv /\ FileInv => CursorAtEnd
    <2> SUFFICES ASSUME StructureInv, FileInv, Opened, pc \notin {"truncated", "sync", "flush"}
                 PROVE  position = Len(disk[active_id].frames)
        BY DEF CursorAtEnd
    <2>1. mbuf.type # "TruncateEnd"
        BY DEF StructureInv, ControlOk, NoOpAt, OpAt, NoOp, Opened, FileInv, NewFileOk
    <2> QED
        BY <2>1 DEF FileInv, CursorOk
<1> QED
    BY <1>1, FileTheorem, PTL

-----------------------------------------------------------------------------
(***************************************************************************)
(* Bit rot.  The hypothesis is needed: a truncate_end that finds its entry *)
(* through a checkpoint behind the start of the segment adds zeros to it.  *)
(***************************************************************************)
\* Of the operations only a rollover adds a live segment.
LEMMA LiveAfter ==
    ASSUME NEW st, NEW next, NEW queue, NEW op, OpValid(st, op, next, queue)
    PROVE  /\ op.type # "RollSegment" => Live(Apply(st, op)) \subseteq Live(st)
           /\ op.type = "RollSegment" => Live(Apply(st, op)) \subseteq Live(st) \cup {next}
<1> DEFINE s == Apply(st, op)
<1>1. s.segments = ApplyStructure(st, op).segments
    BY DEF Apply, WithMeta
<1>2. CASE op.type = "RollSegment"
    <2>1. op.new_id = next
        BY <1>2 DEF OpValid, RollSegmentOp, TruncateStartOp, TruncateEndOp, SegmentDeletedOp,
                    MetadataOp
    <2>2. \E n : s.segments =
            Insert(st.segments, n, [id |-> next, first_entry |-> op.new_first_entry])
        BY <1>1, <1>2, <2>1, Zenon DEF ApplyStructure, roll_segment, Push
    <2> HIDE DEF s
    <2>3. Live(s) \subseteq Live(st) \cup {next}
        BY <2>2 DEF Live, Insert
    <2> QED
        BY <1>2, <2>3 DEF s
<1>3. CASE op.type \in {"TruncateStart", "TruncateEnd"}
    <2>1. s.segments = Retain(st.segments, op.drop)
        BY <1>1, <1>3 DEF ApplyStructure, truncate_start, truncate_end, kill_segments
    <2> HIDE DEF s
    <2>2. Live(s) \subseteq Live(st)
        BY <2>1 DEF Live, Retain, Without
    <2> QED
        BY <1>3, <2>2 DEF s
<1>4. CASE op.type \in {"SegmentDeleted", "Metadata"}
    <2>1. s.segments = st.segments
        BY <1>1, <1>4 DEF ApplyStructure, segment_deleted, WithDead
    <2> HIDE DEF s
    <2>2. Live(s) = Live(st)
        BY <2>1 DEF Live
    <2> QED
        BY <1>4, <2>2 DEF s
<1> QED
    BY <1>2, <1>3, <1>4 DEF OpValid

\* A store opens only on whole files, adds only whole frames, and takes in
\* only an empty file.
LEMMA NextLiveFrames ==
    ASSUME StructureInv, FileInv, LiveFramesOk, "truncate_end" \notin Ops, [Next]_vars
    PROVE  LiveFramesOk'
<1>1. DiskTyped /\ CallTyped
    BY DEF FileInv
<1> SUFFICES ASSUME Opened', NEW id \in Live(state')
             PROVE  \A i \in DOMAIN disk'[id].frames : disk'[id].frames[i].ok
    BY DEF LiveFramesOk
<1>2. CASE ~Opened
    <2>1. OpenClean \/ (FixedUp /\ pc' = "idle")
        BY <1>2, NewlyOpen
    <2>2. /\ Load /\ disk' = disk
          /\ \A x \in Live(mdisk.st) : \A i \in DOMAIN disk[x].frames : disk[x].frames[i].ok
        BY <1>1, <2>1, LoadedFrom
    <2>3. state' = mdisk.st
        BY <2>2 DEF Load
    <2> QED
        BY <2>2, <2>3
<1>3. CASE Opened
    <2> DEFINE Whole(files, x) == \A i \in DOMAIN files[x].frames : files[x].frames[i].ok
    <2>1. \A x \in Live(state) : Whole(disk, x)
        BY <1>3 DEF LiveFramesOk
    <2>2. /\ Live(state) \subseteq SegIds /\ active_id \in SegIds /\ active_id \in Live(state)
          /\ Known(state) \subseteq SegIds
          /\ next_seg_id \notin Live(state) /\ \A x \in state.dead : x \notin Live(state)
        BY <1>3, OpenFacts DEF Known, WellFormed, DeadNotLive
    <2>3. CASE SyncRollover \/ SyncTruncateStart \/ SyncTruncateEnd \/ SyncDeleted \/ SyncMetadata
        <3>1. pc = "sync" /\ state' = Apply(state, mbuf) /\ disk' = disk
            BY <2>3 DEF SyncRollover, SyncTruncateStart, SyncTruncateEnd, SyncDeleted,
                        SyncMetadata, segmentVars
        <3>2. OpValid(state, mbuf, next_seg_id, to_delete)
            BY <1>3, <3>1 DEF StructureInv, ControlOk, OpAt
        <3>3. CASE id \in Live(state)
            BY <2>1, <3>1, <3>3
        <3>4. CASE id \notin Live(state)
            <4>1. mbuf.type = "RollSegment" /\ id = next_seg_id
                BY <3>1, <3>2, <3>4, LiveAfter
            <4>2. disk[next_seg_id].frames = <<>>
                BY <3>1, <4>1 DEF FileInv, NewFileOk
            <4> QED
                BY <3>1, <4>1, <4>2
        <3> QED
            BY <3>3, <3>4
    <2>4. CASE ~(SyncRollover \/ SyncTruncateStart \/ SyncTruncateEnd \/ SyncDeleted
                   \/ SyncMetadata)
        <3>1. state' = state
            <4>1. CASE OpenSteps \/ Failures
                BY <1>3, <4>1 DEF OpenSteps, CreateManifest, WriteManifestMagic, FlushCreate,
                    OpenClean, OpenWithIssues, Recover, Attempt, FixUp, SyncFixOp, FixedUp,
                    Failures, PowerLoss, Restart, Corrupt, ForgetMemory, Goto, Opened
            <4>2. CASE CallSteps \/ Calls \/ UNCHANGED vars
                BY <2>4, <4>2 DEF CallSteps, CreateNew, WriteMagic, Flush, AppendFrames,
                    AppendAfter, CommitSync, SyncTruncated, RemoveFile, Calls, Write,
                    CommitDrop, TruncateStart, TruncateEnd, DeleteDeadSegments,
                    WriteMetadata, vars, storeVars
            <4> QED
                BY <4>1, <4>2 DEF Next
        <3>2. ~TruncateEnd
            BY DEF TruncateEnd
        <3>3. id \in Live(state) /\ id \in SegIds /\ Whole(disk, id)
            BY <2>1, <2>2, <3>1
        <3>4. CASE disk'[id] = disk[id]
            BY <3>3, <3>4
        <3>5. CASE AppendFrames /\ id = active_id /\ disk'[id] # disk[id]
            <4>1. disk'[id].frames = disk[id].frames \o buf
                <5>1. disk'[active_id] = SegmentFile(disk[active_id].frames \o buf, FALSE)
                    BY <1>3, <3>2, <3>5, CallWrites
                       DEF AppendFrames, AppendAfter, CreateNew, WriteMagic, CommitSync,
                           SyncTruncated, RemoveFile
                <5> QED
                    BY <3>5, <5>1 DEF SegmentFile
            <4>2. disk[id].frames \in Seq(FrameType)
                BY <1>1, <3>3 DEF DiskTyped, FileType
            <4>3. buf \in Seq({f \in FrameType : f.ok})
                BY <1>1 DEF CallTyped
            <4>4. /\ \A i \in DOMAIN disk[id].frames : disk[id].frames[i].ok
                  /\ \A i \in DOMAIN buf : buf[i].ok
                BY <3>3, <4>3
            <4> QED
                BY <4>1, <4>2, <4>3, <4>4
        <3> QED
            BY <1>3, <2>2, <3>2, <3>3, <3>4, <3>5, CallWrites
    <2> QED
        BY <2>3, <2>4
<1> QED
    BY <1>2, <1>3

\* A frame whose checksum does not match is never in an open store, wherever
\* bits rotted and whatever a power loss tore: the scan of Store::open finds
\* it, and a recovery cuts it off or refuses.
THEOREM CorruptTheorem ==
    ASSUME "truncate_end" \notin Ops PROVE Spec => []NoCorruptFrameServed
<1>1. Init => LiveFramesOk
    BY DEF Init, LiveFramesOk, Opened
<1>2. StructureInv /\ FileInv /\ LiveFramesOk /\ [Next]_vars => LiveFramesOk'
    BY NextLiveFrames
<1>3. LiveFramesOk => NoCorruptFrameServed
    BY DEF LiveFramesOk, NoCorruptFrameServed, Opened
<1> QED
    BY <1>1, <1>2, <1>3, FileTheorem, PTL DEF Spec
=============================================================================
