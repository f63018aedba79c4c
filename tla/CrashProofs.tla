---------------------------- MODULE CrashProofs ----------------------------
(***************************************************************************)
(* What survives a power loss, for every caller that syncs its commits and *)
(* rolls nothing back (SyncingCaller), and all bounds: CrashInv is an      *)
(* invariant, and with it SealsMatchFiles, OpensUnattended, AckedReadable, *)
(* SegmentsHoldLog and LastEntryIsLast.                                    *)
(***************************************************************************)
EXTENDS CrashInv, FileProofs

(***************************************************************************)
(* Frames in the order of their ids.                                       *)
(***************************************************************************)
\* The last frame has the largest id.
LEMMA AscendingLast ==
    ASSUME NEW F \in Seq(FrameType), F # <<>>, Ascending(F)
    PROVE  Last(F).id \in Ids(F) /\ \A x \in Ids(F) : x <= Last(F).id
<1>1. Len(F) \in Nat /\ Len(F) >= 1 /\ DOMAIN F = 1..Len(F)
    BY EmptySeq
<1>2. Last(F) = F[Len(F)] /\ Len(F) \in DOMAIN F
    BY <1>1 DEF Last
<1>3. \A i \in DOMAIN F : F[i].id \in 0..MaxId
    BY DEF FrameType
<1>4. ASSUME NEW i \in DOMAIN F PROVE F[i].id <= F[Len(F)].id
    <2>1. CASE i = Len(F)
        BY <1>2, <1>3, <2>1, BoundsAssumption
    <2>2. CASE i < Len(F)
        <3>1. F[i].id < F[Len(F)].id
            BY <1>2, <2>2 DEF Ascending
        <3> QED
            BY <1>2, <1>3, <3>1, BoundsAssumption
    <2> QED
        BY <1>1, <2>1, <2>2
<1> QED
    BY <1>2, <1>4 DEF Ids

\* Frames that go on in order, appended to frames in order.
LEMMA AscendingConcat ==
    ASSUME NEW F \in Seq(FrameType), NEW G \in Seq(FrameType),
           Ascending(F), Ascending(G),
           \A i \in DOMAIN F, j \in DOMAIN G : F[i].id < G[j].id
    PROVE  Ascending(F \o G)
<1>1. Len(F) \in Nat /\ Len(G) \in Nat /\ DOMAIN F = 1..Len(F) /\ DOMAIN G = 1..Len(G)
    OBVIOUS
<1>2. /\ DOMAIN (F \o G) = 1..(Len(F) + Len(G))
      /\ \A i \in 1..(Len(F) + Len(G)) :
            (F \o G)[i] = IF i <= Len(F) THEN F[i] ELSE G[i - Len(F)]
    BY ConcatProperties
<1> SUFFICES ASSUME NEW i \in 1..(Len(F) + Len(G)), NEW j \in 1..(Len(F) + Len(G)), i < j
             PROVE  (F \o G)[i].id < (F \o G)[j].id
    BY <1>2 DEF Ascending
<1>3. CASE j <= Len(F)
    <2>1. i \in DOMAIN F /\ j \in DOMAIN F
        BY <1>1, <1>3
    <2> QED
        BY <1>1, <1>2, <1>3, <2>1 DEF Ascending
<1>4. CASE i <= Len(F) /\ j > Len(F)
    <2>1. i \in DOMAIN F /\ j - Len(F) \in DOMAIN G
        BY <1>1, <1>4
    <2> QED
        BY <1>1, <1>2, <1>4, <2>1
<1>5. CASE i > Len(F)
    <2>1. /\ i - Len(F) \in DOMAIN G /\ j - Len(F) \in DOMAIN G
          /\ i - Len(F) < j - Len(F)
        BY <1>1, <1>5
    <2> QED
        BY <1>1, <1>2, <1>5, <2>1 DEF Ascending
<1> QED
    BY <1>1, <1>3, <1>4, <1>5

\* The entries of two files, one after the other.
LEMMA IdsConcat ==
    ASSUME NEW F \in Seq(FrameType), NEW G \in Seq(FrameType)
    PROVE  /\ Ids(F \o G) = Ids(F) \cup Ids(G)
           /\ (\A i \in DOMAIN F : F[i].ok) /\ (\A i \in DOMAIN G : G[i].ok) =>
                \A i \in DOMAIN (F \o G) : (F \o G)[i].ok
<1>1. Len(F) \in Nat /\ Len(G) \in Nat /\ DOMAIN F = 1..Len(F) /\ DOMAIN G = 1..Len(G)
    OBVIOUS
<1>2. /\ DOMAIN (F \o G) = 1..(Len(F) + Len(G))
      /\ \A i \in 1..(Len(F) + Len(G)) :
            (F \o G)[i] = IF i <= Len(F) THEN F[i] ELSE G[i - Len(F)]
    BY ConcatProperties
<1>3. ASSUME NEW i \in DOMAIN (F \o G)
      PROVE  \/ i \in DOMAIN F /\ (F \o G)[i] = F[i]
             \/ i - Len(F) \in DOMAIN G /\ (F \o G)[i] = G[i - Len(F)]
    BY <1>1, <1>2
<1>4. ASSUME NEW i \in DOMAIN F PROVE i \in DOMAIN (F \o G) /\ (F \o G)[i] = F[i]
    BY <1>1, <1>2
<1>5. ASSUME NEW j \in DOMAIN G
      PROVE  Len(F) + j \in DOMAIN (F \o G) /\ (F \o G)[Len(F) + j] = G[j]
    <2>1. Len(F) + j \in 1..(Len(F) + Len(G)) /\ ~(Len(F) + j <= Len(F)) /\ Len(F) + j - Len(F) = j
        BY <1>1
    <2> QED
        BY <1>2, <2>1
<1>6. Ids(F \o G) \subseteq Ids(F) \cup Ids(G)
    BY <1>3 DEF Ids
<1>7. Ids(F) \subseteq Ids(F \o G)
    BY <1>4 DEF Ids
<1>8. Ids(G) \subseteq Ids(F \o G)
    BY <1>5 DEF Ids
<1>9. (\A i \in DOMAIN F : F[i].ok) /\ (\A i \in DOMAIN G : G[i].ok) =>
        \A i \in DOMAIN (F \o G) : (F \o G)[i].ok
    BY <1>3
<1> QED
    BY <1>6, <1>7, <1>8, <1>9

\* A first part of frames in order.
LEMMA PrefixAscending ==
    ASSUME NEW G \in Seq(FrameType), Ascending(G), NEW n \in 0..Len(G)
    PROVE  LET P == SubSeq(G, 1, n)
           IN  /\ P \in Seq(FrameType) /\ Ascending(P)
               /\ \A i \in DOMAIN P : i \in DOMAIN G /\ P[i] = G[i]
<1>1. Len(G) \in Nat /\ DOMAIN G = 1..Len(G)
    OBVIOUS
<1> DEFINE P == SubSeq(G, 1, n)
<1>2. P = [i \in 1..n |-> G[i]]
    BY <1>1
<1>3. P \in Seq(FrameType) /\ DOMAIN P = 1..n /\ \A i \in 1..n : i \in DOMAIN G /\ P[i] = G[i]
    <2>1. \A i \in 1..n : G[i] \in FrameType
        BY <1>1
    <2> HIDE DEF P
    <2> QED
        BY <1>1, <1>2, <2>1
<1> HIDE DEF P
<1>4. Ascending(P)
    BY <1>3 DEF Ascending
<1> QED
    BY <1>3, <1>4 DEF P

\* A batch is in order.
LEMMA BatchAscending ==
    ASSUME NEW b \in Seq(FrameType), NEW first \in Nat,
           \A i \in 1..Len(b) : b[i] = Frame(first + i - 1)
    PROVE  Ascending(b)
<1>1. DOMAIN b = 1..Len(b) /\ Len(b) \in Nat
    OBVIOUS
<1>2. \A x : Frame(x).id = x
    BY DEF Frame
<1>3. \A i \in 1..Len(b) : b[i].id = first + i - 1
    BY <1>2
<1> QED
    BY <1>1, <1>3 DEF Ascending

-----------------------------------------------------------------------------
(***************************************************************************)
(* A state of the manifest and the outcomes of the files.                  *)
(***************************************************************************)
\* The segments that a well-formed state names are live.
LEMMA LiveFacts ==
    ASSUME NEW st, WellFormed(st)
    PROVE  /\ st.active_segment_id \in Live(st) /\ st.active_segment_id \notin DOMAIN st.seals
           /\ DOMAIN st.seals \subseteq Live(st)
           /\ \A p \in DOMAIN st.segments : st.segments[p].id \in Live(st)
           /\ \A id \in Live(st) : id # st.active_segment_id => id \in DOMAIN st.seals
           /\ \A p, q \in DOMAIN st.segments :
                p < q => st.segments[p].id # st.active_segment_id
<1>1. PICK a \in DOMAIN st.segments :
        st.segments[a].id = st.active_segment_id /\ \A q \in DOMAIN st.segments : q <= a
    BY DEF WellFormed, ActiveIsLast
<1>2. \A p \in DOMAIN st.segments : st.segments[p].id \in Live(st)
    BY DEF Live
<1>3. DOMAIN st.seals = Live(st) \ {st.active_segment_id}
    BY DEF WellFormed, SealedIsRest
<1>4. ASSUME NEW p \in DOMAIN st.segments, NEW q \in DOMAIN st.segments, p < q
      PROVE  st.segments[p].id # st.active_segment_id
    <2>1. st.segments[p].id = st.active_segment_id => p = a
        BY <1>1 DEF WellFormed, IdsUnique
    <2>2. q <= a /\ p \in Nat /\ q \in Nat
        BY <1>1 DEF WellFormed, StateShape
    <2> QED
        BY <1>4, <2>1, <2>2
<1> QED
    BY <1>1, <1>2, <1>3, <1>4

\* A file with the frames of `f' that is whole where `f' is.
Stands(g, f) ==
    /\ g.frames = f.frames
    /\ f.kind = "ok" => g.kind = "ok"
    /\ f.torn = FALSE => g.torn = FALSE

\* Outcomes of the live segments that stand for earlier ones.
LEMMA DurableKept ==
    ASSUME NEW st, WellFormed(st), NEW out, NEW out2, NEW ack, NEW ack2,
           Durable(st, out, ack), ack2 \subseteq ack,
           \A id \in Live(st) : \A g \in out2[id] : \E f \in out[id] : Stands(g, f),
           \A id \in Live(st) : \A f \in out[id] : f.torn \in BOOLEAN
    PROVE  Durable(st, out2, ack2)
<1>1. FilesPresent(st, out2)
    <2>1. ASSUME NEW id \in DOMAIN st.seals, NEW g \in out2[id]
          PROVE  MatchesSeal(g, st.seals[id])
        <3>1. PICK f \in out[id] : Stands(g, f)
            BY LiveFacts
        <3>2. MatchesSeal(f, st.seals[id]) /\ f.torn \in BOOLEAN
            BY LiveFacts DEF Durable, FilesPresent
        <3> QED
            BY <3>1, <3>2 DEF Stands, MatchesSeal
    <2>2. ASSUME NEW g \in out2[st.active_segment_id] PROVE g.kind = "ok"
        BY LiveFacts DEF Durable, FilesPresent, Stands
    <2> QED
        BY <2>1, <2>2 DEF FilesPresent
<1>2. SegmentsAscend(st, out2)
    <2> SUFFICES ASSUME NEW p \in DOMAIN st.segments, NEW q \in DOMAIN st.segments, p < q,
                        NEW g \in out2[st.segments[p].id], NEW h \in out2[st.segments[q].id],
                        NEW x \in Ids(g.frames), NEW y \in Ids(h.frames)
                 PROVE  x < y
        BY DEF SegmentsAscend
    <2>1. PICK f \in out[st.segments[p].id] : g.frames = f.frames
        BY LiveFacts DEF Stands
    <2>2. PICK k \in out[st.segments[q].id] : h.frames = k.frames
        BY LiveFacts DEF Stands
    <2> QED
        BY <2>1, <2>2 DEF Durable, SegmentsAscend
<1>3. EntriesHeld(st, out2, ack2)
    <2> SUFFICES ASSUME NEW x \in ack2, x >= st.first_entry
                 PROVE  \E id \in Live(st) : \A g \in out2[id] : x \in Ids(g.frames)
        BY DEF EntriesHeld
    <2>1. PICK id \in Live(st) : \A f \in out[id] : x \in Ids(f.frames)
        BY DEF Durable, EntriesHeld
    <2>2. \A g \in out2[id] : x \in Ids(g.frames)
        BY <2>1 DEF Stands
    <2> QED
        BY <2>2
<1> QED
    BY <1>1, <1>2, <1>3 DEF Durable

\* A state with the same segments.
LEMMA DurableSame ==
    ASSUME NEW st, NEW s, NEW out, NEW ack, Durable(st, out, ack),
           s.segments = st.segments, s.seals = st.seals,
           s.active_segment_id = st.active_segment_id, s.first_entry = st.first_entry
    PROVE  Durable(s, out, ack)
    BY DEF Durable, FilesPresent, SegmentsAscend, EntriesHeld, Live

-----------------------------------------------------------------------------
(***************************************************************************)
(* What the operations of a syncing caller do to a durable state.          *)
(***************************************************************************)
\* These operations leave the segments as they are.
LEMMA ApplySame ==
    ASSUME NEW st, NEW op, op.type \in {"SegmentDeleted", "RecordOrphan", "Metadata"}
    PROVE  LET s == Apply(st, op)
           IN  /\ s.segments = st.segments /\ s.seals = st.seals
               /\ s.active_segment_id = st.active_segment_id
               /\ s.first_entry = st.first_entry
    BY DEF Apply, ApplyStructure, WithMeta, segment_deleted, record_orphan, WithDead

\* truncate_start drops segments that end before the new head.
LEMMA ApplyTruncateStart ==
    ASSUME NEW st, NEW op, op.type = "TruncateStart"
    PROVE  LET s == Apply(st, op)
           IN  /\ s.segments = Retain(st.segments, op.drop)
               /\ s.seals = Without(st.seals, op.drop)
               /\ s.active_segment_id = st.active_segment_id
               /\ s.first_entry = op.first_entry
               /\ Live(s) = Live(st) \ op.drop
<1> DEFINE s == Apply(st, op)
<1>1. /\ s.segments = Retain(st.segments, op.drop)
      /\ s.seals = Without(st.seals, op.drop)
      /\ s.active_segment_id = st.active_segment_id
      /\ s.first_entry = op.first_entry
    BY DEF Apply, ApplyStructure, WithMeta, truncate_start, kill_segments
<1> HIDE DEF s
<1>2. Live(s) = Live(st) \ op.drop
    BY <1>1 DEF Live, Retain, Without
<1> QED
    BY <1>1, <1>2 DEF s

LEMMA DurableTruncated ==
    ASSUME NEW st, WellFormed(st), NEW out, NEW ack, ack \subseteq Nat, Durable(st, out, ack),
           \A id \in Live(st) : out[id] # {} /\ out[id] \subseteq FileType,
           \A id \in Live(st) : \A f \in out[id] : Ascending(f.frames),
           NEW op, op.type = "TruncateStart",
           op.drop \subseteq DOMAIN st.seals,
           op.first_entry \in Nat, op.first_entry >= st.first_entry,
           \A id \in op.drop : st.seals[id].last_entry < op.first_entry
    PROVE  Durable(Apply(st, op), out, ack)
<1> DEFINE s == Apply(st, op)
<1>1. /\ s.segments = Retain(st.segments, op.drop)
      /\ s.seals = Without(st.seals, op.drop)
      /\ s.active_segment_id = st.active_segment_id
      /\ s.first_entry = op.first_entry
      /\ Live(s) = Live(st) \ op.drop
    BY ApplyTruncateStart
<1> HIDE DEF s
<1>2. FilesPresent(s, out)
    BY <1>1 DEF Without, Durable, FilesPresent
<1>3. SegmentsAscend(s, out)
    <2>1. /\ DOMAIN s.segments \subseteq DOMAIN st.segments
          /\ \A p \in DOMAIN s.segments : s.segments[p] = st.segments[p]
        BY <1>1 DEF Retain, Without
    <2> QED
        BY <2>1 DEF Durable, SegmentsAscend
<1>4. EntriesHeld(s, out, ack)
    <2> SUFFICES ASSUME NEW x \in ack, x >= op.first_entry
                 PROVE  \E id \in Live(s) : \A f \in out[id] : x \in Ids(f.frames)
        BY <1>1 DEF EntriesHeld
    <2>1. st.first_entry \in Nat
        BY DEF WellFormed, StateShape
    <2>2. x >= st.first_entry
        <3>1. x \in Nat
            OBVIOUS
        <3> QED
            BY <2>1, <3>1
    <2>3. PICK id \in Live(st) : \A f \in out[id] : x \in Ids(f.frames)
        BY <2>2 DEF Durable, EntriesHeld
    <2>4. id \notin op.drop
        <3> SUFFICES ASSUME id \in op.drop PROVE FALSE
            OBVIOUS
        <3>1. PICK f \in out[id] : f \in FileType
            OBVIOUS
        <3>2. MatchesSeal(f, st.seals[id])
            BY DEF Durable, FilesPresent
        <3>3. f.frames \in Seq(FrameType) /\ f.frames # <<>> /\ Ascending(f.frames)
            BY <3>1, <3>2 DEF FileType, MatchesSeal
        <3>4. x <= Last(f.frames).id
            BY <2>3, <3>3, AscendingLast
        <3>5. Last(f.frames).id = st.seals[id].last_entry
            BY <3>2 DEF MatchesSeal
        <3>6. Last(f.frames).id \in Nat
            <4>1. Last(f.frames) \in FrameType
                BY <3>3 DEF Last
            <4> QED
                BY <4>1, BoundsAssumption DEF FrameType
        <3> QED
            BY <3>4, <3>5, <3>6
    <2> QED
        BY <1>1, <2>3, <2>4
<1> QED
    BY <1>2, <1>3, <1>4 DEF Durable, s

\* A rollover seals a file that no power loss changes, and starts an empty one.
LEMMA ApplyRollSegment ==
    ASSUME NEW st, WellFormed(st), NEW op, op.type = "RollSegment",
           op.sealed_id = st.active_segment_id
    PROVE  LET s == Apply(st, op)
           IN  \E n \in Nat :
                /\ \A p \in DOMAIN st.segments : p < n
                /\ DOMAIN s.segments = DOMAIN st.segments \cup {n}
                /\ \A p \in DOMAIN st.segments : s.segments[p] = st.segments[p]
                /\ s.segments[n] = [id |-> op.new_id, first_entry |-> op.new_first_entry]
                /\ s.seals = Insert(st.seals, st.active_segment_id, op.seal)
                /\ s.active_segment_id = op.new_id
                /\ s.first_entry = st.first_entry
                /\ Live(s) = Live(st) \cup {op.new_id}
<1> DEFINE s == Apply(st, op)
           D == DOMAIN st.segments
           e == [id |-> op.new_id, first_entry |-> op.new_first_entry]
<1>1. /\ s.segments = Push(st.segments, e)
      /\ s.seals = Insert(st.seals, st.active_segment_id, op.seal)
      /\ s.active_segment_id = op.new_id
      /\ s.first_entry = st.first_entry
    BY DEF Apply, ApplyStructure, WithMeta, roll_segment
<1>2. PICK a \in D : \A q \in D : q <= a
    BY DEF WellFormed, ActiveIsLast
<1>3. D \subseteq Nat
    BY DEF WellFormed, StateShape
<1>4. Max(D) = a
    BY <1>2, <1>3, MaxIs
<1>5. s.segments = Insert(st.segments, a + 1, e)
    BY <1>1, <1>2, <1>4 DEF Push
<1>6. a + 1 \in Nat /\ \A p \in D : p < a + 1 /\ p # a + 1
    BY <1>2, <1>3
<1> HIDE DEF s, e
<1>7. /\ DOMAIN s.segments = D \cup {a + 1}
      /\ \A p \in D : s.segments[p] = st.segments[p]
      /\ s.segments[a + 1] = e
    BY <1>5, <1>6 DEF Insert
<1>8. Live(s) = Live(st) \cup {op.new_id}
    <2>1. e.id = op.new_id
        BY DEF e
    <2> QED
        BY <1>7, <2>1 DEF Live
<1> QED
    BY <1>1, <1>6, <1>7, <1>8 DEF s, e

LEMMA DurableRolled ==
    ASSUME NEW st, WellFormed(st), NEW out, NEW ack, Durable(st, out, ack),
           NEW op, op.type = "RollSegment", op.sealed_id = st.active_segment_id,
           out[op.new_id] = {SegmentFile(<<>>, FALSE)},
           \A f \in out[st.active_segment_id] : MatchesSeal(f, op.seal)
    PROVE  Durable(Apply(st, op), out, ack)
<1> DEFINE s == Apply(st, op)
<1>1. PICK n \in Nat :
        /\ \A p \in DOMAIN st.segments : p < n
        /\ DOMAIN s.segments = DOMAIN st.segments \cup {n}
        /\ \A p \in DOMAIN st.segments : s.segments[p] = st.segments[p]
        /\ s.segments[n] = [id |-> op.new_id, first_entry |-> op.new_first_entry]
        /\ s.seals = Insert(st.seals, st.active_segment_id, op.seal)
        /\ s.active_segment_id = op.new_id
        /\ s.first_entry = st.first_entry
        /\ Live(s) = Live(st) \cup {op.new_id}
    BY ApplyRollSegment
<1> HIDE DEF s
<1>2. FilesPresent(s, out)
    <2>1. \A f \in out[op.new_id] : f.kind = "ok"
        BY DEF SegmentFile
    <2> QED
        BY <1>1, <2>1 DEF Insert, Durable, FilesPresent
<1>3. SegmentsAscend(s, out)
    <2> SUFFICES ASSUME NEW p \in DOMAIN s.segments, NEW q \in DOMAIN s.segments, p < q,
                        NEW f \in out[s.segments[p].id], NEW g \in out[s.segments[q].id],
                        NEW x \in Ids(f.frames), NEW y \in Ids(g.frames)
                 PROVE  x < y
        BY DEF SegmentsAscend
    <2>1. q # n
        <3> SUFFICES ASSUME q = n PROVE FALSE
            OBVIOUS
        <3>1. s.segments[q].id = op.new_id
            BY <1>1
        <3>2. g = SegmentFile(<<>>, FALSE)
            BY <3>1
        <3> QED
            BY <3>2 DEF SegmentFile, Ids
    <2>2. p # n
        BY <1>1, <2>1 DEF WellFormed, StateShape
    <2> QED
        BY <1>1, <2>1, <2>2 DEF Durable, SegmentsAscend
<1>4. EntriesHeld(s, out, ack)
    BY <1>1 DEF Durable, EntriesHeld
<1> QED
    BY <1>2, <1>3, <1>4 DEF Durable, s

-----------------------------------------------------------------------------
\* The ids of a file are those of entries.
LEMMA IdsNat ==
    ASSUME NEW f \in FileType, NEW x \in Ids(f.frames)
    PROVE  x \in Nat
<1>1. \A i \in DOMAIN f.frames : f.frames[i].id \in 0..MaxId
    BY DEF FileType, FrameType
<1> QED
    BY <1>1, BoundsAssumption DEF Ids

\* A power loss leaves the file with a first part of what was appended.
LEMMA AppendLeaves ==
    ASSUME NEW file \in FileType, NEW new \in Seq(FrameType),
           NEW g \in AppendOutcomes(file, Len(file.frames), new)
    PROVE  g.kind = "ok" /\ \E n \in 0..Len(new) : g.frames = file.frames \o SubSeq(new, 1, n)
<1> DEFINE pos == Len(file.frames)
           part(n, torn) == SegmentFile(WriteAt(file.frames, pos, SubSeq(new, 1, n)), torn)
           whole == SegmentFile(WriteAt(file.frames, pos, new), FALSE)
           last == Len(new) - 1
<1>1. file.frames \in Seq(FrameType) /\ pos \in Nat /\ Len(new) \in Nat
    BY DEF FileType
<1>2. AppendOutcomes(file, pos, new) =
        {part(n, torn) : n \in 0..last, torn \in BOOLEAN} \cup {whole}
    BY DEF AppendOutcomes
<1>3. ASSUME NEW n \in 0..Len(new), NEW torn
      PROVE  /\ part(n, torn).kind = "ok"
             /\ part(n, torn).frames = file.frames \o SubSeq(new, 1, n)
    <2>1. SubSeq(new, 1, n) \in Seq(FrameType)
        BY <1>1, SubSeqProperties
    <2>2. WriteAt(file.frames, pos, SubSeq(new, 1, n)) = file.frames \o SubSeq(new, 1, n)
        BY <1>1, <2>1, WriteAtType
    <2> QED
        BY <2>2 DEF SegmentFile
<1>4. whole = part(Len(new), FALSE)
    <2>1. SubSeq(new, 1, Len(new)) = new
        OBVIOUS
    <2> QED
        BY <2>1
<1>5. 0..last \subseteq 0..Len(new) /\ Len(new) \in 0..Len(new)
    BY <1>1
<1> HIDE DEF part, whole, last
<1>6. \E n \in 0..Len(new), torn \in BOOLEAN : g = part(n, torn)
    <2>1. CASE g = whole
        BY <1>4, <1>5, <2>1
    <2>2. CASE g # whole
        <3>1. \E n \in 0..last, torn \in BOOLEAN : g = part(n, torn)
            BY <1>2, <2>2
        <3> QED
            BY <1>5, <3>1
    <2> QED
        BY <2>1, <2>2
<1> QED
    BY <1>3, <1>6

\* Entries appended to the active segment, after everything there is.
LEMMA DurableExtended ==
    ASSUME NEW st, WellFormed(st), NEW out, NEW out2, NEW ack, Durable(st, out, ack),
           \A id \in Live(st) : out[id] # {} /\ out[id] \subseteq FileType,
           NEW last \in Nat,
           \A id \in Live(st) : \A f \in out[id] : \A x \in Ids(f.frames) : x <= last,
           \A id \in Live(st) : id # st.active_segment_id => out2[id] = out[id],
           \A g \in out2[st.active_segment_id] :
                /\ g.kind = "ok"
                /\ \E f \in out[st.active_segment_id] : Ids(f.frames) \subseteq Ids(g.frames)
                /\ \A y \in Ids(g.frames) :
                    \/ y \in Nat /\ y > last
                    \/ \E f \in out[st.active_segment_id] : y \in Ids(f.frames),
           \A f, h \in out[st.active_segment_id] : f = h
    PROVE  Durable(st, out2, ack)
<1>1. FilesPresent(st, out2)
    BY LiveFacts DEF Durable, FilesPresent
<1>2. SegmentsAscend(st, out2)
    <2> SUFFICES ASSUME NEW p \in DOMAIN st.segments, NEW q \in DOMAIN st.segments, p < q,
                        NEW f \in out2[st.segments[p].id], NEW g \in out2[st.segments[q].id],
                        NEW x \in Ids(f.frames), NEW y \in Ids(g.frames)
                 PROVE  x < y
        BY DEF SegmentsAscend
    <2>1. f \in out[st.segments[p].id] /\ st.segments[p].id \in Live(st)
        BY LiveFacts
    <2>2. x \in Nat /\ x <= last
        BY <2>1, IdsNat
    <2>3. CASE \E h \in out[st.segments[q].id] : y \in Ids(h.frames)
        BY <2>1, <2>3 DEF Durable, SegmentsAscend
    <2>4. CASE y \in Nat /\ y > last
        BY <2>2, <2>4
    <2> QED
        BY <2>3, <2>4, LiveFacts
<1>3. EntriesHeld(st, out2, ack)
    <2> SUFFICES ASSUME NEW x \in ack, x >= st.first_entry
                 PROVE  \E id \in Live(st) : \A g \in out2[id] : x \in Ids(g.frames)
        BY DEF EntriesHeld
    <2>1. PICK id \in Live(st) : \A f \in out[id] : x \in Ids(f.frames)
        BY DEF Durable, EntriesHeld
    <2>2. CASE id = st.active_segment_id
        BY <2>1, <2>2
    <2>3. CASE id # st.active_segment_id
        BY <2>1, <2>3
    <2> QED
        BY <2>2, <2>3
<1> QED
    BY <1>1, <1>2, <1>3 DEF Durable

-----------------------------------------------------------------------------
(***************************************************************************)
(* What a scan finds after a power loss.                                   *)
(***************************************************************************)
ActiveTail(st, files) ==
    LET id == st.active_segment_id
    IN  IF files[id].torn
        THEN {Issue("ActiveSegmentTornTail", id, Len(files[id].frames))} ELSE {}

\* Files that fit the state, and have no frame that is not ok.
Fits(st, files) ==
    /\ WellFormed(st) /\ Known(st) \subseteq SegIds
    /\ files \in [SegIds -> FileType]
    /\ \A id \in SegIds : \A i \in DOMAIN files[id].frames : files[id].frames[i].ok
    /\ \A id \in DOMAIN st.seals : MatchesSeal(files[id], st.seals[id])
    /\ files[st.active_segment_id].kind = "ok"

\* The scan of such files finds leftovers, and the torn tail of an append.
LEMMA ScanAfterCrash ==
    ASSUME NEW m, m.kind = "ok", m.tail \in {"clean", "header"}, NEW files, Fits(m.st, files)
    PROVE  scan(m, files) = ManifestTail(m) \cup find_orphans(m.st, files)
                                \cup find_missing_dead(m.st, files) \cup ActiveTail(m.st, files)
<1> DEFINE st == m.st
           a == st.active_segment_id
           seg(id) == scan_segment(st, files, id)
<1>1. ~IsEmpty(st)
    BY DEF Fits, WellFormed, ActiveIsLast, IsEmpty
<1>2. scan(m, files) = ManifestTail(m) \cup find_orphans(st, files)
        \cup find_missing_dead(st, files) \cup UNION {seg(id) : id \in Live(st)}
    BY <1>1 DEF scan
<1>3. ASSUME NEW id \in Live(st)
      PROVE  /\ files[id] \in FileType /\ files[id].torn \in BOOLEAN
             /\ CleanLen(files[id].frames) = Len(files[id].frames)
             /\ Len(files[id].frames) \in Nat
    <2>1. files[id] \in FileType /\ id \in SegIds
        BY DEF Fits, Known
    <2>2. {i \in DOMAIN files[id].frames : ~files[id].frames[i].ok} = {}
        BY <2>1 DEF Fits
    <2> QED
        BY <2>1, <2>2 DEF CleanLen, FileType
<1>4. ASSUME NEW id \in Live(st), id # a PROVE seg(id) = {}
    <2>1. IsSealed(st, id) /\ MatchesSeal(files[id], st.seals[id])
        BY <1>4, LiveFacts DEF Fits, IsSealed
    <2>2. /\ files[id].kind = "ok" /\ ~files[id].torn
          /\ Len(files[id].frames) = st.seals[id].final_size
          /\ ~(CleanLen(files[id].frames) < Len(files[id].frames))
        BY <1>3, <2>1 DEF MatchesSeal
    <2> QED
        BY <2>1, <2>2 DEF scan_segment
<1>5. seg(a) = ActiveTail(st, files) /\ a \in Live(st)
    <2>1. ~IsSealed(st, a) /\ files[a].kind = "ok" /\ a \in Live(st)
        BY LiveFacts DEF Fits, IsSealed
    <2>2. IsClean(files[a]) <=> ~files[a].torn
        BY <1>3, <2>1 DEF IsClean
    <2>3. CASE files[a].torn
        BY <1>3, <2>1, <2>2, <2>3 DEF scan_segment, ActiveTail
    <2>4. CASE ~files[a].torn
        BY <1>3, <2>1, <2>2, <2>4 DEF scan_segment, ActiveTail
    <2> QED
        BY <2>1, <2>3, <2>4
<1> HIDE DEF seg
<1>6. UNION {seg(id) : id \in Live(st)} = ActiveTail(st, files)
    BY <1>4, <1>5
<1> QED
    BY <1>2, <1>6

\* All of it is fixed without approval.
LEMMA CrashIssues ==
    ASSUME NEW m, m.kind = "ok", m.tail \in {"clean", "header"}, NEW files, Fits(m.st, files)
    PROVE  /\ \A i \in scan(m, files) : i.issue \in AutoFixed
           /\ create_fix_up(m.st, scan(m, files), FALSE) = "proceed"
<1>1. \A i \in scan(m, files) : i.issue \in AutoFixed
    BY ScanAfterCrash DEF ManifestTail, find_orphans, find_missing_dead, ActiveTail, Issue,
                          AutoFixed
<1>2. {i \in scan(m, files) : /\ i.issue \notin AutoFixed
                              /\ ~(FALSE /\ i.issue \in NeedsApproval)} = {}
    BY <1>1
<1> QED
    BY <1>1, <1>2 DEF create_fix_up

\* The four kinds of issue, by name and by what they say.
LEMMA IssueNames ==
    ASSUME NEW m, NEW files
    PROVE  /\ \A i \in ManifestTail(m) :
                i = Issue("ManifestTornTail", 0, 0) /\ i.issue = "ManifestTornTail"
           /\ \A i \in find_orphans(m.st, files) :
                /\ i.issue = "OrphanSegmentFound" /\ i = Issue("OrphanSegmentFound", i.id, 0)
                /\ i.id \in OnDisk(files) \ Known(m.st)
           /\ \A i \in find_missing_dead(m.st, files) :
                /\ i.issue = "DeadSegmentNotFound" /\ i = Issue("DeadSegmentNotFound", i.id, 0)
                /\ i.id \in m.st.dead \ OnDisk(files)
           /\ \A i \in ActiveTail(m.st, files) :
                /\ i.issue = "ActiveSegmentTornTail"
                /\ i.id = m.st.active_segment_id /\ i.at = Len(files[i.id].frames)
                /\ ActiveTail(m.st, files) = {i}
<1>1. \A i \in ManifestTail(m) :
        i = Issue("ManifestTornTail", 0, 0) /\ i.issue = "ManifestTornTail"
    BY DEF ManifestTail, Issue
<1>2. \A i \in find_orphans(m.st, files) :
        /\ i.issue = "OrphanSegmentFound" /\ i = Issue("OrphanSegmentFound", i.id, 0)
        /\ i.id \in OnDisk(files) \ Known(m.st)
    BY DEF find_orphans, Issue, Known
<1>3. \A i \in find_missing_dead(m.st, files) :
        /\ i.issue = "DeadSegmentNotFound" /\ i = Issue("DeadSegmentNotFound", i.id, 0)
        /\ i.id \in m.st.dead \ OnDisk(files)
    BY DEF find_missing_dead, Issue
<1>4. \A i \in ActiveTail(m.st, files) :
        /\ i.issue = "ActiveSegmentTornTail"
        /\ i.id = m.st.active_segment_id /\ i.at = Len(files[i.id].frames)
        /\ ActiveTail(m.st, files) = {i}
    BY DEF ActiveTail, Issue
<1> QED
    BY <1>1, <1>2, <1>3, <1>4

\* Cutting the manifest's tail leaves the other issues.
LEMMA FixedManifest ==
    ASSUME NEW m, m.kind = "ok", m.tail \in {"clean", "header"}, NEW files, Fits(m.st, files),
           NEW fix \in scan(m, files), fix.issue = "ManifestTornTail"
    PROVE  scan(ManifestFile(m.st, "clean"), files) = scan(m, files) \ {fix}
<1> DEFINE c == ManifestFile(m.st, "clean")
           T == ManifestTail(m)
           R == find_orphans(m.st, files) \cup find_missing_dead(m.st, files)
                    \cup ActiveTail(m.st, files)
<1>1. c.kind = "ok" /\ c.tail = "clean" /\ c.st = m.st
    BY DEF ManifestFile
<1>2. scan(m, files) = T \cup R
    BY ScanAfterCrash
<1>3. ManifestTail(c) = {}
    BY <1>1 DEF ManifestTail
<1>4. scan(c, files) = R
    <2> HIDE DEF c
    <2> QED
        BY <1>1, <1>3, ScanAfterCrash
<1>5. \A i \in R : i.issue # "ManifestTornTail"
    BY IssueNames
<1>6. \A i \in T : i = fix
    <2>1. fix \in T
        BY <1>2, <1>5
    <2> QED
        BY <2>1, IssueNames
<1> HIDE DEF T, R, c
<1>7. scan(c, files) = scan(m, files) \ {fix}
    BY <1>2, <1>4, <1>5, <1>6
<1> QED
    BY <1>7 DEF c

\* Files without the torn tail of `id'.
CutTail(files, id) == [files EXCEPT ![id] = SegmentFile(files[id].frames, FALSE)]

\* Cutting the active segment's tail leaves its frames, and the other issues.
LEMMA FixedSegment ==
    ASSUME NEW m, m.kind = "ok", m.tail \in {"clean", "header"}, NEW files, Fits(m.st, files),
           NEW fix \in scan(m, files), fix.issue = "ActiveSegmentTornTail"
    PROVE  scan(m, CutTail(files, fix.id)) = scan(m, files) \ {fix}
<1> DEFINE files2 == CutTail(files, fix.id)
           R == ManifestTail(m) \cup find_orphans(m.st, files) \cup find_missing_dead(m.st, files)
           A == ActiveTail(m.st, files)
<1>1. scan(m, files) = R \cup A
    BY ScanAfterCrash
<1>2. \A i \in R : i.issue # "ActiveSegmentTornTail"
    BY IssueNames
<1>3. fix \in A /\ A = {fix} /\ fix.id = m.st.active_segment_id /\ fix.at = Len(files[fix.id].frames)
    <2>1. fix \in A
        <3> HIDE DEF R, A
        <3> QED
            BY <1>1, <1>2
    <2>2. \A i \in A : /\ i.id = m.st.active_segment_id /\ i.at = Len(files[i.id].frames)
                       /\ A = {i}
        BY DEF ActiveTail, Issue
    <2> HIDE DEF A
    <2> QED
        BY <2>1, <2>2
<1>4. fix.id \in SegIds /\ fix.id \notin DOMAIN m.st.seals
    BY <1>3, LiveFacts DEF Fits, Known
<1>5. /\ files2[fix.id].kind = "ok" /\ files2[fix.id].torn = FALSE
      /\ files2[fix.id].frames = files[fix.id].frames
      /\ files2 \in [SegIds -> FileType]
      /\ \A id \in SegIds : id # fix.id => files2[id] = files[id]
    <2>1. files \in [SegIds -> FileType]
        BY DEF Fits
    <2>2. SegmentFile(files[fix.id].frames, FALSE) \in FileType
        BY <1>4, <2>1 DEF SegmentFile, FileType
    <2>3. /\ files2[fix.id] = SegmentFile(files[fix.id].frames, FALSE)
          /\ files2 \in [SegIds -> FileType]
          /\ \A id \in SegIds : id # fix.id => files2[id] = files[id]
        BY <1>4, <2>1, <2>2 DEF CutTail
    <2> QED
        BY <2>3 DEF SegmentFile
<1> HIDE DEF files2
<1>6. Fits(m.st, files2)
    <2>1. \A id \in DOMAIN m.st.seals : id \in SegIds /\ files2[id] = files[id]
        BY <1>4, <1>5, LiveFacts DEF Fits, Known
    <2>2. \A id \in SegIds : files2[id].frames = files[id].frames
        BY <1>5
    <2> QED
        BY <1>3, <1>5, <2>1, <2>2 DEF Fits
<1>7. OnDisk(files2) = OnDisk(files)
    BY <1>3, <1>4, <1>5 DEF OnDisk, Fits
<1>8. scan(m, files2) = R
    <2>1. ActiveTail(m.st, files2) = {}
        BY <1>3, <1>5 DEF ActiveTail
    <2>2. /\ find_orphans(m.st, files2) = find_orphans(m.st, files)
          /\ find_missing_dead(m.st, files2) = find_missing_dead(m.st, files)
        BY <1>7 DEF find_orphans, find_missing_dead
    <2> QED
        BY <1>6, <2>1, <2>2, ScanAfterCrash
<1>9. scan(m, files2) = scan(m, files) \ {fix}
    <2> HIDE DEF R, A
    <2> QED
        BY <1>1, <1>2, <1>3, <1>8
<1> QED
    BY <1>9 DEF files2

\* Recording a segment as dead, or as gone, leaves the other issues.
LEMMA FixedOp ==
    ASSUME NEW m, m.kind = "ok", m.tail = "clean", NEW files, Fits(m.st, files),
           NEW fix \in scan(m, files), NEW op,
           \/ fix.issue = "OrphanSegmentFound" /\ op = RecordOrphanOp(fix.id)
           \/ fix.issue = "DeadSegmentNotFound" /\ op = SegmentDeletedOp(fix.id)
    PROVE  LET c == ManifestFile(Apply(m.st, op), "clean")
           IN  /\ Fits(Apply(m.st, op), files)
               /\ scan(c, files) = scan(m, files) \ {fix}
<1> DEFINE s == Apply(m.st, op)
           c == ManifestFile(s, "clean")
           O == find_orphans(m.st, files)
           G == find_missing_dead(m.st, files)
           A == ActiveTail(m.st, files)
<1>1. ManifestTail(m) = {} /\ scan(m, files) = O \cup G \cup A
    <2>1. ManifestTail(m) = {}
        BY DEF ManifestTail
    <2> QED
        BY <2>1, ScanAfterCrash
<1>2. op.type \in {"SegmentDeleted", "RecordOrphan"}
    BY DEF RecordOrphanOp, SegmentDeletedOp
<1>3. /\ s.segments = m.st.segments /\ s.seals = m.st.seals
      /\ s.active_segment_id = m.st.active_segment_id
    BY <1>2, ApplySame
<1>4. Live(s) = Live(m.st)
    BY <1>3 DEF Live
<1>5. \/ /\ fix \in O /\ fix.id \in OnDisk(files) \ Known(m.st)
         /\ fix = Issue("OrphanSegmentFound", fix.id, 0)
         /\ WellFormed(s) /\ s.dead = m.st.dead \cup {fix.id}
      \/ /\ fix \in G /\ fix.id \in m.st.dead \ OnDisk(files)
         /\ fix = Issue("DeadSegmentNotFound", fix.id, 0)
         /\ WellFormed(s) /\ s.dead = m.st.dead \ {fix.id}
    <2>1. CASE fix.issue = "OrphanSegmentFound" /\ op = RecordOrphanOp(fix.id)
        <3>1. fix \in O /\ fix.id \in OnDisk(files) \ Known(m.st)
              /\ fix = Issue("OrphanSegmentFound", fix.id, 0)
            BY <1>1, <2>1, IssueNames
        <3>2. fix.id \in SegIds \ Live(m.st)
            BY <3>1 DEF OnDisk, Known
        <3> QED
            BY <2>1, <3>1, <3>2, FixOps DEF Fits
    <2>2. CASE fix.issue = "DeadSegmentNotFound" /\ op = SegmentDeletedOp(fix.id)
        <3>1. fix \in G /\ fix.id \in m.st.dead \ OnDisk(files)
              /\ fix = Issue("DeadSegmentNotFound", fix.id, 0)
            BY <1>1, <2>2, IssueNames
        <3> QED
            BY <2>2, <3>1, FixOps DEF Fits
    <2> QED
        BY <2>1, <2>2
<1> HIDE DEF s
<1>6. Fits(s, files)
    <2>1. WellFormed(s)
        BY <1>5
    <2>2. Known(s) \subseteq SegIds
        BY <1>4, <1>5 DEF Known, Fits, OnDisk
    <2> QED
        BY <1>3, <2>1, <2>2 DEF Fits
<1>7. scan(c, files) = find_orphans(s, files) \cup find_missing_dead(s, files) \cup A
    <2>1. c.kind = "ok" /\ c.tail = "clean" /\ c.st = s
        BY DEF ManifestFile
    <2>2. ManifestTail(c) = {} /\ ActiveTail(s, files) = A
        BY <1>3, <2>1 DEF ManifestTail, ActiveTail
    <2> HIDE DEF c, A
    <2> QED
        BY <1>6, <2>1, <2>2, ScanAfterCrash
<1>8. /\ \A i \in O : i.issue = "OrphanSegmentFound"
      /\ \A i \in G : i.issue = "DeadSegmentNotFound"
      /\ \A i \in A : i.issue = "ActiveSegmentTornTail"
    BY IssueNames
<1>9. find_orphans(s, files) \cup find_missing_dead(s, files) = (O \cup G) \ {fix}
    <2>1. \A x, y, n : Issue(n, x, 0) = Issue(n, y, 0) => x = y
        BY DEF Issue
    <2>2. CASE /\ fix.id \in OnDisk(files) \ Known(m.st) /\ s.dead = m.st.dead \cup {fix.id}
               /\ fix = Issue("OrphanSegmentFound", fix.id, 0) /\ fix \in O
        <3>1. find_missing_dead(s, files) = G
            BY <2>2 DEF find_missing_dead
        <3>2. OnDisk(files) \ Known(s) = (OnDisk(files) \ Known(m.st)) \ {fix.id}
            BY <1>4, <2>2 DEF Known
        <3>3. find_orphans(s, files) = O \ {fix}
            BY <2>1, <2>2, <3>2 DEF find_orphans, Known
        <3> HIDE DEF O, G
        <3> QED
            BY <1>8, <2>2, <3>1, <3>3
    <2>3. CASE /\ fix.id \in m.st.dead \ OnDisk(files) /\ s.dead = m.st.dead \ {fix.id}
               /\ fix = Issue("DeadSegmentNotFound", fix.id, 0) /\ fix \in G
        <3>1. OnDisk(files) \ Known(s) = OnDisk(files) \ Known(m.st)
            BY <1>4, <2>3 DEF Known
        <3>2. find_orphans(s, files) = O
            BY <3>1 DEF find_orphans, Known
        <3>3. find_missing_dead(s, files) = G \ {fix}
            BY <2>1, <2>3 DEF find_missing_dead
        <3> HIDE DEF O, G
        <3> QED
            BY <1>8, <2>3, <3>2, <3>3
    <2> QED
        BY <1>5, <2>2, <2>3
<1> HIDE DEF O, G, A, c
<1>10. fix \notin A
    BY <1>5, <1>8
<1>11. scan(c, files) = scan(m, files) \ {fix}
    BY <1>1, <1>7, <1>9, <1>10
<1> QED
    BY <1>6, <1>11 DEF s, c

-----------------------------------------------------------------------------
(***************************************************************************)
(* The steps of a store whose caller syncs.                                *)
(***************************************************************************)
LEMMA ManifestFacts ==
    ASSUME StructureInv, ManifestsDurable, NEW m \in Manifests
    PROVE  WellFormed(m.st) /\ Known(m.st) \subseteq SegIds /\ Live(m.st) \subseteq SegIds
    BY DEF StructureInv, ManifestOk, ManifestsDurable, Known

LEMMA OutcomesAre ==
    ASSUME DiskTyped, NEW id \in SegIds
    PROVE  /\ Outcomes[id] = surv[id] \cup {disk[id]} /\ disk[id] \in Outcomes[id]
           /\ Outcomes[id] \subseteq FileType /\ disk[id] \in FileType
    BY DEF Outcomes, DiskTyped

LEMMA OutcomesArePrimed ==
    ASSUME DiskTyped', NEW id \in SegIds
    PROVE  /\ Outcomes'[id] = surv'[id] \cup {disk'[id]} /\ disk'[id] \in Outcomes'[id]
           /\ Outcomes'[id] \subseteq FileType /\ disk'[id] \in FileType
    BY DEF Outcomes, DiskTyped

\* The page cache fits every manifest.
LEMMA DiskFits ==
    ASSUME StructureInv, FileInv, CrashInv, NEW m \in Manifests
    PROVE  m.kind = "ok" /\ m.tail \in {"clean", "header"} /\ Fits(m.st, disk)
<1>1. m.kind = "ok" /\ m.tail \in {"clean", "header"}
    BY DEF CrashInv, ManifestsDurable
<1>2. WellFormed(m.st) /\ Known(m.st) \subseteq SegIds /\ Live(m.st) \subseteq SegIds
    BY ManifestFacts DEF CrashInv
<1>3. DiskTyped /\ disk \in [SegIds -> FileType]
    BY DEF FileInv, DiskTyped
<1>4. \A id \in SegIds : disk[id] \in Outcomes[id]
    BY <1>3, OutcomesAre
<1>5. \A id \in SegIds : \A i \in DOMAIN disk[id].frames : disk[id].frames[i].ok
    BY <1>4 DEF CrashInv, FramesDurable
<1>6. FilesPresent(m.st, Outcomes)
    BY DEF CrashInv, StatesDurable, Durable
<1>7. /\ \A id \in DOMAIN m.st.seals : MatchesSeal(disk[id], m.st.seals[id])
      /\ disk[m.st.active_segment_id].kind = "ok"
    <2>1. DOMAIN m.st.seals \subseteq SegIds /\ m.st.active_segment_id \in SegIds
        BY <1>2, LiveFacts
    <2> QED
        BY <1>4, <1>6, <2>1 DEF FilesPresent
<1> QED
    BY <1>1, <1>2, <1>3, <1>5, <1>7 DEF Fits

Loading == OpenClean \/ (FixedUp /\ pc' = "idle")
Recovering == OpenWithIssues /\ pc' = "fix"
Fixing == FixUp /\ pc' \in {"fix", "fixsync"}
Syncing == SyncRollover \/ SyncTruncateStart \/ SyncDeleted \/ SyncMetadata
Beginning == Write \/ TruncateStart \/ DeleteDeadSegments \/ WriteMetadata

CrashNext ==
    \/ Loading \/ Recovering \/ Fixing \/ SyncFixOp
    \/ CreateNew \/ WriteMagic \/ Flush \/ AppendFrames \/ CommitSync \/ RemoveFile
    \/ Syncing \/ Beginning
    \/ PowerLoss \/ Restart \/ UNCHANGED vars

\* Nothing else happens: no recovery stops or needs approval.
LEMMA CrashSteps ==
    ASSUME SyncingCaller, StructureInv, FileInv, CrashInv, [Next]_vars
    PROVE  CrashNext
<1>1. mdisk \in Manifests
    BY DEF Manifests
<1>2. /\ mdisk.kind = "ok"
      /\ \A i \in scan(mdisk, disk) : i.issue \in AutoFixed
      /\ create_fix_up(mdisk.st, scan(mdisk, disk), FALSE) = "proceed"
    BY <1>1, DiskFits, CrashIssues
<1>3. ControlDurable
    BY DEF CrashInv
<1>4. ~CreateManifest /\ ~WriteManifestMagic /\ ~FlushCreate /\ ~Recover
    BY <1>2, <1>3 DEF CreateManifest, WriteManifestMagic, FlushCreate, Recover, ControlDurable
<1>5. CASE OpenWithIssues
    BY <1>2, <1>5 DEF OpenWithIssues, Attempt, Goto, CrashNext, Recovering
<1>6. CASE FixUp
    <2>1. pc = "fix" /\ fix_ups = scan(mdisk, disk)
        BY <1>3, <1>6 DEF FixUp, ControlDurable
    <2>2. PICK fix \in fix_ups :
            \/ TruncateManifest(fix) \/ TruncateSegment(fix)
            \/ AppendFixOp(fix) \/ CreateActiveSegment(fix)
        BY <1>6 DEF FixUp, NextFixUps
    <2>3. ~CreateActiveSegment(fix)
        BY <1>2, <2>1 DEF CreateActiveSegment, AutoFixed
    <2>4. pc' \in {"fix", "fixsync"}
        BY <2>2, <2>3 DEF TruncateManifest, TruncateSegment, AppendFixOp, Goto
    <2> QED
        BY <1>6, <2>4 DEF CrashNext, Fixing
<1>7. CASE FixedUp
    <2>1. pc = "fix" /\ fix_ups = {} /\ fix_ups = scan(mdisk, disk) /\ ~approved
        BY <1>3, <1>7 DEF FixedUp, ControlDurable
    <2>2. pc' = "idle"
        BY <1>7, <2>1 DEF FixedUp, Loaded, Goto
    <2> QED
        BY <1>7, <2>2 DEF CrashNext, Loading
<1>8. ~CommitDrop /\ ~TruncateEnd /\ ~Corrupt
    <2>1. "drop" \notin Ops /\ "truncate_end" \notin Ops /\ ~(corrupts < MaxCorrupt)
        BY <1>3 DEF SyncingCaller, ControlDurable
    <2>2. CommitDrop => "drop" \in Ops
        BY DEF CommitDrop
    <2>3. TruncateEnd => "truncate_end" \in Ops
        BY DEF TruncateEnd
    <2>4. Corrupt => corrupts < MaxCorrupt
        BY DEF Corrupt
    <2> QED
        BY <2>1, <2>2, <2>3, <2>4
<1>9. ~SyncTruncated /\ ~SyncTruncateEnd
    BY <1>3 DEF SyncTruncated, SyncTruncateEnd, ControlDurable, StructureInv, ControlOk
<1> QED
    BY <1>4, <1>5, <1>6, <1>7, <1>8, <1>9
       DEF Next, OpenSteps, CallSteps, Calls, Failures, CrashNext, Loading, Syncing, Beginning

\* A fix-up, with what it does to the files and to the list.
LEMMA FixSteps ==
    ASSUME StructureInv, FileInv, CrashInv, Fixing
    PROVE  \E fix \in scan(mdisk, disk) :
            /\ TruncateManifest(fix) \/ TruncateSegment(fix) \/ AppendFixOp(fix)
            /\ pc = "fix" /\ mbuf = NoOp /\ msurv = {mdisk}
            /\ fix_ups' = scan(mdisk, disk) \ {fix} /\ approved' = FALSE
            /\ AppendFixOp(fix) => mdisk.tail = "clean"
            /\ UNCHANGED <<creating, result, buf, last_valid, to_delete, storeVars, log, acked,
                           faultVars>>
<1>1. pc = "fix" /\ fix_ups = scan(mdisk, disk) /\ approved = FALSE /\ msurv = {mdisk}
    BY DEF Fixing, FixUp, CrashInv, ControlDurable, ManifestsDurable
<1>2. mbuf = NoOp
    BY <1>1 DEF StructureInv, ControlOk, NoOpAt
<1>3. PICK fix \in NextFixUps(fix_ups) :
        /\ \/ TruncateManifest(fix) \/ TruncateSegment(fix)
           \/ AppendFixOp(fix) \/ CreateActiveSegment(fix)
        /\ fix_ups' = IF pc' = "closed" THEN {} ELSE fix_ups \ {fix}
        /\ approved' = (approved /\ pc' # "closed")
    BY DEF Fixing, FixUp
<1>4. ~CreateActiveSegment(fix) /\ pc' # "closed"
    BY DEF Fixing, CreateActiveSegment, Goto
<1>5. fix \in fix_ups /\ \A j \in fix_ups : FixUpPhase(fix) <= FixUpPhase(j)
    BY DEF NextFixUps
<1>6. ASSUME AppendFixOp(fix) PROVE mdisk.tail = "clean"
    <2> SUFFICES ASSUME mdisk.tail # "clean" PROVE FALSE
        OBVIOUS
    <2> DEFINE torn == Issue("ManifestTornTail", 0, 0)
    <2>1. torn \in ManifestTail(mdisk)
        BY DEF ManifestTail
    <2>2. torn \in scan(mdisk, disk)
        <3>1. mdisk \in Manifests
            BY DEF Manifests
        <3> QED
            BY <2>1, <3>1, DiskFits, ScanAfterCrash
    <2>3. FixUpPhase(torn) = 1
        BY DEF FixUpPhase, Issue
    <2>4. FixUpPhase(fix) = 2
        BY <1>6 DEF AppendFixOp, FixUpPhase
    <2> QED
        BY <1>1, <1>5, <2>2, <2>3, <2>4
<1>7. /\ fix \in scan(mdisk, disk) /\ fix_ups' = scan(mdisk, disk) \ {fix} /\ approved' = FALSE
    BY <1>1, <1>3, <1>4, <1>5
<1>8. UNCHANGED <<creating, result>>
    BY <1>3, <1>4 DEF TruncateManifest, TruncateSegment, AppendFixOp
<1>9. UNCHANGED <<buf, last_valid, to_delete, storeVars, log, acked, faultVars>>
    BY DEF Fixing, FixUp
<1> QED
    BY <1>1, <1>2, <1>3, <1>4, <1>6, <1>7, <1>8, <1>9

-----------------------------------------------------------------------------
(***************************************************************************)
(* CrashInv, part by part.                                                 *)
(***************************************************************************)
\* An append leaves the old state, whole or with a torn header after it, or
\* the new one.
LEMMA AppendedStates ==
    ASSUME SyncingCaller, ManifestsDurable, NEW op, AppendManifest(op),
           Apply(mdisk.st, op) # EmptyState
    PROVE  \A m \in Manifests' :
            /\ m.kind = "ok" /\ m.tail \in {"clean", "header"} /\ m.st # EmptyState
            /\ m.st = Apply(mdisk.st, op) \/ \E n \in Manifests : m.st = n.st
<1> DEFINE new == ManifestFile(Apply(mdisk.st, op), "clean")
           torn(k) == ManifestFile(mdisk.st, k)
<1>1. mdisk' = new /\ msurv' = msurv \cup {new} \cup {torn(k) : k \in TornKinds}
    BY DEF AppendManifest
<1>2. new.kind = "ok" /\ new.tail = "clean" /\ new.st = Apply(mdisk.st, op)
    BY DEF ManifestFile
<1>3. \A k : torn(k).kind = "ok" /\ torn(k).tail = k /\ torn(k).st = mdisk.st
    BY DEF ManifestFile
<1>4. mdisk \in Manifests /\ mdisk.st # EmptyState
    BY DEF Manifests, ManifestsDurable
<1> HIDE DEF new, torn
<1> SUFFICES ASSUME NEW m \in Manifests'
             PROVE  /\ m.kind = "ok" /\ m.tail \in {"clean", "header"} /\ m.st # EmptyState
                    /\ m.st = Apply(mdisk.st, op) \/ \E n \in Manifests : m.st = n.st
    OBVIOUS
<1>5. m \in msurv \/ m = new \/ \E k \in TornKinds : m = torn(k)
    BY <1>1 DEF Manifests
<1>6. CASE m \in msurv
    BY <1>6 DEF Manifests, ManifestsDurable
<1>7. CASE m = new
    BY <1>2, <1>7
<1>8. CASE \E k \in TornKinds : m = torn(k)
    BY <1>3, <1>4, <1>8 DEF SyncingCaller
<1> QED
    BY <1>5, <1>6, <1>7, <1>8

\* The operation in flight makes another well-formed state.
LEMMA FlushedState ==
    ASSUME StructureInv, CrashInv, Flush
    PROVE  /\ Opened /\ pc = "flush" /\ msurv = {mdisk} /\ mdisk.st = state
           /\ WellFormed(state) /\ Known(state) \subseteq SegIds
           /\ WellFormed(Apply(state, mbuf)) /\ Apply(state, mbuf) # EmptyState
           /\ OpValid(state, mbuf, next_seg_id, to_delete)
<1>1. pc = "flush" /\ mbuf # NoOp /\ mbuf.type # "CreateSegment"
    BY DEF Flush, StructureInv, ControlOk, OpAt
<1>2. Opened
    BY <1>1 DEF Opened
<1>3. msurv = {mdisk} /\ mdisk.st = state
    BY <1>1, <1>2 DEF CrashInv, ManifestsDurable, StructureInv, MemoryOk
<1>4. WellFormed(state) /\ Known(state) \subseteq SegIds /\ WellFormed(Apply(state, mbuf))
    BY <1>1, <1>2, InFlight DEF StructureInv, MemoryOk
<1>5. Apply(state, mbuf) # EmptyState
    BY <1>4 DEF WellFormed, ActiveIsLast, EmptyState
<1>6. OpValid(state, mbuf, next_seg_id, to_delete)
    BY <1>1 DEF StructureInv, ControlOk
<1> QED
    BY <1>1, <1>2, <1>3, <1>4, <1>5, <1>6

LEMMA NextManifestsDurable ==
    ASSUME SyncingCaller, StructureInv, FileInv, CrashInv, CrashNext
    PROVE  ManifestsDurable'
<1>1. ManifestsDurable /\ mdisk \in Manifests
    BY DEF CrashInv, Manifests
<1>2. ASSUME Manifests' \subseteq Manifests, pc' \notin {"sync", "fixsync"} => msurv' = {mdisk'}
      PROVE  ManifestsDurable'
    BY <1>1, <1>2 DEF ManifestsDurable
<1>3. CASE Loading \/ Recovering \/ CreateNew \/ WriteMagic \/ AppendFrames \/ CommitSync
             \/ RemoveFile \/ Beginning \/ Restart \/ UNCHANGED vars
    <2>1. /\ UNCHANGED <<mdisk, msurv>> /\ (pc \notin {"sync", "fixsync"} \/ pc' = pc)
        <3>1. CASE Loading \/ Recovering \/ UNCHANGED vars
            BY <3>1 DEF Loading, OpenClean, FixedUp, Recovering, OpenWithIssues, Attempt, vars,
                        diskVars
        <3>2. CASE CreateNew \/ WriteMagic \/ AppendFrames \/ CommitSync \/ RemoveFile
            BY <3>2 DEF CreateNew, WriteMagic, AppendFrames, AppendAfter, CommitSync, RemoveFile,
                        manifestVars
        <3>3. CASE Beginning
            BY <3>3 DEF Beginning, Write, TruncateStart, DeleteDeadSegments, WriteMetadata,
                        diskVars
        <3>4. CASE Restart
            BY <3>4 DEF Restart, diskVars, SyncingCaller
        <3> QED
            BY <1>3, <3>1, <3>2, <3>3, <3>4
    <2>2. Manifests' = Manifests
        BY <2>1 DEF Manifests
    <2> QED
        BY <1>1, <1>2, <2>1, <2>2 DEF ManifestsDurable
<1>4. CASE SyncFixOp \/ Syncing
    <2>1. mdisk' = mdisk /\ msurv' = {mdisk}
        BY <1>4 DEF SyncFixOp, Syncing, SyncRollover, SyncTruncateStart, SyncDeleted,
                    SyncMetadata, SyncManifest
    <2>2. Manifests' \subseteq Manifests
        BY <2>1 DEF Manifests
    <2> QED
        BY <1>2, <2>1, <2>2
<1>5. CASE PowerLoss
    <2>1. PICK m \in msurv : mdisk' = m /\ msurv' = {m}
        BY <1>5 DEF PowerLoss
    <2>2. Manifests' \subseteq Manifests
        BY <2>1 DEF Manifests
    <2> QED
        BY <1>2, <2>1, <2>2
<1>6. CASE Flush
    <2>1. AppendManifest(mbuf) /\ pc' = "sync"
        BY <1>6 DEF Flush, Goto
    <2> QED
        BY <1>1, <1>6, <2>1, FlushedState, AppendedStates DEF ManifestsDurable
<1>7. CASE Fixing
    <2>1. PICK fix \in scan(mdisk, disk) :
            /\ TruncateManifest(fix) \/ TruncateSegment(fix) \/ AppendFixOp(fix)
            /\ pc = "fix" /\ mbuf = NoOp /\ msurv = {mdisk}
            /\ AppendFixOp(fix) => mdisk.tail = "clean"
        BY <1>7, FixSteps
    <2>2. CASE TruncateManifest(fix)
        <3>1. mdisk' = ManifestFile(mdisk.st, "clean") /\ msurv' = {mdisk'}
            BY <2>2 DEF TruncateManifest
        <3>2. mdisk'.kind = "ok" /\ mdisk'.tail = "clean" /\ mdisk'.st # EmptyState
            BY <1>1, <3>1 DEF ManifestFile, ManifestsDurable
        <3> QED
            BY <3>1, <3>2 DEF ManifestsDurable, Manifests
    <2>3. CASE TruncateSegment(fix)
        <3>1. UNCHANGED <<mdisk, msurv>>
            BY <2>3 DEF TruncateSegment, manifestVars
        <3> QED
            BY <1>2, <2>1, <3>1 DEF Manifests
    <2>4. CASE AppendFixOp(fix)
        <3>1. /\ AppendManifest(mbuf') /\ pc' = "fixsync"
              /\ \/ fix.issue = "OrphanSegmentFound" /\ mbuf' = RecordOrphanOp(fix.id)
                 \/ fix.issue = "DeadSegmentNotFound" /\ mbuf' = SegmentDeletedOp(fix.id)
            BY <2>4 DEF AppendFixOp, Goto
        <3>2. Fits(Apply(mdisk.st, mbuf'), disk)
            BY <1>1, <2>1, <2>4, <3>1, DiskFits, FixedOp
        <3>3. Apply(mdisk.st, mbuf') # EmptyState
            BY <3>2 DEF Fits, WellFormed, ActiveIsLast, EmptyState
        <3>4. \A m \in Manifests' :
                m.kind = "ok" /\ m.tail \in {"clean", "header"} /\ m.st # EmptyState
            BY <1>1, <3>1, <3>3, AppendedStates
        <3> QED
            BY <3>1, <3>4 DEF ManifestsDurable
    <2> QED
        BY <2>1, <2>2, <2>3, <2>4
<1> QED
    BY <1>3, <1>4, <1>5, <1>6, <1>7 DEF CrashNext

-----------------------------------------------------------------------------
\* FsyncEntry: sync_all leaves one outcome.
LEMMA SyncedIs ==
    ASSUME SyncingCaller, NEW file, NEW outcomes
    PROVE  Synced(file, outcomes) = {file}
    BY DEF SyncingCaller, Synced

\* The files that a step changes, and into what.
LEMMA FilesChange ==
    ASSUME SyncingCaller, StructureInv, FileInv, CrashInv, CrashNext
    PROVE  \/ UNCHANGED <<disk, surv>>
           \/ PowerLoss
           \/ AppendFrames
           \/ \E id \in SegIds :
                /\ \A x \in SegIds : x # id => disk'[x] = disk[x] /\ surv'[x] = surv[x]
                /\ UNCHANGED <<mdisk, msurv>> /\ msurv = {mdisk}
                /\ \/ /\ CreateNew \/ WriteMagic \/ RemoveFile
                      /\ Opened /\ pc # "sync" /\ id \notin Live(state)
                      /\ disk'[id].frames = <<>>
                      /\ surv'[id] \subseteq surv[id] \cup {disk'[id]}
                      /\ ~RemoveFile =>
                            /\ id = next_seg_id /\ mbuf' = mbuf
                            /\ pc' # "magic" =>
                                disk'[id] = SegmentFile(<<>>, FALSE) /\ surv'[id] = {disk'[id]}
                   \/ /\ CommitSync /\ Opened /\ pc = "commit" /\ id = active_id
                      /\ disk'[id] = disk[id] /\ surv'[id] = {disk[id]}
                   \/ /\ Fixing /\ pc = "fix" /\ pc' = "fix" /\ id = mdisk.st.active_segment_id
                      /\ disk'[id] = SegmentFile(disk[id].frames, FALSE)
                      /\ surv'[id] = {disk'[id]}
<1>1. DiskTyped /\ ManifestsDurable /\ ControlDurable /\ NewFileOk
    BY DEF FileInv, CrashInv
<1>2. CASE Loading \/ Recovering \/ UNCHANGED vars
    BY <1>2 DEF Loading, OpenClean, FixedUp, Recovering, OpenWithIssues, Attempt, vars, diskVars
<1>3. CASE SyncFixOp \/ Flush \/ Syncing \/ Beginning \/ Restart
    BY <1>3 DEF SyncFixOp, Flush, Syncing, SyncRollover, SyncTruncateStart, SyncDeleted,
                SyncMetadata, Beginning, Write, TruncateStart, DeleteDeadSegments,
                WriteMetadata, Restart, diskVars, segmentVars
<1>4. CASE CreateNew \/ WriteMagic
    <2>1. /\ pc \in {"create", "magic"} /\ mbuf' = mbuf /\ UNCHANGED <<mdisk, msurv>>
          /\ \/ pc' = "magic" /\ SetSegment(creating, NoMagicFile, surv[creating] \cup {NoMagicFile})
             \/ /\ SetSegment(creating, SegmentFile(<<>>, FALSE), {SegmentFile(<<>>, FALSE)})
        BY <1>4, SyncedIs DEF CreateNew, WriteMagic, manifestVars, callVars, Goto
    <2>2. mbuf.type = "RollSegment" /\ creating \in SegIds /\ creating = next_seg_id
        BY <1>1, <2>1 DEF ControlDurable, NewFileOk
    <2>3. Opened
        BY <2>1, <2>2 DEF Opened, NoOp
    <2>4. next_seg_id \notin Live(state)
        BY <2>3, OpenFacts DEF Known
    <2>5. /\ NoMagicFile.frames = <<>> /\ SegmentFile(<<>>, FALSE).frames = <<>>
        BY DEF NoMagicFile, SegmentFile
    <2>6. /\ \A x \in SegIds : x # creating => disk'[x] = disk[x] /\ surv'[x] = surv[x]
          /\ disk'[creating].frames = <<>>
          /\ surv'[creating] \subseteq surv[creating] \cup {disk'[creating]}
          /\ pc' # "magic" => /\ disk'[creating] = SegmentFile(<<>>, FALSE)
                              /\ surv'[creating] = {disk'[creating]}
        BY <1>1, <2>1, <2>2, <2>5 DEF SetSegment, DiskTyped
    <2>7. ~RemoveFile /\ pc # "sync" /\ msurv = {mdisk}
        BY <1>1, <2>1 DEF RemoveFile, ManifestsDurable
    <2> QED
        BY <1>4, <2>1, <2>2, <2>3, <2>4, <2>6, <2>7
<1>5. CASE RemoveFile
    <2>1. PICK id \in to_delete : SetSegment(id, AbsentFile, surv[id] \cup {AbsentFile})
        BY <1>5 DEF RemoveFile
    <2>2. Opened /\ pc = "delete" /\ UNCHANGED <<mdisk, msurv>>
        BY <1>5 DEF RemoveFile, Opened, manifestVars
    <2>3. id \in state.dead /\ id \in SegIds /\ id \notin Live(state)
        BY <2>2, OpenFacts DEF Known, WellFormed, DeadNotLive
    <2>4. /\ \A x \in SegIds : x # id => disk'[x] = disk[x] /\ surv'[x] = surv[x]
          /\ disk'[id] = AbsentFile /\ surv'[id] = surv[id] \cup {AbsentFile}
        BY <1>1, <2>1, <2>3 DEF SetSegment, DiskTyped
    <2>5. AbsentFile.frames = <<>>
        BY DEF AbsentFile
    <2> QED
        BY <1>1, <1>5, <2>2, <2>3, <2>4, <2>5 DEF ManifestsDurable
<1>6. CASE CommitSync
    <2>1. Opened /\ pc = "commit" /\ UNCHANGED <<mdisk, msurv>>
          /\ SetSegment(active_id, disk[active_id], {disk[active_id]})
        BY <1>6, SyncedIs DEF CommitSync, SyncSegment, Opened, manifestVars
    <2>2. active_id \in SegIds
        BY <2>1, OpenFacts
    <2>3. /\ \A x \in SegIds : x # active_id => disk'[x] = disk[x] /\ surv'[x] = surv[x]
          /\ disk'[active_id] = disk[active_id] /\ surv'[active_id] = {disk[active_id]}
        BY <1>1, <2>1, <2>2 DEF SetSegment, DiskTyped
    <2> QED
        BY <1>1, <1>6, <2>1, <2>2, <2>3 DEF ManifestsDurable
<1>7. CASE Fixing
    <2>1. PICK fix \in scan(mdisk, disk) :
            /\ TruncateManifest(fix) \/ TruncateSegment(fix) \/ AppendFixOp(fix)
            /\ pc = "fix" /\ msurv = {mdisk}
        BY <1>7, FixSteps
    <2>2. CASE TruncateManifest(fix) \/ AppendFixOp(fix)
        BY <2>2 DEF TruncateManifest, AppendFixOp, segmentVars
    <2>3. CASE TruncateSegment(fix)
        <3>1. /\ fix.issue \in {"ActiveSegmentTornTail", "SealedSegmentChecksumCorrupt"}
              /\ UNCHANGED <<mdisk, msurv>> /\ pc' = "fix"
              /\ LET file == SegmentFile(SetLen(disk[fix.id].frames, fix.at), FALSE)
                 IN  SetSegment(fix.id, file, {file})
            BY <2>3, SyncedIs DEF TruncateSegment, manifestVars, Goto
        <3>2. mdisk \in Manifests
            BY DEF Manifests
        <3>3. fix.issue = "ActiveSegmentTornTail"
            BY <3>1, <3>2, DiskFits, CrashIssues DEF AutoFixed
        <3>4. fix.id = mdisk.st.active_segment_id /\ fix.at = Len(disk[fix.id].frames)
            <4>1. /\ mdisk.kind = "ok" /\ mdisk.tail \in {"clean", "header"}
                  /\ Fits(mdisk.st, disk)
                BY <3>2, DiskFits
            <4>2. fix \in ActiveTail(mdisk.st, disk)
                BY <3>3, <4>1, ScanAfterCrash, IssueNames
            <4> QED
                BY <4>2 DEF ActiveTail, Issue
        <3>5. fix.id \in SegIds
            BY <1>1, <3>2, <3>4, ManifestFacts, LiveFacts
        <3>6. SetLen(disk[fix.id].frames, fix.at) = disk[fix.id].frames
            <4>1. disk[fix.id].frames \in Seq(FrameType)
                BY <1>1, <3>5 DEF DiskTyped, FileType
            <4> QED
                BY <3>4, <4>1, SetLenSame
        <3>7. /\ \A x \in SegIds : x # fix.id => disk'[x] = disk[x] /\ surv'[x] = surv[x]
              /\ disk'[fix.id] = SegmentFile(disk[fix.id].frames, FALSE)
              /\ surv'[fix.id] = {disk'[fix.id]}
            BY <1>1, <3>1, <3>5, <3>6 DEF SetSegment, DiskTyped
        <3> QED
            BY <1>7, <2>1, <3>1, <3>4, <3>5, <3>7
    <2> QED
        BY <2>1, <2>2, <2>3
<1> QED
    BY <1>2, <1>3, <1>4, <1>5, <1>6, <1>7 DEF CrashNext

\* But for an append, a file that no manifest leaves out stays what it was.
LEMMA FilesStand ==
    ASSUME SyncingCaller, StructureInv, FileInv, FileInv', CrashInv, CrashNext, ~AppendFrames,
           NEW id \in SegIds, NEW g \in Outcomes'[id]
    PROVE  \/ \E f \in Outcomes[id] : Stands(g, f)
           \/ /\ g.frames = <<>> /\ id \notin Live(mdisk.st)
              /\ UNCHANGED <<mdisk, msurv>> /\ msurv = {mdisk}
<1>1. DiskTyped /\ DiskTyped'
    BY DEF FileInv
<1>2. \A f : Stands(f, f)
    BY DEF Stands
<1>3. g \in surv'[id] \/ g = disk'[id]
    BY <1>1, OutcomesArePrimed
<1>4. \A f : f \in surv[id] \/ f = disk[id] => f \in Outcomes[id]
    BY <1>1, OutcomesAre
<1>5. CASE UNCHANGED <<disk, surv>>
    BY <1>2, <1>3, <1>4, <1>5
<1>6. CASE PowerLoss
    <2>1. disk'[id] \in surv[id] /\ surv'[id] = {disk'[id]}
        BY <1>6 DEF PowerLoss
    <2> QED
        BY <1>2, <1>3, <1>4, <2>1
<1>7. ASSUME NEW x \in SegIds,
             \A y \in SegIds : y # x => disk'[y] = disk[y] /\ surv'[y] = surv[y],
             UNCHANGED <<mdisk, msurv>>, msurv = {mdisk},
             Opened, pc # "sync", x \notin Live(state), disk'[x].frames = <<>>,
             surv'[x] \subseteq surv[x] \cup {disk'[x]}
      PROVE  \/ \E f \in Outcomes[id] : Stands(g, f)
             \/ /\ g.frames = <<>> /\ id \notin Live(mdisk.st)
                /\ UNCHANGED <<mdisk, msurv>> /\ msurv = {mdisk}
    <2>1. mdisk.st = state
        BY <1>7 DEF StructureInv, MemoryOk
    <2>2. CASE id # x
        BY <1>2, <1>3, <1>4, <1>7, <2>2
    <2>3. CASE id = x /\ g = disk'[id]
        BY <1>7, <2>1, <2>3
    <2>4. CASE id = x /\ g # disk'[id]
        BY <1>2, <1>3, <1>4, <1>7, <2>4
    <2> QED
        BY <2>2, <2>3, <2>4
<1>8. ASSUME NEW x \in SegIds,
             \A y \in SegIds : y # x => disk'[y] = disk[y] /\ surv'[y] = surv[y],
             disk'[x] = disk[x] \/ disk'[x] = SegmentFile(disk[x].frames, FALSE),
             surv'[x] = {disk'[x]}
      PROVE  \E f \in Outcomes[id] : Stands(g, f)
    <2>1. CASE id # x
        BY <1>2, <1>3, <1>4, <1>8, <2>1
    <2>2. CASE id = x
        <3>1. g = disk[x] \/ g = SegmentFile(disk[x].frames, FALSE)
            BY <1>3, <1>8, <2>2
        <3>2. Stands(g, disk[x])
            BY <3>1 DEF Stands, SegmentFile
        <3> QED
            BY <1>4, <2>2, <3>2
    <2> QED
        BY <2>1, <2>2
<1> QED
    BY <1>5, <1>6, <1>7, <1>8, FilesChange

\* An append to the active file, and what a power loss may leave of it.
LEMMA AppendedFiles ==
    ASSUME StructureInv, FileInv, CrashInv, AppendFrames
    PROVE  /\ Opened /\ pc = "append" /\ pc' = "commit" /\ active_id \in Live(state)
           /\ mbuf = NoOp /\ UNCHANGED <<mdisk, msurv>> /\ msurv = {mdisk} /\ mdisk.st = state
           /\ active_id \in SegIds /\ active_id = state.active_segment_id
           /\ buf \in Seq(FrameType) /\ buf # <<>> /\ Len(buf) \in Nat
           /\ \A i \in DOMAIN buf : buf[i].ok
           /\ Ascending(buf) /\ \A y \in Ids(buf) : y \in Nat /\ y > last_entry_id /\ y >= state.first_entry
           /\ disk[active_id].frames \in Seq(FrameType)
           /\ \A x \in SegIds : x # active_id => disk'[x] = disk[x] /\ surv'[x] = surv[x]
           /\ disk'[active_id] = SegmentFile(disk[active_id].frames \o buf, FALSE)
           /\ \A g \in surv'[active_id] \cup {disk'[active_id]} :
                \/ g \in Outcomes[active_id]
                \/ /\ g.kind = "ok"
                   /\ \E n \in 0..Len(buf) : g.frames = disk[active_id].frames \o SubSeq(buf, 1, n)
<1> DEFINE file == disk[active_id]
<1>1. DiskTyped /\ MemoryTyped /\ CallTyped /\ CursorOk
    BY DEF FileInv
<1>2. /\ pc = "append" /\ pc' = "commit" /\ UNCHANGED <<mdisk, msurv>>
      /\ SetSegment(active_id,
            SegmentFile(WriteAt(file.frames, position, <<>> \o buf), FALSE),
            surv[active_id] \cup AppendOutcomes(file, position, <<>> \o buf))
    BY DEF AppendFrames, AppendAfter, Goto, manifestVars
<1>3. Opened /\ mbuf = NoOp
    BY <1>2 DEF Opened, StructureInv, ControlOk, NoOpAt
<1>4. active_id \in Live(state) /\ active_id \in SegIds /\ active_id = state.active_segment_id
    BY <1>3, OpenFacts
<1>5. msurv = {mdisk} /\ mdisk.st = state
    BY <1>2, <1>3 DEF CrashInv, ManifestsDurable, StructureInv, MemoryOk
<1>6. file \in FileType /\ file.frames \in Seq(FrameType) /\ Len(file.frames) \in Nat
    BY <1>1, <1>4 DEF DiskTyped, FileType
<1>7. position = Len(file.frames)
    <2>1. mbuf.type # "TruncateEnd"
        BY <1>3 DEF NoOp
    <2> QED
        BY <1>1, <1>3, <2>1 DEF CursorOk
<1>8. /\ buf \in Seq(FrameType) /\ buf # <<>> /\ Len(buf) \in Nat /\ <<>> \o buf = buf
      /\ \A i \in DOMAIN buf : buf[i].ok
    BY <1>1, <1>2 DEF CallTyped
<1>9. WriteAt(file.frames, position, <<>> \o buf) = file.frames \o buf
    BY <1>6, <1>7, <1>8, WriteAtType
<1>10. /\ Ascending(buf) /\ buf[1].id > last_entry_id /\ buf[1].id >= state.first_entry
    BY <1>2 DEF CrashInv, CallDurable
<1>11. ASSUME NEW y \in Ids(buf) PROVE y \in Nat /\ y > last_entry_id /\ y >= state.first_entry
    <2>1. PICK i \in DOMAIN buf : y = buf[i].id
        BY DEF Ids
    <2>2. DOMAIN buf = 1..Len(buf) /\ 1 \in DOMAIN buf
        BY <1>8, EmptySeq
    <2>3. \A j \in DOMAIN buf : buf[j].id \in Nat
        BY <1>8, BoundsAssumption DEF FrameType
    <2>4. last_entry_id \in Nat /\ state.first_entry \in Nat
        BY <1>1, <1>3, OpenFacts, BoundsAssumption DEF MemoryTyped, WellFormed, StateShape
    <2>5. i = 1 \/ buf[1].id < buf[i].id
        BY <1>8, <1>10, <2>2 DEF Ascending
    <2> QED
        BY <1>10, <2>1, <2>2, <2>3, <2>4, <2>5
<1>12. /\ \A x \in SegIds : x # active_id => disk'[x] = disk[x] /\ surv'[x] = surv[x]
       /\ disk'[active_id] = SegmentFile(file.frames \o buf, FALSE)
       /\ surv'[active_id] = surv[active_id] \cup AppendOutcomes(file, position, <<>> \o buf)
    BY <1>1, <1>2, <1>4, <1>9 DEF SetSegment, DiskTyped
<1>13. ASSUME NEW g \in surv'[active_id] \cup {disk'[active_id]}
       PROVE  \/ g \in Outcomes[active_id]
              \/ /\ g.kind = "ok"
                 /\ \E n \in 0..Len(buf) : g.frames = file.frames \o SubSeq(buf, 1, n)
    <2>1. CASE g \in surv[active_id]
        BY <1>1, <1>4, <2>1, OutcomesAre
    <2>2. CASE g \in AppendOutcomes(file, position, <<>> \o buf)
        BY <1>6, <1>7, <1>8, <2>2, AppendLeaves
    <2>3. CASE g = disk'[active_id]
        <3>1. g.kind = "ok" /\ g.frames = file.frames \o buf
            BY <1>12, <2>3 DEF SegmentFile
        <3>2. SubSeq(buf, 1, Len(buf)) = buf /\ Len(buf) \in 0..Len(buf)
            BY <1>8
        <3> QED
            BY <3>1, <3>2
    <2> QED
        BY <1>12, <2>1, <2>2, <2>3
<1> QED
    BY <1>2, <1>3, <1>4, <1>5, <1>6, <1>8, <1>10, <1>11, <1>12, <1>13

\* ... and the entries of it.
LEMMA AppendedEntries ==
    ASSUME StructureInv, FileInv, CrashInv, AppendFrames,
           NEW g \in surv'[active_id] \cup {disk'[active_id]}
    PROVE  /\ g.kind = "ok" /\ (\A i \in DOMAIN g.frames : g.frames[i].ok) /\ Ascending(g.frames)
           /\ Ids(disk[active_id].frames) \subseteq Ids(g.frames)
           /\ Ids(g.frames) \subseteq Ids(disk[active_id].frames) \cup Ids(buf)
<1> DEFINE F == disk[active_id].frames
<1>1. /\ Opened /\ active_id \in Live(state) /\ active_id \in SegIds /\ pc = "append"
      /\ active_id = state.active_segment_id /\ mdisk.st = state
      /\ buf \in Seq(FrameType) /\ Ascending(buf) /\ \A i \in DOMAIN buf : buf[i].ok
      /\ \A y \in Ids(buf) : y \in Nat /\ y > last_entry_id
      /\ F \in Seq(FrameType)
    BY AppendedFiles
<1>2. DiskTyped /\ disk[active_id] \in Outcomes[active_id] /\ Outcomes[active_id] = {disk[active_id]}
    BY <1>1, OutcomesAre DEF FileInv, CrashInv, ActiveDurable
<1>3. (\A i \in DOMAIN F : F[i].ok) /\ Ascending(F)
    BY <1>1, <1>2 DEF CrashInv, FramesDurable
<1>4. disk[active_id].kind = "ok"
    <2>1. mdisk \in Manifests
        BY DEF Manifests
    <2> QED
        BY <1>1, <2>1, DiskFits DEF Fits
<1>5. \A x \in Ids(F) : x <= last_entry_id /\ x \in Nat
    <2>1. \A x \in Ids(F) : x <= last_entry_id
        BY <1>1, <1>2 DEF CrashInv, LogHeld
    <2>2. disk[active_id] \in FileType
        BY <1>1, <1>2, OutcomesAre
    <2> QED
        BY <2>1, <2>2, IdsNat
<1>6. CASE g \in Outcomes[active_id]
    BY <1>2, <1>3, <1>4, <1>6
<1>7. CASE g.kind = "ok" /\ \E n \in 0..Len(buf) : g.frames = F \o SubSeq(buf, 1, n)
    <2>1. PICK n \in 0..Len(buf) : g.frames = F \o SubSeq(buf, 1, n)
        BY <1>7
    <2> DEFINE P == SubSeq(buf, 1, n)
    <2>2. /\ P \in Seq(FrameType) /\ Ascending(P)
          /\ \A i \in DOMAIN P : i \in DOMAIN buf /\ P[i] = buf[i]
        BY <1>1, PrefixAscending
    <2> HIDE DEF P, F
    <2>3. Ids(P) \subseteq Ids(buf) /\ \A i \in DOMAIN P : P[i].ok
        BY <1>1, <2>2 DEF Ids
    <2>4. \A i \in DOMAIN F, j \in DOMAIN P : F[i].id < P[j].id
        <3> SUFFICES ASSUME NEW i \in DOMAIN F, NEW j \in DOMAIN P PROVE F[i].id < P[j].id
            OBVIOUS
        <3>1. F[i].id \in Ids(F) /\ P[j].id \in Ids(buf)
            BY <2>2 DEF Ids
        <3>2. last_entry_id \in Nat
            BY BoundsAssumption DEF FileInv, MemoryTyped
        <3> QED
            BY <1>1, <1>5, <3>1, <3>2
    <2>5. Ascending(F \o P)
        BY <1>1, <1>3, <2>2, <2>4, AscendingConcat
    <2>6. Ids(F \o P) = Ids(F) \cup Ids(P) /\ \A i \in DOMAIN (F \o P) : (F \o P)[i].ok
        BY <1>1, <1>3, <2>2, <2>3, IdsConcat
    <2>7. g.frames = F \o P
        BY <2>1 DEF P
    <2> QED
        BY <1>7, <2>3, <2>5, <2>6, <2>7 DEF F
<1> QED
    BY <1>6, <1>7, AppendedFiles

\* Frames are only ever appended, whole and in order.
LEMMA NextFramesDurable ==
    ASSUME SyncingCaller, StructureInv, FileInv, FileInv', CrashInv, CrashNext
    PROVE  FramesDurable'
<1> SUFFICES ASSUME NEW id \in SegIds, NEW g \in Outcomes'[id]
             PROVE  (\A i \in DOMAIN g.frames : g.frames[i].ok) /\ Ascending(g.frames)
    BY DEF FramesDurable
<1>1. \A f \in Outcomes[id] : (\A i \in DOMAIN f.frames : f.frames[i].ok) /\ Ascending(f.frames)
    BY DEF CrashInv, FramesDurable
<1>2. Outcomes[id] = surv[id] \cup {disk[id]} /\ Outcomes'[id] = surv'[id] \cup {disk'[id]}
    BY OutcomesAre, OutcomesArePrimed DEF FileInv
<1>3. CASE AppendFrames
    <2>1. CASE id = active_id
        BY <1>2, <1>3, <2>1, AppendedEntries
    <2>2. CASE id # active_id
        BY <1>1, <1>2, <1>3, <2>2, AppendedFiles
    <2> QED
        BY <2>1, <2>2
<1>4. CASE ~AppendFrames
    <2>1. (\E f \in Outcomes[id] : Stands(g, f)) \/ g.frames = <<>>
        BY <1>4, FilesStand
    <2>2. CASE g.frames = <<>>
        BY <2>2 DEF Ascending
    <2> QED
        BY <1>1, <2>1, <2>2 DEF Stands
<1> QED
    BY <1>3, <1>4

\* A step after which every state a failure may leave was one before.
LEMMA StatesKept ==
    ASSUME SyncingCaller, StructureInv, FileInv, FileInv', CrashInv, CrashNext, ~AppendFrames,
           NEW m \in Manifests, acked' = acked
    PROVE  Durable(m.st, Outcomes', acked')
<1>1. WellFormed(m.st) /\ Live(m.st) \subseteq SegIds
    BY ManifestFacts DEF CrashInv
<1>2. Durable(m.st, Outcomes, acked)
    BY DEF CrashInv, StatesDurable
<1>3. ASSUME NEW id \in Live(m.st), NEW g \in Outcomes'[id]
      PROVE  \E f \in Outcomes[id] : Stands(g, f)
    <2>1. \/ \E f \in Outcomes[id] : Stands(g, f)
          \/ id \notin Live(mdisk.st) /\ msurv = {mdisk}
        BY <1>1, <1>3, FilesStand
    <2> QED
        BY <2>1 DEF Manifests
<1>4. \A id \in Live(m.st) : \A f \in Outcomes[id] : f.torn \in BOOLEAN
    BY <1>1, OutcomesAre DEF FileInv, FileType
<1> QED
    BY <1>1, <1>2, <1>3, <1>4, DurableKept

\* A commit acknowledges what is in the active file, which is then synced.
LEMMA CommittedStates ==
    ASSUME SyncingCaller, StructureInv, FileInv, FileInv', CrashInv, CommitSync
    PROVE  StatesDurable'
<1>1. /\ Opened /\ pc = "commit" /\ active_id \in SegIds /\ active_id \in Live(state)
      /\ msurv = {mdisk} /\ mdisk.st = state /\ WellFormed(state)
    <2>1. Opened /\ pc = "commit"
        BY DEF CommitSync, Opened
    <2> QED
        BY <2>1, OpenFacts DEF StructureInv, MemoryOk, CrashInv, ManifestsDurable
<1>2. UNCHANGED <<mdisk, msurv>> /\ acked' = acked \cup (log \cap Ids(disk[active_id].frames))
    BY DEF CommitSync, manifestVars
<1>3. /\ disk'[active_id] = disk[active_id] /\ surv'[active_id] = {disk[active_id]}
      /\ \A x \in SegIds : x # active_id => disk'[x] = disk[x] /\ surv'[x] = surv[x]
    <2>1. disk[active_id] \in FileType /\ DiskTyped
        BY <1>1, OutcomesAre DEF FileInv
    <2>2. SetSegment(active_id, disk[active_id], {disk[active_id]})
        BY SyncedIs DEF CommitSync, SyncSegment
    <2> QED
        BY <1>1, <2>1, <2>2, SetSegmentIs
<1>4. Outcomes'[active_id] = {disk[active_id]}
    BY <1>1, <1>3, OutcomesArePrimed DEF FileInv
<1>5. Durable(state, Outcomes', acked)
    <2>1. ASSUME NEW id \in Live(state), NEW g \in Outcomes'[id]
          PROVE  \E f \in Outcomes[id] : Stands(g, f)
        <3>1. id \in SegIds
            BY <1>1, OpenFacts
        <3>2. g \in Outcomes[id]
            BY <1>3, <1>4, <3>1, OutcomesAre, OutcomesArePrimed DEF FileInv
        <3> QED
            BY <3>2 DEF Stands
    <2>2. \A id \in Live(state) : \A f \in Outcomes[id] : f.torn \in BOOLEAN
        BY <1>1, OpenFacts, OutcomesAre DEF FileInv, FileType
    <2>3. Durable(state, Outcomes, acked)
        BY <1>1 DEF CrashInv, StatesDurable, Manifests
    <2> QED
        BY <1>1, <2>1, <2>2, <2>3, DurableKept
<1>6. EntriesHeld(state, Outcomes', acked')
    BY <1>1, <1>2, <1>4, <1>5 DEF Durable, EntriesHeld
<1>7. Durable(state, Outcomes', acked')
    BY <1>5, <1>6 DEF Durable
<1> QED
    BY <1>1, <1>2, <1>7 DEF StatesDurable, Manifests

\* The operation in flight keeps a state durable.
LEMMA FlushedDurable ==
    ASSUME StructureInv, FileInv, CrashInv, Flush
    PROVE  Durable(Apply(state, mbuf), Outcomes, acked)
<1>1. /\ Opened /\ pc = "flush" /\ mdisk.st = state /\ WellFormed(state)
      /\ OpValid(state, mbuf, next_seg_id, to_delete)
    BY FlushedState
<1>2. Durable(state, Outcomes, acked)
    BY <1>1 DEF CrashInv, StatesDurable, Manifests
<1>3. Live(state) \subseteq SegIds /\ active_id \in SegIds /\ active_id = state.active_segment_id
    BY <1>1, OpenFacts
<1>4. CASE mbuf.type = "RollSegment"
    <2>1. mbuf.sealed_id = state.active_segment_id /\ mbuf.new_id = next_seg_id
        <3>1. mbuf = RollSegmentOp(state.active_segment_id, mbuf.seal, next_seg_id,
                                   mbuf.new_first_entry)
            BY <1>1, <1>4 DEF OpValid
        <3> QED
            BY <3>1 DEF RollSegmentOp
    <2>2. Outcomes[next_seg_id] = {SegmentFile(<<>>, FALSE)} /\ MatchesSeal(disk[active_id], mbuf.seal)
        BY <1>1, <1>4 DEF CrashInv, CallDurable
    <2>3. Outcomes[active_id] = {disk[active_id]}
        BY <1>1 DEF CrashInv, ActiveDurable
    <2> QED
        BY <1>1, <1>2, <1>3, <1>4, <2>1, <2>2, <2>3, DurableRolled
<1>5. CASE mbuf.type = "TruncateStart"
    <2>1. /\ mbuf.first_entry \in Nat /\ mbuf.first_entry >= state.first_entry
          /\ mbuf.drop \subseteq DOMAIN state.seals
        BY <1>1, <1>5 DEF OpValid
    <2>2. \A id \in mbuf.drop : state.seals[id].last_entry < mbuf.first_entry
        BY <1>5 DEF CrashInv, CallDurable
    <2>3. \A id \in Live(state) :
            /\ Outcomes[id] # {} /\ Outcomes[id] \subseteq FileType
            /\ \A f \in Outcomes[id] : Ascending(f.frames)
        BY <1>3, OutcomesAre DEF FileInv, CrashInv, FramesDurable
    <2>4. acked \subseteq Nat
        BY BoundsAssumption DEF FileInv, HistoryTyped
    <2> QED
        BY <1>1, <1>2, <1>5, <2>1, <2>2, <2>3, <2>4, DurableTruncated
<1>6. CASE mbuf.type \in {"SegmentDeleted", "Metadata"}
    BY <1>2, <1>6, ApplySame, DurableSame
<1>7. mbuf.type \in {"RollSegment", "TruncateStart", "SegmentDeleted", "Metadata"}
    <2>1. mbuf.type # "TruncateEnd"
        BY DEF CrashInv, ControlDurable
    <2> QED
        BY <1>1, <2>1 DEF OpValid
<1> QED
    BY <1>4, <1>5, <1>6, <1>7

\* A batch goes after everything that the live segments hold.
LEMMA AppendedDurable ==
    ASSUME StructureInv, FileInv, FileInv', CrashInv, AppendFrames
    PROVE  Durable(state, Outcomes', acked)
<1>1. /\ Opened /\ pc = "append" /\ mdisk.st = state
      /\ active_id \in SegIds /\ active_id = state.active_segment_id
      /\ \A y \in Ids(buf) : y \in Nat /\ y > last_entry_id
      /\ \A x \in SegIds : x # active_id => disk'[x] = disk[x] /\ surv'[x] = surv[x]
    BY AppendedFiles
<1>2. Live(state) \subseteq SegIds /\ WellFormed(state)
    BY <1>1, OpenFacts
<1>3. Durable(state, Outcomes, acked)
    BY <1>1 DEF CrashInv, StatesDurable, Manifests
<1>4. \A id \in Live(state) : Outcomes[id] # {} /\ Outcomes[id] \subseteq FileType
    BY <1>2, OutcomesAre DEF FileInv
<1>5. last_entry_id \in Nat
    BY BoundsAssumption DEF FileInv, MemoryTyped
<1>6. \A id \in Live(state) : \A f \in Outcomes[id] : \A x \in Ids(f.frames) : x <= last_entry_id
    BY <1>1 DEF CrashInv, LogHeld
<1>7. ASSUME NEW id \in Live(state), id # active_id
      PROVE  Outcomes'[id] = Outcomes[id]
    <2>1. id \in SegIds /\ DiskTyped /\ DiskTyped'
        BY <1>2 DEF FileInv
    <2>2. Outcomes[id] = surv[id] \cup {disk[id]}
        BY <2>1, OutcomesAre
    <2>3. Outcomes'[id] = surv'[id] \cup {disk'[id]}
        BY <2>1, OutcomesArePrimed
    <2> QED
        BY <1>1, <1>7, <2>1, <2>2, <2>3
<1>8. Outcomes[active_id] = {disk[active_id]}
    BY <1>1 DEF CrashInv, ActiveDurable
<1>9. Outcomes'[active_id] = surv'[active_id] \cup {disk'[active_id]}
    BY <1>1, OutcomesArePrimed DEF FileInv
<1>10. ASSUME NEW g \in Outcomes'[active_id]
       PROVE  /\ g.kind = "ok"
              /\ \E f \in Outcomes[active_id] : Ids(f.frames) \subseteq Ids(g.frames)
              /\ \A y \in Ids(g.frames) :
                    \/ y \in Nat /\ y > last_entry_id
                    \/ \E f \in Outcomes[active_id] : y \in Ids(f.frames)
    BY <1>1, <1>8, <1>9, <1>10, AppendedEntries
<1>11. \A f, h \in Outcomes[state.active_segment_id] : f = h
    BY <1>1, <1>8
<1>12. \A id \in Live(state) : id # state.active_segment_id => Outcomes'[id] = Outcomes[id]
    BY <1>1, <1>7
<1>13. \A g \in Outcomes'[state.active_segment_id] :
         /\ g.kind = "ok"
         /\ \E f \in Outcomes[state.active_segment_id] : Ids(f.frames) \subseteq Ids(g.frames)
         /\ \A y \in Ids(g.frames) :
               \/ y \in Nat /\ y > last_entry_id
               \/ \E f \in Outcomes[state.active_segment_id] : y \in Ids(f.frames)
    BY <1>1, <1>10
<1> QED
    BY <1>2, <1>3, <1>4, <1>5, <1>6, <1>11, <1>12, <1>13, DurableExtended

\* Whatever a power loss leaves after the step, fits and holds what was
\* acknowledged.
LEMMA NextStatesDurable ==
    ASSUME SyncingCaller, StructureInv, FileInv, FileInv', CrashInv, CrashNext
    PROVE  StatesDurable'
<1>1. mdisk \in Manifests /\ ManifestsDurable
    BY DEF Manifests, CrashInv
<1>2. ASSUME ~AppendFrames, acked' = acked,
             \A m \in Manifests' : \E n \in Manifests : m.st = n.st
      PROVE  StatesDurable'
    BY <1>2, StatesKept DEF StatesDurable
<1>3. CASE /\ ~AppendFrames
           /\ \/ Loading \/ Recovering \/ CreateNew \/ WriteMagic \/ RemoveFile \/ SyncFixOp
              \/ Syncing \/ Beginning \/ PowerLoss \/ Restart \/ UNCHANGED vars
    <2>1. acked' = acked
        <3>1. CASE Loading \/ Recovering \/ UNCHANGED vars
            BY <3>1 DEF Loading, OpenClean, FixedUp, Recovering, OpenWithIssues, Attempt, vars
        <3>2. CASE CreateNew \/ WriteMagic \/ RemoveFile \/ SyncFixOp \/ PowerLoss \/ Restart
            BY <3>2 DEF CreateNew, WriteMagic, RemoveFile, SyncFixOp, PowerLoss, Restart
        <3>3. CASE Beginning
            BY <3>3 DEF Beginning, Write, TruncateStart, DeleteDeadSegments, WriteMetadata
        <3>4. CASE Syncing
            BY <3>4 DEF Syncing, SyncRollover, SyncTruncateStart, SyncDeleted, SyncMetadata
        <3> QED
            BY <1>3, <3>1, <3>2, <3>3, <3>4
    <2>2. Manifests' \subseteq Manifests
        <3>1. CASE Loading \/ Recovering \/ UNCHANGED vars
            BY <3>1 DEF Loading, OpenClean, FixedUp, Recovering, OpenWithIssues, Attempt, vars,
                        diskVars, Manifests
        <3>2. CASE CreateNew \/ WriteMagic \/ RemoveFile \/ SyncFixOp \/ PowerLoss \/ Restart
            BY <3>2 DEF CreateNew, WriteMagic, RemoveFile, SyncFixOp, PowerLoss, Restart,
                        manifestVars, diskVars, SyncManifest, Manifests
        <3>3. CASE Beginning
            BY <3>3 DEF Beginning, Write, TruncateStart, DeleteDeadSegments, WriteMetadata,
                        diskVars, Manifests
        <3>4. CASE Syncing
            BY <3>4 DEF Syncing, SyncRollover, SyncTruncateStart, SyncDeleted, SyncMetadata,
                        SyncManifest, Manifests
        <3> QED
            BY <1>3, <3>1, <3>2, <3>3, <3>4
    <2> QED
        BY <1>2, <1>3, <2>1, <2>2
<1>4. CASE CommitSync
    BY <1>4, CommittedStates
<1>5. CASE AppendFrames
    <2>1. Durable(state, Outcomes', acked) /\ mdisk.st = state /\ msurv = {mdisk}
          /\ UNCHANGED <<mdisk, msurv>>
        BY <1>5, AppendedDurable, AppendedFiles
    <2>2. acked' = acked
        BY <1>5 DEF AppendFrames, AppendAfter
    <2> QED
        BY <2>1, <2>2 DEF StatesDurable, Manifests
<1>6. CASE Flush
    <2>1. /\ AppendManifest(mbuf) /\ mdisk.st = state /\ Apply(state, mbuf) # EmptyState
          /\ acked' = acked /\ UNCHANGED <<disk, surv>>
        BY <1>6, FlushedState DEF Flush, segmentVars
    <2>2. Outcomes' = Outcomes
        BY <2>1 DEF Outcomes
    <2>3. \A m \in Manifests' : m.st = Apply(state, mbuf) \/ \E n \in Manifests : m.st = n.st
        BY <1>1, <2>1, AppendedStates
    <2>4. \A n \in Manifests : Durable(n.st, Outcomes, acked)
        BY DEF CrashInv, StatesDurable
    <2>5. Durable(Apply(state, mbuf), Outcomes, acked)
        BY <1>6, FlushedDurable
    <2> QED
        BY <2>1, <2>2, <2>3, <2>4, <2>5 DEF StatesDurable
<1>7. CASE Fixing
    <2>1. PICK fix \in scan(mdisk, disk) :
            /\ TruncateManifest(fix) \/ TruncateSegment(fix) \/ AppendFixOp(fix)
            /\ AppendFixOp(fix) => mdisk.tail = "clean"
            /\ UNCHANGED <<acked, log>>
        BY <1>7, FixSteps
    <2>2. CASE TruncateManifest(fix) \/ TruncateSegment(fix)
        <3>1. \A m \in Manifests' : \E n \in Manifests : m.st = n.st
            <4>1. CASE TruncateManifest(fix)
                <5>1. mdisk' = ManifestFile(mdisk.st, "clean") /\ msurv' = {mdisk'}
                    BY <4>1 DEF TruncateManifest
                <5>2. mdisk'.st = mdisk.st
                    BY <5>1 DEF ManifestFile
                <5> QED
                    BY <5>1, <5>2 DEF Manifests
            <4>2. CASE TruncateSegment(fix)
                BY <4>2 DEF TruncateSegment, manifestVars, Manifests
            <4> QED
                BY <2>2, <4>1, <4>2
        <3>2. ~AppendFrames
            BY <1>7 DEF Fixing, FixUp, AppendFrames, AppendAfter
        <3> QED
            BY <1>2, <2>1, <3>1, <3>2
    <2>3. CASE AppendFixOp(fix)
        <3>1. /\ AppendManifest(mbuf') /\ UNCHANGED <<disk, surv>>
              /\ \/ fix.issue = "OrphanSegmentFound" /\ mbuf' = RecordOrphanOp(fix.id)
                 \/ fix.issue = "DeadSegmentNotFound" /\ mbuf' = SegmentDeletedOp(fix.id)
            BY <2>3 DEF AppendFixOp, segmentVars
        <3>2. Fits(Apply(mdisk.st, mbuf'), disk)
            BY <1>1, <2>1, <2>3, <3>1, DiskFits, FixedOp
        <3>3. Apply(mdisk.st, mbuf') # EmptyState
            BY <3>2 DEF Fits, WellFormed, ActiveIsLast, EmptyState
        <3>4. \A m \in Manifests' : m.st = Apply(mdisk.st, mbuf') \/ \E n \in Manifests : m.st = n.st
            BY <1>1, <3>1, <3>3, AppendedStates
        <3>5. \A n \in Manifests : Durable(n.st, Outcomes, acked)
            BY DEF CrashInv, StatesDurable
        <3>6. mbuf'.type \in {"SegmentDeleted", "RecordOrphan", "Metadata"}
            BY <3>1 DEF RecordOrphanOp, SegmentDeletedOp
        <3>7. Durable(Apply(mdisk.st, mbuf'), Outcomes, acked)
            BY <1>1, <3>5, <3>6, ApplySame, DurableSame
        <3>8. Outcomes' = Outcomes
            BY <3>1 DEF Outcomes
        <3> QED
            BY <2>1, <3>4, <3>5, <3>7, <3>8 DEF StatesDurable
    <2> QED
        BY <2>1, <2>2, <2>3
<1> QED
    BY <1>3, <1>4, <1>5, <1>6, <1>7 DEF CrashNext

-----------------------------------------------------------------------------
\* A fix-up takes its issue from the list and from the scan.
LEMMA FixesListed ==
    ASSUME SyncingCaller, StructureInv, FileInv, FileInv', CrashInv, Fixing
    PROVE  fix_ups' = scan(mdisk', disk')
<1>1. mdisk.kind = "ok" /\ mdisk.tail \in {"clean", "header"} /\ Fits(mdisk.st, disk)
    BY DiskFits DEF Manifests
<1>2. PICK fix \in scan(mdisk, disk) :
        /\ TruncateManifest(fix) \/ TruncateSegment(fix) \/ AppendFixOp(fix)
        /\ fix_ups' = scan(mdisk, disk) \ {fix}
        /\ AppendFixOp(fix) => mdisk.tail = "clean"
    BY FixSteps
<1>3. CASE TruncateManifest(fix)
    <2>1. /\ fix.issue = "ManifestTornTail" /\ disk' = disk
          /\ mdisk' = ManifestFile(mdisk.st, "clean")
        BY <1>3 DEF TruncateManifest, segmentVars
    <2> QED
        BY <1>1, <1>2, <2>1, FixedManifest
<1>4. CASE TruncateSegment(fix)
    <2>1. fix.issue = "ActiveSegmentTornTail"
        <3>1. fix.issue \in AutoFixed
            BY <1>1, CrashIssues
        <3> QED
            BY <1>4, <3>1 DEF TruncateSegment, AutoFixed
    <2>2. fix.id = mdisk.st.active_segment_id /\ fix.at = Len(disk[fix.id].frames)
        <3>1. fix \in ManifestTail(mdisk) \cup find_orphans(mdisk.st, disk)
                        \cup find_missing_dead(mdisk.st, disk) \cup ActiveTail(mdisk.st, disk)
            BY <1>1, ScanAfterCrash
        <3>2. fix \notin ManifestTail(mdisk)
            BY <2>1, IssueNames
        <3>3. fix \notin find_orphans(mdisk.st, disk) /\ fix \notin find_missing_dead(mdisk.st, disk)
            BY <2>1, IssueNames
        <3>4. fix \in ActiveTail(mdisk.st, disk)
            BY <3>1, <3>2, <3>3
        <3> QED
            BY <3>4, IssueNames
    <2>3. fix.id \in SegIds /\ disk[fix.id] \in FileType
        BY <1>1, <2>2, LiveFacts DEF Fits, Known
    <2>4. /\ mdisk' = mdisk
          /\ disk' = [disk EXCEPT ![fix.id] =
                        SegmentFile(SetLen(disk[fix.id].frames, fix.at), FALSE)]
        BY <1>4 DEF TruncateSegment, SetSegment, manifestVars
    <2>5. SetLen(disk[fix.id].frames, fix.at) = disk[fix.id].frames
        BY <2>2, <2>3, SetLenSame DEF FileType
    <2>6. disk' = CutTail(disk, fix.id)
        BY <2>4, <2>5 DEF CutTail
    <2>7. scan(mdisk, disk') = scan(mdisk, disk) \ {fix}
        BY <1>1, <2>1, <2>6, FixedSegment
    <2> QED
        BY <1>2, <2>4, <2>7
<1>5. CASE AppendFixOp(fix)
    <2>1. /\ mdisk' = ManifestFile(Apply(mdisk.st, mbuf'), "clean") /\ disk' = disk
          /\ \/ fix.issue = "OrphanSegmentFound" /\ mbuf' = RecordOrphanOp(fix.id)
             \/ fix.issue = "DeadSegmentNotFound" /\ mbuf' = SegmentDeletedOp(fix.id)
        BY <1>5 DEF AppendFixOp, segmentVars, AppendManifest
    <2>2. scan(ManifestFile(Apply(mdisk.st, mbuf'), "clean"), disk) = scan(mdisk, disk) \ {fix}
        BY <1>1, <1>2, <1>5, <2>1, FixedOp
    <2> QED
        BY <1>2, <2>1, <2>2
<1> QED
    BY <1>2, <1>3, <1>4, <1>5

\* No recovery is refused or has to be approved.
LEMMA NextControlDurable ==
    ASSUME SyncingCaller, StructureInv, FileInv, FileInv', CrashInv, CrashNext
    PROVE  ControlDurable'
<1>1. ControlDurable
    BY DEF CrashInv
<1>2. ASSUME result' = "none", approved' = FALSE, corrupts' = corrupts,
             pc' \notin {"manifest_magic", "create", "magic", "fix", "fixsync"},
             mbuf'.type \notin {"CreateSegment", "TruncateEnd"}
      PROVE  ControlDurable'
    BY <1>1, <1>2 DEF ControlDurable
<1>3. NoOp.type = "None"
    BY DEF NoOp
<1>4. CASE Loading
    <2>1. result' = "none" /\ approved' = FALSE /\ corrupts' = corrupts /\ pc' = "idle"
        BY <1>1, <1>4 DEF Loading, OpenClean, FixedUp, Loaded, NotOpened, Goto, callVars,
                          faultVars, ControlDurable
    <2>2. mbuf' = mbuf
        BY <1>4 DEF Loading, OpenClean, FixedUp, callVars
    <2> QED
        BY <1>1, <1>2, <2>1, <2>2 DEF ControlDurable
<1>5. CASE Recovering
    <2>1. /\ UNCHANGED <<mdisk, disk, mbuf, corrupts>> /\ pc' = "fix" /\ approved' = FALSE
          /\ result' = result /\ fix_ups' = scan(mdisk, disk)
        BY <1>5 DEF Recovering, OpenWithIssues, Attempt, NotOpened, Goto, diskVars, faultVars
    <2> QED
        BY <1>1, <2>1 DEF ControlDurable
<1>6. CASE Fixing
    <2>1. PICK fix \in scan(mdisk, disk) :
            /\ TruncateManifest(fix) \/ TruncateSegment(fix) \/ AppendFixOp(fix)
            /\ mbuf = NoOp /\ approved' = FALSE
            /\ UNCHANGED <<result, faultVars>>
        BY <1>6, FixSteps
    <2>2. pc' \in {"fix", "fixsync"}
        BY <1>6 DEF Fixing
    <2>3. mbuf' = NoOp \/ mbuf' = RecordOrphanOp(fix.id) \/ mbuf' = SegmentDeletedOp(fix.id)
        BY <2>1 DEF TruncateManifest, TruncateSegment, AppendFixOp
    <2>4. mbuf'.type \notin {"CreateSegment", "TruncateEnd"}
        BY <1>3, <2>3 DEF RecordOrphanOp, SegmentDeletedOp
    <2>5. fix_ups' = scan(mdisk', disk')
        BY <1>6, FixesListed
    <2> QED
        BY <1>1, <2>1, <2>2, <2>4, <2>5 DEF ControlDurable, faultVars
<1>7. CASE SyncFixOp
    <2>1. /\ pc = "fixsync" /\ pc' = "fix" /\ mbuf' = NoOp
          /\ UNCHANGED <<mdisk, disk, result, approved, corrupts, fix_ups>>
        BY <1>7 DEF SyncFixOp, SyncManifest, Goto, segmentVars, faultVars
    <2> QED
        BY <1>1, <1>3, <2>1 DEF ControlDurable
<1>8. CASE CreateNew
    <2>1. /\ pc = "create" /\ pc' = "magic"
          /\ UNCHANGED <<mbuf, result, approved, corrupts>>
        BY <1>8 DEF CreateNew, Goto, callVars, faultVars
    <2> QED
        BY <1>1, <2>1 DEF ControlDurable
<1>9. CASE WriteMagic
    <2>1. /\ pc = "magic" /\ pc' = IF mbuf = NoOp THEN "fix" ELSE "flush"
          /\ UNCHANGED <<mbuf, result, approved, corrupts>>
        BY <1>9 DEF WriteMagic, Goto, faultVars
    <2>2. pc' = "flush"
        BY <1>1, <1>3, <2>1 DEF ControlDurable
    <2> QED
        BY <1>1, <1>2, <2>1, <2>2 DEF ControlDurable
<1>10. CASE Flush \/ AppendFrames \/ CommitSync
    <2>1. /\ pc' \in {"sync", "commit", "idle"}
          /\ UNCHANGED <<mbuf, result, approved, corrupts>>
        BY <1>10 DEF Flush, AppendFrames, AppendAfter, CommitSync, Goto, callVars, faultVars
    <2> QED
        BY <1>1, <1>2, <2>1 DEF ControlDurable
<1>11. CASE RemoveFile
    <2>1. PICK id : mbuf' = SegmentDeletedOp(id)
        BY <1>11 DEF RemoveFile
    <2>2. mbuf'.type = "SegmentDeleted"
        BY <2>1 DEF SegmentDeletedOp
    <2>3. pc' = "flush" /\ UNCHANGED <<result, approved, corrupts>>
        BY <1>11 DEF RemoveFile, Goto, faultVars
    <2> QED
        BY <1>1, <1>2, <2>2, <2>3 DEF ControlDurable
<1>12. CASE Syncing
    <2>1. /\ mbuf' = NoOp /\ pc' \in {"append", "idle", "delete"}
          /\ UNCHANGED <<result, approved, corrupts>>
        BY <1>12 DEF Syncing, SyncRollover, SyncTruncateStart, SyncDeleted, SyncMetadata, Goto,
                     faultVars
    <2> QED
        BY <1>1, <1>2, <1>3, <2>1 DEF ControlDurable
<1>13. CASE Beginning
    <2>1. UNCHANGED <<result, approved, corrupts>>
        BY <1>13 DEF Beginning, Write, TruncateStart, DeleteDeadSegments, WriteMetadata, faultVars
    <2>2. CASE Write
        <3>1. \/ \E x : mbuf' = RolloverOp(x) /\ pc' = "create"
              \/ mbuf' = mbuf /\ pc' = "append"
            BY <2>2 DEF Write, Goto
        <3>2. (mbuf'.type = "RollSegment" /\ pc' = "create") \/ (mbuf' = mbuf /\ pc' = "append")
            BY <3>1 DEF RolloverOp, RollSegmentOp
        <3> QED
            BY <1>1, <2>1, <3>2 DEF ControlDurable
    <2>3. CASE TruncateStart
        <3>1. pc' = "flush" /\ \E x, y, z : mbuf' = TruncateStartOp(x, y, z)
            BY <2>3 DEF TruncateStart, Goto
        <3>2. mbuf'.type = "TruncateStart"
            BY <3>1 DEF TruncateStartOp
        <3> QED
            BY <1>1, <1>2, <2>1, <3>1, <3>2 DEF ControlDurable
    <2>4. CASE DeleteDeadSegments
        <3>1. pc' = "delete" /\ mbuf' = mbuf
            BY <2>4 DEF DeleteDeadSegments, Goto
        <3> QED
            BY <1>1, <1>2, <2>1, <3>1 DEF ControlDurable
    <2>5. CASE WriteMetadata
        <3>1. pc' = "flush" /\ \E x : mbuf' = MetadataOp(x)
            BY <2>5 DEF WriteMetadata, Goto
        <3>2. mbuf'.type = "Metadata"
            BY <3>1 DEF MetadataOp
        <3> QED
            BY <1>1, <1>2, <2>1, <3>1, <3>2 DEF ControlDurable
    <2> QED
        BY <1>13, <2>2, <2>3, <2>4, <2>5 DEF Beginning
<1>14. CASE PowerLoss \/ Restart
    <2>1. /\ pc' = "closed" /\ result' = "none" /\ mbuf' = NoOp /\ approved' = FALSE
          /\ corrupts' = corrupts
        BY <1>14 DEF PowerLoss, Restart, ForgetMemory, Goto
    <2> QED
        BY <1>2, <1>3, <2>1
<1>15. CASE UNCHANGED vars
    BY <1>1, <1>15 DEF ControlDurable, vars, diskVars, callVars, faultVars
<1> QED
    BY <1>4, <1>5, <1>6, <1>7, <1>8, <1>9, <1>10, <1>11, <1>12, <1>13, <1>14, <1>15 DEF CrashNext

-----------------------------------------------------------------------------
\* A step of an open store that leaves its active segment alone.
LEMMA SameActive ==
    ASSUME FileInv, FileInv', ActiveDurable, Opened, Opened', pc # "commit" \/ pc' = "commit",
           UNCHANGED <<active_id, active_entry_count, rollover_pending, last_entry_id>>,
           active_id \in SegIds, disk'[active_id] = disk[active_id],
           surv'[active_id] = surv[active_id]
    PROVE  ActiveDurable'
<1>1. Outcomes'[active_id] = Outcomes[active_id]
    BY OutcomesAre, OutcomesArePrimed DEF FileInv
<1> QED
    BY <1>1 DEF ActiveDurable

\* Calls that begin, the manifest's flush, and changes of other files.
LEMMA BetweenActive ==
    ASSUME SyncingCaller, StructureInv, FileInv, FileInv', CrashInv,
           \/ CreateNew \/ WriteMagic \/ RemoveFile \/ Flush \/ Beginning
           \/ SyncTruncateStart \/ SyncDeleted \/ SyncMetadata
    PROVE  ActiveDurable'
<1>1. Opened /\ pc # "commit"
    <2>1. CASE CreateNew \/ WriteMagic
        <3>1. pc \in {"create", "magic"}
            BY <2>1 DEF CreateNew, WriteMagic
        <3>2. mbuf.type = "RollSegment"
            BY <3>1 DEF CrashInv, ControlDurable
        <3> QED
            BY <3>1, <3>2 DEF Opened, NoOp
    <2>2. CASE Flush
        BY <2>2, FlushedState
    <2>3. CASE RemoveFile \/ SyncTruncateStart \/ SyncDeleted \/ SyncMetadata
        BY <2>3 DEF RemoveFile, SyncTruncateStart, SyncDeleted, SyncMetadata, Opened
    <2>4. CASE Beginning
        BY <2>4 DEF Beginning, Write, TruncateStart, DeleteDeadSegments, WriteMetadata, Opened
    <2> QED
        BY <2>1, <2>2, <2>3, <2>4
<1>2. active_id \in SegIds /\ active_id \in Live(state)
    BY <1>1, OpenFacts
<1>3. UNCHANGED <<active_id, active_entry_count, rollover_pending, last_entry_id>>
    <2>1. CASE CreateNew \/ WriteMagic \/ RemoveFile \/ Flush
        BY <2>1 DEF CreateNew, WriteMagic, RemoveFile, Flush, storeVars, cursorVars
    <2>2. CASE Beginning
        BY <2>2 DEF Beginning, Write, TruncateStart, DeleteDeadSegments, WriteMetadata,
                    storeVars, cursorVars
    <2>3. CASE SyncTruncateStart \/ SyncDeleted \/ SyncMetadata
        BY <2>3 DEF SyncTruncateStart, SyncDeleted, SyncMetadata, cursorVars
    <2> QED
        BY <2>1, <2>2, <2>3
<1>4. pc \notin {"append", "commit", "fix"} /\ pc' # "closed"
    <2>1. CASE CreateNew \/ WriteMagic \/ RemoveFile \/ Flush
        BY <2>1 DEF CreateNew, WriteMagic, RemoveFile, Flush, Goto
    <2>2. CASE Beginning
        BY <2>2 DEF Beginning, Write, TruncateStart, DeleteDeadSegments, WriteMetadata, Goto
    <2>3. CASE SyncTruncateStart \/ SyncDeleted \/ SyncMetadata
        BY <2>3 DEF SyncTruncateStart, SyncDeleted, SyncMetadata, Goto
    <2> QED
        BY <2>1, <2>2, <2>3
<1>5. disk'[active_id] = disk[active_id] /\ surv'[active_id] = surv[active_id]
    <2>1. ~PowerLoss /\ ~AppendFrames /\ ~CommitSync /\ ~Fixing
        BY <1>4 DEF PowerLoss, ForgetMemory, Goto, AppendFrames, AppendAfter, CommitSync, Fixing, FixUp
    <2>2. CrashNext
        BY DEF CrashNext, Syncing
    <2> QED
        BY <1>2, <2>1, <2>2, FilesChange
<1>6. Opened'
    <2>1. ~PowerLoss /\ ~Restart
        BY <1>4 DEF PowerLoss, Restart, ForgetMemory, Goto
    <2>2. Next
        BY DEF Next, CallSteps, Calls, Beginning
    <2> QED
        BY <1>1, <2>1, <2>2, StaysOpen
<1> QED
    BY <1>1, <1>2, <1>3, <1>5, <1>6, SameActive DEF CrashInv

\* A clean scan found the active file whole, and nothing in it is in doubt.
LEMMA LoadedActive ==
    ASSUME StructureInv, FileInv, FileInv', CrashInv, Loading
    PROVE  ActiveDurable'
<1> DEFINE a == mdisk.st.active_segment_id
<1>1. ~Opened /\ scan(mdisk, disk) = {}
    <2>1. CASE OpenClean
        BY <2>1 DEF OpenClean, Opened
    <2>2. CASE FixedUp
        <3>1. pc = "fix"
            BY <2>2 DEF FixedUp
        <3>2. fix_ups = {} /\ fix_ups = scan(mdisk, disk)
            BY <2>2, <3>1 DEF FixedUp, CrashInv, ControlDurable
        <3> QED
            BY <3>1, <3>2 DEF Opened
    <2> QED
        BY <2>1, <2>2 DEF Loading
<1>2. /\ Load /\ pc' = "idle" /\ UNCHANGED <<disk, surv, mdisk, msurv>>
    BY LoadedFrom DEF Loading, FileInv
<1>3. mdisk.kind = "ok" /\ mdisk.tail \in {"clean", "header"} /\ Fits(mdisk.st, disk)
    BY DiskFits DEF Manifests
<1>4. a \in SegIds /\ disk[a] \in FileType
    BY <1>3, LiveFacts DEF Fits, Known
<1>5. disk[a].torn = FALSE
    <2>1. ActiveTail(mdisk.st, disk) = {}
        BY <1>1, <1>3, ScanAfterCrash
    <2> QED
        BY <1>4, <2>1 DEF ActiveTail, FileType
<1>6. Outcomes[a] = {disk[a]}
    BY <1>1 DEF CrashInv, ActiveDurable
<1>7. Outcomes' = Outcomes
    BY <1>2 DEF Outcomes
<1>8. /\ active_id' = a /\ active_entry_count' = Len(disk[a].frames)
      /\ last_entry_id' = ScannedLastEntry(mdisk.st, disk) /\ rollover_pending' = FALSE
    BY <1>2 DEF Load
<1>9. disk[a].frames # <<>> => ScannedLastEntry(mdisk.st, disk) = Last(disk[a].frames).id
    BY DEF ScannedLastEntry
<1>10. Opened'
    BY <1>2 DEF Opened
<1> HIDE DEF a
<1> QED
    BY <1>2, <1>5, <1>6, <1>7, <1>8, <1>9, <1>10 DEF ActiveDurable

\* A rollover goes on in the file it created and synced.
LEMMA RolledActive ==
    ASSUME StructureInv, FileInv, FileInv', CrashInv, SyncRollover
    PROVE  ActiveDurable'
<1>1. pc = "sync" /\ mbuf.type = "RollSegment" /\ Opened
    BY DEF SyncRollover, Opened
<1>2. mbuf.new_id = next_seg_id
    BY <1>1, InFlight
<1>3. Outcomes[next_seg_id] = {SegmentFile(<<>>, FALSE)}
    BY <1>1 DEF CrashInv, CallDurable
<1>4. /\ active_id' = next_seg_id /\ active_entry_count' = 0 /\ rollover_pending' = FALSE
      /\ UNCHANGED <<disk, surv>> /\ pc' = "append"
    BY <1>2 DEF SyncRollover, segmentVars, Goto
<1>5. next_seg_id \in SegIds
    <2>1. OpValid(state, mbuf, next_seg_id, to_delete)
        BY <1>1 DEF StructureInv, ControlOk, NoOp
    <2> QED
        BY <1>1, <2>1 DEF OpValid
<1>6. disk[next_seg_id] = SegmentFile(<<>>, FALSE)
    BY <1>3, <1>5, OutcomesAre DEF FileInv
<1>7. disk[next_seg_id].torn = FALSE /\ disk[next_seg_id].frames = <<>>
    BY <1>6 DEF SegmentFile
<1>8. Outcomes' = Outcomes
    BY <1>4 DEF Outcomes
<1>9. Opened'
    BY <1>4 DEF Opened
<1> QED
    BY <1>3, <1>4, <1>6, <1>7, <1>8, <1>9 DEF ActiveDurable

\* A write counts its frames and ends with its last one.
LEMMA AppendedActive ==
    ASSUME StructureInv, FileInv, FileInv', CrashInv, AppendFrames
    PROVE  ActiveDurable'
<1>1. /\ Opened /\ pc = "append" /\ pc' = "commit" /\ active_id \in SegIds
      /\ buf \in Seq(FrameType) /\ buf # <<>> /\ Len(buf) \in Nat
      /\ disk[active_id].frames \in Seq(FrameType)
      /\ disk'[active_id] = SegmentFile(disk[active_id].frames \o buf, FALSE)
    BY AppendedFiles
<1>2. /\ active_id' = active_id /\ last_entry_id' = Last(buf).id
      /\ active_entry_count' = active_entry_count + Len(buf)
    BY DEF AppendFrames, AppendAfter
<1> DEFINE F == disk[active_id].frames
<1>3. disk'[active_id].frames = F \o buf /\ disk'[active_id].torn = FALSE
    BY <1>1 DEF SegmentFile
<1>4. active_entry_count = Len(F)
    BY <1>1 DEF CrashInv, ActiveDurable
<1>5. Opened'
    BY <1>1 DEF Opened
<1> HIDE DEF F
<1>6. F \in Seq(FrameType)
    BY <1>1 DEF F
<1>7. Len(F \o buf) = Len(F) + Len(buf) /\ F \o buf # <<>> /\ Last(F \o buf) = Last(buf)
    <2>1. Len(F \o buf) = Len(F) + Len(buf) /\ Len(buf) >= 1 /\ Len(F) \in Nat
        BY <1>1, <1>6
    <2>2. (F \o buf)[Len(F) + Len(buf)] = buf[Len(buf)]
        BY <1>1, <1>6, <2>1
    <2> QED
        BY <2>1, <2>2 DEF Last
<1> QED
    BY <1>1, <1>2, <1>3, <1>4, <1>5, <1>7 DEF ActiveDurable

LEMMA NextActiveDurable ==
    ASSUME SyncingCaller, StructureInv, StructureInv', FileInv, FileInv', CrashInv,
           ManifestsDurable', CrashNext
    PROVE  ActiveDurable'
<1>1. ActiveDurable /\ ManifestsDurable
    BY DEF CrashInv
<1>2. CASE Loading
    BY <1>2, LoadedActive
<1>3. CASE \/ CreateNew \/ WriteMagic \/ RemoveFile \/ Flush \/ Beginning
           \/ SyncTruncateStart \/ SyncDeleted \/ SyncMetadata
    BY <1>3, BetweenActive
<1>4. CASE SyncRollover
    BY <1>4, RolledActive
<1>5. CASE AppendFrames
    BY <1>5, AppendedActive
<1>6. CASE CommitSync
    <2>1. Opened /\ Opened' /\ pc' = "idle"
        BY <1>6 DEF CommitSync, Opened, Goto
    <2>2. active_id \in SegIds /\ disk[active_id] \in FileType
        BY <2>1, OpenFacts, OutcomesAre DEF FileInv
    <2>3. UNCHANGED <<active_id, active_entry_count, rollover_pending, last_entry_id>>
        BY <1>6 DEF CommitSync, storeVars, cursorVars
    <2>4. SetSegment(active_id, disk[active_id], {disk[active_id]})
        BY <1>6, SyncedIs DEF CommitSync, SyncSegment
    <2>5. disk'[active_id] = disk[active_id] /\ surv'[active_id] = {disk[active_id]}
        BY <2>2, <2>4, SetSegmentIs DEF FileInv
    <2>6. Outcomes'[active_id] = {disk[active_id]}
        BY <2>2, <2>5, OutcomesArePrimed DEF FileInv
    <2> QED
        BY <1>1, <2>1, <2>3, <2>5, <2>6 DEF ActiveDurable
<1>7. CASE PowerLoss \/ Restart
    <2>1. pc' = "closed"
        BY <1>7 DEF PowerLoss, Restart, ForgetMemory, Goto
    <2>2. ~Opened'
        BY <2>1 DEF Opened
    <2>3. CASE PowerLoss
        <3>1. mdisk'.st.active_segment_id \in SegIds
            <4>1. mdisk' \in Manifests
                BY <2>3 DEF PowerLoss, Manifests
            <4> QED
                BY <1>1, <4>1, ManifestFacts, LiveFacts
        <3>2. \A id \in SegIds : surv'[id] = {disk'[id]}
            BY <2>3 DEF PowerLoss
        <3>3. Outcomes'[mdisk'.st.active_segment_id] = {disk'[mdisk'.st.active_segment_id]}
            BY <3>1, <3>2, OutcomesArePrimed DEF FileInv
        <3> QED
            BY <2>2, <3>3 DEF ActiveDurable
    <2>4. CASE Restart
        <3>1. pc = "idle" /\ UNCHANGED <<mdisk, disk, surv>>
            BY <2>4 DEF Restart, SyncingCaller, diskVars
        <3>2. Opened
            BY <3>1 DEF Opened
        <3>3. mdisk.st.active_segment_id = active_id
            BY <3>1, <3>2 DEF StructureInv, MemoryOk
        <3>4. Outcomes[active_id] = {disk[active_id]} /\ Outcomes' = Outcomes
            BY <1>1, <3>1, <3>2 DEF ActiveDurable, Outcomes
        <3> QED
            BY <2>2, <3>1, <3>3, <3>4 DEF ActiveDurable
    <2> QED
        BY <1>7, <2>3, <2>4
<1>8. CASE Recovering \/ Fixing \/ SyncFixOp
    <2>1. ~Opened /\ ~Opened'
        <3>1. pc \in {"closed", "fix", "fixsync"} /\ pc' \in {"fix", "fixsync"}
            BY <1>8 DEF Recovering, OpenWithIssues, Attempt, Fixing, FixUp, SyncFixOp, Goto
        <3> QED
            BY <3>1 DEF Opened
    <2>2. Outcomes[mdisk.st.active_segment_id] = {disk[mdisk.st.active_segment_id]}
        BY <1>1, <2>1 DEF ActiveDurable
    <2>3. ASSUME mdisk'.st.active_segment_id = mdisk.st.active_segment_id, UNCHANGED <<disk, surv>>
          PROVE  ActiveDurable'
        BY <2>1, <2>2, <2>3 DEF ActiveDurable, Outcomes
    <2>4. CASE Recovering \/ SyncFixOp
        <3>1. UNCHANGED <<mdisk, disk, surv>>
            BY <2>4 DEF Recovering, OpenWithIssues, Attempt, SyncFixOp, SyncManifest, diskVars,
                        segmentVars
        <3> QED
            BY <2>3, <3>1
    <2>5. CASE Fixing
        <3>1. PICK fix \in scan(mdisk, disk) :
                TruncateManifest(fix) \/ TruncateSegment(fix) \/ AppendFixOp(fix)
            BY <2>5, FixSteps
        <3>2. CASE TruncateManifest(fix)
            <4>1. mdisk' = ManifestFile(mdisk.st, "clean") /\ UNCHANGED <<disk, surv>>
                BY <3>2 DEF TruncateManifest, segmentVars
            <4>2. mdisk'.st = mdisk.st
                BY <4>1 DEF ManifestFile
            <4> QED
                BY <2>3, <4>1, <4>2
        <3>3. CASE AppendFixOp(fix)
            <4>1. /\ mdisk' = ManifestFile(Apply(mdisk.st, mbuf'), "clean")
                  /\ UNCHANGED <<disk, surv>>
                  /\ mbuf' = RecordOrphanOp(fix.id) \/ mbuf' = SegmentDeletedOp(fix.id)
                BY <3>3 DEF AppendFixOp, AppendManifest, segmentVars
            <4>2. mdisk'.st = Apply(mdisk.st, mbuf')
                BY <4>1 DEF ManifestFile
            <4>3. mbuf'.type \in {"SegmentDeleted", "RecordOrphan", "Metadata"}
                BY <4>1 DEF RecordOrphanOp, SegmentDeletedOp
            <4> QED
                BY <2>3, <4>1, <4>2, <4>3, ApplySame
        <3>4. CASE TruncateSegment(fix)
            <4>1. mdisk' = mdisk
                BY <3>4 DEF TruncateSegment, manifestVars
            <4> DEFINE a == mdisk.st.active_segment_id
            <4>2. a \in SegIds
                BY <1>1, ManifestFacts, LiveFacts DEF Manifests
            <4>3. \/ UNCHANGED <<disk, surv>>
                  \/ surv'[a] = {disk'[a]}
                  \/ disk'[a] = disk[a] /\ surv'[a] = surv[a]
                <5>1. CrashNext /\ ~PowerLoss /\ ~AppendFrames /\ ~CommitSync
                    <6>1. pc = "fix" /\ pc' # "closed"
                        BY <2>5 DEF Fixing, FixUp
                    <6> QED
                        BY <6>1 DEF PowerLoss, ForgetMemory, Goto, AppendFrames, AppendAfter,
                                    CommitSync
                <5> QED
                    BY <2>1, <4>2, <5>1, FilesChange
            <4>4. Outcomes'[a] = {disk'[a]}
                BY <2>2, <4>2, <4>3, OutcomesAre, OutcomesArePrimed DEF FileInv
            <4> QED
                BY <2>1, <4>1, <4>4 DEF ActiveDurable
        <3> QED
            BY <3>1, <3>2, <3>3, <3>4
    <2> QED
        BY <1>8, <2>4, <2>5
<1>9. CASE UNCHANGED vars
    <2>1. /\ UNCHANGED <<mdisk, disk, surv, pc, mbuf, active_id, active_entry_count, last_entry_id,
                         rollover_pending>>
        BY <1>9 DEF vars, diskVars, callVars, storeVars, cursorVars
    <2> QED
        BY <1>1, <2>1 DEF ActiveDurable, Outcomes, Opened
<1> QED
    BY <1>2, <1>3, <1>4, <1>5, <1>6, <1>7, <1>8, <1>9 DEF CrashNext, Syncing

-----------------------------------------------------------------------------
\* The seal of a rollover describes the file, which is not empty.
LEMMA WrittenSeal ==
    ASSUME StructureInv, FileInv, CrashInv, pc = "idle", rollover_pending, NEW first
    PROVE  MatchesSeal(disk[active_id], RolloverOp(first).seal)
<1>1. Opened /\ mdisk.st = state /\ mbuf = NoOp
    <2>1. Opened
        BY DEF Opened
    <2> QED
        BY <2>1 DEF StructureInv, MemoryOk, ControlOk, NoOpAt
<1>2. active_id \in SegIds /\ active_id = state.active_segment_id
    BY <1>1, OpenFacts
<1>3. disk[active_id] \in Outcomes[active_id] /\ disk[active_id] \in FileType
    BY <1>2, OutcomesAre DEF FileInv
<1> DEFINE F == disk[active_id].frames
<1>4. /\ disk[active_id].torn = FALSE /\ active_entry_count = Len(F)
      /\ F # <<>> /\ last_entry_id = Last(F).id
    BY <1>1 DEF CrashInv, ActiveDurable
<1>5. disk[active_id].kind = "ok"
    BY <1>1, <1>2, <1>3 DEF CrashInv, StatesDurable, Durable, FilesPresent, Manifests
<1>6. position = Len(F)
    <2>1. mbuf.type # "TruncateEnd"
        BY <1>1 DEF NoOp
    <2> QED
        BY <1>1, <2>1 DEF FileInv, CursorOk
<1>7. \A i \in DOMAIN F : F[i].ok
    BY <1>2, <1>3 DEF CrashInv, FramesDurable
<1>8. F \in Seq(FrameType)
    BY <1>3 DEF FileType
<1>9. Last(F).id # NoEntry
    <2> HIDE DEF F
    <2>1. Len(F) \in DOMAIN F /\ F[Len(F)] \in FrameType
        BY <1>4, <1>8
    <2> QED
        BY <1>7, <2>1 DEF Last, FrameType, NoEntry
<1>10. LET seal == RolloverOp(first).seal
       IN  /\ seal.final_size = position /\ seal.entry_count = active_entry_count
           /\ seal.last_entry = last_entry_id
    BY <1>4, <1>9 DEF RolloverOp, RollSegmentOp
<1> QED
    BY <1>4, <1>5, <1>6, <1>10 DEF MatchesSeal

\* A batch begins with what the caller may write, and a rollover before it
\* with a seal of the file as it is.
LEMMA WrittenCall ==
    ASSUME StructureInv, FileInv, CrashInv, Write
    PROVE  CallDurable'
<1>1. pc = "idle" /\ Opened /\ mbuf = NoOp
    <2>1. pc = "idle" /\ Opened
        BY DEF Write, Opened
    <2> QED
        BY <2>1 DEF StructureInv, ControlOk, NoOpAt
<1>2. PICK batch \in Batches :
        /\ Last(batch).id <= MaxId /\ buf' = batch
        /\ IF rollover_pending
           THEN mbuf' = RolloverOp(batch[1].id) /\ pc' = "create"
           ELSE mbuf' = mbuf /\ pc' = "append"
    BY DEF Write, Goto
<1>3. UNCHANGED <<disk, surv, state, active_id, last_entry_id, next_seg_id>>
    BY DEF Write, diskVars, storeVars, cursorVars
<1>4. last_entry_id \in Nat
    BY BoundsAssumption DEF FileInv, MemoryTyped
<1>5. /\ batch \in Seq(OkFrameType) /\ Len(batch) \in Nat /\ batch[1].id \in 1..MaxId
      /\ \A i \in 1..Len(batch) : batch[i] = Frame(batch[1].id + i - 1)
      /\ batch[1].id > last_entry_id /\ batch[1].id >= state.first_entry
    BY <1>1, <1>2, <1>4, BatchIs
<1>6. Ascending(batch)
    <2>1. batch \in Seq(FrameType)
        BY <1>5 DEF OkFrameType
    <2>2. batch[1].id \in Nat
        BY <1>5, BoundsAssumption
    <2> QED
        BY <1>5, <2>1, <2>2, BatchAscending
<1>7. CASE rollover_pending
    <2>1. mbuf'.type = "RollSegment" /\ mbuf'.seal = RolloverOp(batch[1].id).seal
        BY <1>2, <1>7 DEF RolloverOp, RollSegmentOp
    <2>2. MatchesSeal(disk[active_id], mbuf'.seal)
        BY <1>1, <1>7, <2>1, WrittenSeal
    <2> QED
        BY <1>2, <1>3, <1>5, <1>6, <1>7, <2>1, <2>2 DEF CallDurable
<1>8. CASE ~rollover_pending
    <2>1. mbuf'.type = "None"
        BY <1>1, <1>2, <1>8 DEF NoOp
    <2> QED
        BY <1>2, <1>3, <1>5, <1>6, <2>1 DEF CallDurable
<1> QED
    BY <1>7, <1>8

\* The steps of a rollover up to its sync_all.
LEMMA RollingCall ==
    ASSUME SyncingCaller, StructureInv, FileInv, FileInv', CrashInv,
           CreateNew \/ WriteMagic \/ Flush
    PROVE  CallDurable'
<1>1. /\ UNCHANGED <<mbuf, buf, state, active_id, last_entry_id, next_seg_id>>
      /\ pc' # "append" /\ pc \in {"create", "magic", "flush"} /\ pc' # "closed"
    BY DEF CreateNew, WriteMagic, Flush, Goto, callVars, storeVars, cursorVars
<1>2. CallDurable
    BY DEF CrashInv
<1>0. pc' = "sync" => \E m \in Manifests' : m.st = state'
    <2> SUFFICES ASSUME pc' = "sync" PROVE \E m \in Manifests' : m.st = state'
        OBVIOUS
    <2>1. Flush
        BY DEF CreateNew, WriteMagic, Goto
    <2>2. mdisk.st = state /\ msurv = {mdisk} /\ AppendManifest(mbuf)
        BY <2>1, FlushedState DEF Flush
    <2>3. mdisk \in msurv'
        BY <2>2 DEF AppendManifest
    <2> QED
        BY <1>1, <2>2, <2>3 DEF Manifests
<1>3. CASE mbuf.type # "RollSegment"
    BY <1>0, <1>1, <1>2, <1>3 DEF CallDurable
<1>4. CASE mbuf.type = "RollSegment"
    <2>1. Opened /\ mbuf # NoOp
        BY <1>1, <1>4 DEF Opened, NoOp
    <2>2. next_seg_id \in SegIds
        <3>1. OpValid(state, mbuf, next_seg_id, to_delete)
            BY <1>1, <1>4, <2>1 DEF StructureInv, ControlOk
        <3> QED
            BY <1>4, <3>1 DEF OpValid
    <2>3. active_id \in SegIds /\ active_id \in Live(state)
        BY <2>1, OpenFacts
    <2>4. ~PowerLoss /\ ~AppendFrames /\ ~CommitSync /\ ~Fixing /\ ~RemoveFile /\ CrashNext
        BY <1>1 DEF PowerLoss, ForgetMemory, Goto, AppendFrames, AppendAfter, CommitSync, Fixing,
                    FixUp, RemoveFile, CrashNext
    <2>5. disk'[active_id] = disk[active_id]
        BY <2>3, <2>4, FilesChange
    <2>6. MatchesSeal(disk'[active_id'], mbuf'.seal)
        BY <1>1, <1>2, <1>4, <2>5 DEF CallDurable
    <2>7. ASSUME pc' \in {"flush", "sync"}
          PROVE  Outcomes'[next_seg_id] = {SegmentFile(<<>>, FALSE)}
        <3>1. CASE Flush
            <4>1. UNCHANGED <<disk, surv>> /\ pc = "flush"
                BY <3>1 DEF Flush, segmentVars
            <4> QED
                BY <1>2, <1>4, <4>1 DEF CallDurable, Outcomes
        <3>2. CASE CreateNew
            BY <2>7, <3>2 DEF CreateNew, Goto
        <3>3. CASE WriteMagic
            <4>1. /\ disk'[next_seg_id] = SegmentFile(<<>>, FALSE)
                  /\ surv'[next_seg_id] = {SegmentFile(<<>>, FALSE)}
                <5>1. creating = next_seg_id
                    BY <1>4, <3>3 DEF WriteMagic, FileInv, NewFileOk
                <5> DEFINE file == SegmentFile(<<>>, FALSE)
                <5>2. SetSegment(next_seg_id, file, {file})
                    BY <3>3, <5>1, SyncedIs DEF WriteMagic
                <5>3. file \in FileType /\ DiskTyped
                    BY NewFilesType DEF FileInv
                <5> HIDE DEF file
                <5>4. disk'[next_seg_id] = file /\ surv'[next_seg_id] = {file}
                    BY <2>2, <5>2, <5>3, SetSegmentIs
                <5> QED
                    BY <5>4 DEF file
            <4> QED
                BY <2>2, <4>1, OutcomesArePrimed DEF FileInv
        <3> QED
            BY <3>1, <3>2, <3>3
    <2> QED
        BY <1>0, <1>1, <1>2, <1>4, <2>6, <2>7 DEF CallDurable
<1> QED
    BY <1>3, <1>4

LEMMA NextCallDurable ==
    ASSUME SyncingCaller, StructureInv, FileInv, FileInv', CrashInv, CrashNext
    PROVE  CallDurable'
<1>1. CallDurable
    BY DEF CrashInv
<1>2. ASSUME mbuf'.type \notin {"RollSegment", "TruncateStart"}, pc' \notin {"append", "sync"}
      PROVE  CallDurable'
    BY <1>2 DEF CallDurable
<1>3. NoOp.type = "None"
    BY DEF NoOp
<1>4. CASE Loading \/ Recovering \/ CommitSync \/ AppendFrames \/ DeleteDeadSegments
    <2>1. pc \in {"closed", "fix", "commit", "append", "idle"} /\ mbuf' = mbuf
          /\ pc' \notin {"append", "sync"}
        <3>1. CASE Loading \/ Recovering
            BY <3>1 DEF Loading, OpenClean, FixedUp, Loaded, Recovering, OpenWithIssues, Attempt,
                        Goto, callVars
        <3>2. CASE CommitSync \/ AppendFrames \/ DeleteDeadSegments
            BY <3>2 DEF CommitSync, AppendFrames, AppendAfter, DeleteDeadSegments, Goto, callVars
        <3> QED
            BY <1>4, <3>1, <3>2
    <2>2. mbuf = NoOp
        BY <2>1 DEF StructureInv, ControlOk, NoOpAt
    <2> QED
        BY <1>2, <1>3, <2>1, <2>2
<1>5. CASE SyncFixOp \/ PowerLoss \/ Restart \/ SyncTruncateStart \/ SyncDeleted \/ SyncMetadata
    <2>1. mbuf' = NoOp /\ pc' \notin {"append", "sync"}
        BY <1>5 DEF SyncFixOp, PowerLoss, Restart, ForgetMemory, SyncTruncateStart, SyncDeleted,
                    SyncMetadata, Goto
    <2> QED
        BY <1>2, <1>3, <2>1
<1>6. CASE Fixing
    <2>1. PICK fix \in scan(mdisk, disk) :
            /\ TruncateManifest(fix) \/ TruncateSegment(fix) \/ AppendFixOp(fix)
            /\ mbuf = NoOp
        BY <1>6, FixSteps
    <2>2. mbuf' = NoOp \/ mbuf' = RecordOrphanOp(fix.id) \/ mbuf' = SegmentDeletedOp(fix.id)
        BY <2>1 DEF TruncateManifest, TruncateSegment, AppendFixOp
    <2>3. mbuf'.type \notin {"RollSegment", "TruncateStart"}
        BY <1>3, <2>2 DEF RecordOrphanOp, SegmentDeletedOp
    <2> QED
        BY <1>2, <1>6, <2>3 DEF Fixing
<1>7. CASE RemoveFile \/ WriteMetadata
    <2>1. pc' = "flush" /\ \E x : mbuf' = SegmentDeletedOp(x) \/ mbuf' = MetadataOp(x)
        BY <1>7 DEF RemoveFile, WriteMetadata, Goto
    <2>2. mbuf'.type \in {"SegmentDeleted", "Metadata"}
        BY <2>1 DEF SegmentDeletedOp, MetadataOp
    <2> QED
        BY <1>2, <2>1, <2>2
<1>8. CASE Write
    BY <1>8, WrittenCall
<1>9. CASE TruncateStart
    <2>1. PICK first \in state.first_entry..(MaxId + 1) :
            mbuf' = TruncateStartOp(first, Evicted(state, first), [k \in {SnapshotKey} |-> first])
        BY <1>9 DEF TruncateStart
    <2>2. /\ mbuf'.type = "TruncateStart" /\ mbuf'.first_entry = first
          /\ mbuf'.drop = Evicted(state, first)
        BY <2>1 DEF TruncateStartOp
    <2>3. pc' = "flush" /\ state' = state
        BY <1>9 DEF TruncateStart, Goto, storeVars
    <2>4. \A id \in Evicted(state, first) : state.seals[id].last_entry < first
        BY DEF Evicted
    <2> QED
        BY <2>2, <2>3, <2>4 DEF CallDurable
<1>10. CASE CreateNew \/ WriteMagic \/ Flush
    BY <1>10, RollingCall
<1>11. CASE SyncRollover
    <2>1. /\ pc = "sync" /\ mbuf.type = "RollSegment" /\ mbuf' = NoOp /\ pc' = "append"
          /\ state' = Apply(state, mbuf) /\ UNCHANGED <<buf, last_entry_id>>
        BY <1>11 DEF SyncRollover, Goto
    <2>2. Opened
        BY <2>1 DEF Opened
    <2>3. WellFormed(state) /\ mbuf.sealed_id = state.active_segment_id
        <3>1. ApplyOk(state, mbuf)
            BY <2>1, <2>2, InFlight
        <3> QED
            BY <2>1, <2>2, <3>1, OpenFacts DEF ApplyOk
    <2>4. state'.first_entry = state.first_entry
        BY <2>1, <2>3, ApplyRollSegment
    <2> QED
        BY <1>1, <1>3, <2>1, <2>4 DEF CallDurable
<1>12. CASE UNCHANGED vars
    <2>1. UNCHANGED <<mdisk, msurv, mbuf, pc, disk, surv, active_id, next_seg_id, state, buf,
                    last_entry_id>>
        BY <1>12 DEF vars, diskVars, callVars, storeVars, cursorVars
    <2> QED
        BY <1>1, <2>1 DEF CallDurable, Outcomes, Manifests
<1> QED
    BY <1>4, <1>5, <1>6, <1>7, <1>8, <1>9, <1>10, <1>11, <1>12 DEF CrashNext, Syncing, Beginning

-----------------------------------------------------------------------------
\* The entries that a reader can reach, one by one.
LEMMA InLog ==
    ASSUME NEW st, NEW files, NEW x
    PROVE  x \in LogIds(st, files) <=>
            x >= st.first_entry /\ \E id \in Live(st) : x \in Ids(files[id].frames)
    BY DEF LogIds

\* A step that leaves the live segments and the head where they are.
LEMMA LogKept ==
    ASSUME LogHeld, Opened, UNCHANGED <<log, last_entry_id>>,
           Live(state') = Live(state), state'.first_entry = state.first_entry,
           \A id \in Live(state) : disk'[id] = disk[id] /\ Outcomes'[id] \subseteq Outcomes[id]
    PROVE  LogHeld'
<1>1. LogIds(state', disk') = LogIds(state, disk)
    <2>1. \A x : x \in LogIds(state', disk') <=> x \in LogIds(state, disk)
        BY InLog
    <2>2. \A s, f : LogIds(s, f) = {x \in LogIds(s, f) : TRUE}
        BY DEF LogIds
    <2> QED
        BY <2>1, <2>2
<1>2. \A id \in Live(state') : \A f \in Outcomes'[id] : \A x \in Ids(f.frames) : x <= last_entry_id
    BY DEF LogHeld
<1> QED
    BY <1>1, <1>2 DEF LogHeld

\* The last entry that a clean scan reports is the largest there is.
LEMMA ScannedLast ==
    ASSUME NEW st, WellFormed(st), Live(st) \subseteq SegIds,
           NEW files \in [SegIds -> FileType], NEW out,
           \A id \in SegIds : files[id] \in out[id] /\ out[id] \subseteq FileType,
           \A id \in SegIds : \A f \in out[id] : Ascending(f.frames),
           FilesPresent(st, out), SegmentsAscend(st, out),
           out[st.active_segment_id] = {files[st.active_segment_id]}
    PROVE  LET last == ScannedLastEntry(st, files)
           IN  /\ last = NoEntry \/ \E id \in Live(st) : last \in Ids(files[id].frames)
               /\ \A id \in Live(st) : \A f \in out[id] : \A x \in Ids(f.frames) : x <= last
<1> DEFINE a == st.active_segment_id
           F == files[a].frames
           last == ScannedLastEntry(st, files)
           sealed == {p \in DOMAIN st.segments : IsSealed(st, st.segments[p].id)}
<1>1. a \in Live(st) /\ a \in SegIds /\ F \in Seq(FrameType) /\ Ascending(F)
    BY LiveFacts DEF FileType
<1>2. PICK q \in DOMAIN st.segments :
        st.segments[q].id = a /\ \A p \in DOMAIN st.segments : p <= q
    BY DEF WellFormed, ActiveIsLast
<1>3. \A id \in Live(st) : \E p \in DOMAIN st.segments : st.segments[p].id = id
    BY DEF Live
<1>4. DOMAIN st.segments \subseteq Nat
    BY DEF WellFormed, StateShape
<1>5. CASE F # <<>>
    <2>1. last = Last(F).id
        BY <1>5 DEF ScannedLastEntry
    <2>2. last \in Ids(F) /\ \A x \in Ids(F) : x <= last
        BY <1>1, <1>5, <2>1, AscendingLast
    <2>3. ASSUME NEW id \in Live(st), NEW f \in out[id], NEW x \in Ids(f.frames)
          PROVE  x <= last
        <3>1. CASE id = a
            BY <2>2, <2>3, <3>1
        <3>2. CASE id # a
            <4>1. PICK p \in DOMAIN st.segments : st.segments[p].id = id
                BY <1>3
            <4>2. p < q
                BY <1>2, <1>4, <3>2, <4>1
            <4>3. x < last
                BY <1>1, <1>2, <2>2, <4>1, <4>2 DEF SegmentsAscend
            <4>4. x \in Nat /\ last \in Nat
                <5>1. f \in FileType /\ files[a] \in FileType
                    BY <1>1
                <5> QED
                    BY <2>2, <5>1, IdsNat
            <4> QED
                BY <4>3, <4>4
        <3> QED
            BY <3>1, <3>2
    <2> QED
        BY <1>1, <2>2, <2>3
<1>6. CASE F = <<>>
    <2>1. Ids(F) = {}
        BY <1>6 DEF Ids
    <2>2. CASE sealed = {}
        <3>1. last = NoEntry
            BY <1>6, <2>2 DEF ScannedLastEntry
        <3>2. \A id \in Live(st) : id = a
            BY <1>3, <2>2, LiveFacts DEF IsSealed
        <3> QED
            BY <2>1, <3>1, <3>2
    <2>3. CASE sealed # {}
        <3>1. PICK m \in sealed : \A p \in sealed : p <= m
            <4>1. sealed \subseteq 0..q
                BY <1>2, <1>4
            <4>2. q \in Nat
                BY <1>4
            <4> HIDE DEF sealed
            <4>3. \E m \in sealed : \A p \in sealed : p <= m
                BY <2>3, <4>1, <4>2, LargestOf
            <4> QED
                BY <4>3
        <3>2. Max(sealed) = m
            <4>1. sealed \subseteq Int
                BY <1>4
            <4> HIDE DEF sealed
            <4> QED
                BY <3>1, <4>1, MaxIs
        <3> DEFINE s == st.segments[m].id
        <3>3. last = st.seals[s].last_entry
            BY <1>6, <2>3, <3>2 DEF ScannedLastEntry
        <3>4. s \in DOMAIN st.seals /\ s \in Live(st) /\ s \in SegIds /\ m \in DOMAIN st.segments
            BY <3>1, LiveFacts DEF IsSealed
        <3> HIDE DEF last, s
        <3>5. ASSUME NEW f \in out[s]
              PROVE  last \in Ids(f.frames) /\ \A x \in Ids(f.frames) : x <= last
            <4>1. MatchesSeal(f, st.seals[s])
                BY <3>4, <3>5 DEF FilesPresent
            <4>2. f.frames \in Seq(FrameType) /\ Ascending(f.frames)
                BY <3>4, <3>5 DEF FileType
            <4> QED
                BY <3>3, <4>1, <4>2, AscendingLast DEF MatchesSeal
        <3>6. files[s] \in out[s]
            BY <3>4
        <3>7. ASSUME NEW id \in Live(st), NEW f \in out[id], NEW x \in Ids(f.frames)
              PROVE  x <= last
            <4>1. CASE id = a
                BY <2>1, <3>7, <4>1
            <4>2. CASE id = s
                BY <3>5, <3>7, <4>2
            <4>3. CASE id # a /\ id # s
                <5>1. PICK p \in DOMAIN st.segments : st.segments[p].id = id
                    BY <1>3
                <5>2. p \in sealed
                    BY <4>3, <5>1, LiveFacts DEF IsSealed
                <5>3. p < m
                    <6>1. p <= m /\ p # m
                        BY <3>1, <4>3, <5>1, <5>2 DEF s
                    <6> QED
                        BY <1>4, <3>4, <5>1, <6>1
                <5>4. x < last
                    BY <3>4, <3>5, <3>6, <5>1, <5>3 DEF SegmentsAscend, s
                <5>5. x \in Nat /\ last \in Nat
                    <6>1. f \in FileType /\ files[s] \in FileType
                        BY <3>4
                    <6> QED
                        BY <3>5, <3>6, <6>1, IdsNat
                <5> QED
                    BY <5>4, <5>5
            <4> QED
                BY <4>1, <4>2, <4>3
        <3> QED
            BY <3>4, <3>5, <3>6, <3>7 DEF last
    <2> QED
        BY <2>2, <2>3
<1> QED
    BY <1>5, <1>6

\* A clean scan: the log is what the segments hold.
LEMMA LoadedLog ==
    ASSUME StructureInv, FileInv, FileInv', CrashInv, Loading
    PROVE  LogHeld'
<1> DEFINE st == mdisk.st
           last == ScannedLastEntry(st, disk)
<1>1. ~Opened
    <2>1. pc \in {"closed", "fix"}
        BY DEF Loading, OpenClean, FixedUp
    <2> QED
        BY <2>1 DEF Opened
<1>2. Load /\ UNCHANGED <<disk, surv>>
    BY LoadedFrom DEF Loading, FileInv
<1>3. WellFormed(st) /\ Live(st) \subseteq SegIds /\ st.active_segment_id \in SegIds
    BY ManifestFacts, LiveFacts DEF CrashInv, Manifests
<1>4. \A id \in SegIds : disk[id] \in Outcomes[id] /\ Outcomes[id] \subseteq FileType
    BY OutcomesAre DEF FileInv
<1>5. Outcomes[st.active_segment_id] = {disk[st.active_segment_id]}
    BY <1>1 DEF CrashInv, ActiveDurable
<1>6. FilesPresent(st, Outcomes) /\ SegmentsAscend(st, Outcomes)
    BY DEF CrashInv, StatesDurable, Durable, Manifests
<1>7. \A id \in SegIds : \A f \in Outcomes[id] : Ascending(f.frames)
    BY DEF CrashInv, FramesDurable
<1>8. disk \in [SegIds -> FileType]
    BY DEF FileInv, DiskTyped
<1>9. /\ last = NoEntry \/ \E id \in Live(st) : last \in Ids(disk[id].frames)
      /\ \A id \in Live(st) : \A f \in Outcomes[id] : \A x \in Ids(f.frames) : x <= last
    <2> HIDE DEF st
    <2> QED
        BY <1>3, <1>4, <1>5, <1>6, <1>7, <1>8, ScannedLast
<1>10. state' = st /\ last_entry_id' = last /\ log' = LogIds(st, disk)
    BY <1>2 DEF Load
<1>11. Outcomes' = Outcomes /\ disk' = disk
    BY <1>2 DEF Outcomes
<1>12. last \in LogIds(st, disk) \/ last < st.first_entry \/ last = NoEntry
    <2>1. st.first_entry \in Nat
        BY <1>3 DEF WellFormed, StateShape
    <2>2. ASSUME NEW id \in Live(st), last \in Ids(disk[id].frames) PROVE last \in Nat
        <3>1. disk[id] \in FileType
            BY <1>3, <1>8
        <3> HIDE DEF last
        <3> QED
            BY <2>2, <3>1, IdsNat
    <2> HIDE DEF last, st
    <2> QED
        BY <1>9, <2>1, <2>2, InLog
<1> HIDE DEF last, st
<1> QED
    BY <1>9, <1>10, <1>11, <1>12 DEF LogHeld

\* A write adds its batch to the log, after everything else.
LEMMA AppendedLog ==
    ASSUME StructureInv, FileInv, FileInv', CrashInv, AppendFrames
    PROVE  LogHeld'
<1>1. /\ Opened /\ active_id \in SegIds /\ active_id \in Live(state)
      /\ buf \in Seq(FrameType) /\ buf # <<>> /\ Ascending(buf)
      /\ \A y \in Ids(buf) : y \in Nat /\ y > last_entry_id /\ y >= state.first_entry
      /\ disk[active_id].frames \in Seq(FrameType)
      /\ \A x \in SegIds : x # active_id => disk'[x] = disk[x] /\ surv'[x] = surv[x]
      /\ disk'[active_id] = SegmentFile(disk[active_id].frames \o buf, FALSE)
    BY AppendedFiles
<1>2. /\ log' = log \cup Ids(buf) /\ last_entry_id' = Last(buf).id
      /\ state' = state
    BY DEF AppendFrames, AppendAfter
<1>3. log = LogIds(state, disk)
    BY <1>1 DEF CrashInv, LogHeld
<1>4. Live(state) \subseteq SegIds
    BY <1>1, OpenFacts
<1>5. Ids(disk'[active_id].frames) = Ids(disk[active_id].frames) \cup Ids(buf)
    <2>1. disk'[active_id].frames = disk[active_id].frames \o buf
        BY <1>1 DEF SegmentFile
    <2> QED
        BY <1>1, <2>1, IdsConcat
<1>6. log' = LogIds(state', disk')
    <2>1. \A id \in Live(state) : id # active_id => disk'[id] = disk[id]
        BY <1>1, <1>4
    <2>2. \A x : x \in LogIds(state, disk') <=> x \in LogIds(state, disk) \cup Ids(buf)
        <3> SUFFICES ASSUME NEW x
                     PROVE  x \in LogIds(state, disk') <=> x \in LogIds(state, disk) \/ x \in Ids(buf)
            OBVIOUS
        <3>1. ASSUME x \in LogIds(state, disk')
              PROVE  x \in LogIds(state, disk) \/ x \in Ids(buf)
            <4>1. PICK id \in Live(state) : x >= state.first_entry /\ x \in Ids(disk'[id].frames)
                BY <3>1, InLog
            <4> QED
                BY <1>5, <2>1, <4>1, InLog
        <3>2. ASSUME x \in LogIds(state, disk)
              PROVE  x \in LogIds(state, disk')
            <4>1. PICK id \in Live(state) : x >= state.first_entry /\ x \in Ids(disk[id].frames)
                BY <3>2, InLog
            <4>2. x \in Ids(disk'[id].frames)
                BY <1>5, <2>1, <4>1
            <4> QED
                BY <4>1, <4>2, InLog
        <3>3. ASSUME x \in Ids(buf)
              PROVE  x \in LogIds(state, disk')
            BY <1>1, <1>5, <3>3, InLog
        <3> QED
            BY <3>1, <3>2, <3>3
    <2> QED
        BY <1>2, <1>3, <2>2
<1>7. Last(buf).id \in Ids(buf) /\ \A y \in Ids(buf) : y <= Last(buf).id
    BY <1>1, AscendingLast
<1>8. ASSUME NEW id \in Live(state), NEW g \in Outcomes'[id], NEW x \in Ids(g.frames)
      PROVE  x <= Last(buf).id
    <2>1. id \in SegIds /\ Outcomes'[id] = surv'[id] \cup {disk'[id]}
        BY <1>4, OutcomesArePrimed DEF FileInv
    <2>2. \E f \in Outcomes[id] : x \in Ids(f.frames) \/ x \in Ids(buf)
        <3>1. disk[id] \in Outcomes[id] /\ Outcomes[id] = surv[id] \cup {disk[id]}
            BY <2>1, OutcomesAre DEF FileInv
        <3>2. CASE id = active_id
            <4>1. Ids(g.frames) \subseteq Ids(disk[active_id].frames) \cup Ids(buf)
                BY <1>8, <2>1, <3>2, AppendedEntries
            <4> QED
                BY <1>8, <3>1, <3>2, <4>1
        <3>3. CASE id # active_id
            BY <1>1, <1>8, <2>1, <3>1, <3>3
        <3> QED
            BY <3>2, <3>3
    <2>3. CASE x \in Ids(buf)
        BY <1>7, <2>3
    <2>4. CASE \E f \in Outcomes[id] : x \in Ids(f.frames)
        <3>1. x <= last_entry_id
            BY <1>1, <2>4 DEF CrashInv, LogHeld
        <3>2. x \in Nat
            BY <2>1, <2>4, OutcomesAre, IdsNat DEF FileInv
        <3>3. Last(buf).id \in Nat /\ Last(buf).id > last_entry_id
            BY <1>1, <1>7
        <3>4. last_entry_id \in Nat
            BY BoundsAssumption DEF FileInv, MemoryTyped
        <3> QED
            BY <3>1, <3>2, <3>3, <3>4
    <2> QED
        BY <2>2, <2>3, <2>4
<1>9. last_entry_id' \in log'
    BY <1>2, <1>7
<1> QED
    BY <1>2, <1>6, <1>8, <1>9 DEF LogHeld

\* The log after truncate_start: no entry from the new head on is in a
\* segment that goes.
LEMMA TruncatedIds ==
    ASSUME StructureInv, FileInv, CrashInv, pc = "sync", mbuf.type = "TruncateStart"
    PROVE  LogIds(Apply(state, mbuf), disk) = {x \in log : x >= mbuf.first_entry}
<1> DEFINE next == Apply(state, mbuf)
           kept == {x \in log : x >= mbuf.first_entry}
<1>1. Opened
    BY DEF Opened
<1>2. WellFormed(state) /\ Live(state) \subseteq SegIds
    BY <1>1, OpenFacts
<1>3. /\ mbuf.first_entry \in Nat /\ mbuf.first_entry >= state.first_entry
      /\ mbuf.drop \subseteq DOMAIN state.seals
    <2>1. OpValid(state, mbuf, next_seg_id, to_delete)
        BY <1>1 DEF StructureInv, ControlOk, NoOp
    <2> QED
        BY <1>1, <2>1 DEF OpValid
<1>4. Live(next) = Live(state) \ mbuf.drop /\ next.first_entry = mbuf.first_entry
    BY <1>1, ApplyTruncateStart
<1>5. log = LogIds(state, disk)
    BY <1>1 DEF CrashInv, LogHeld
<1>6. ASSUME NEW id \in mbuf.drop, NEW x \in Ids(disk[id].frames)
      PROVE  x < mbuf.first_entry
    <2>1. id \in Live(state) /\ id \in SegIds /\ id \in DOMAIN state.seals
        BY <1>2, <1>3, <1>6, LiveFacts
    <2>2. disk[id] \in Outcomes[id] /\ disk[id] \in FileType
        BY <2>1, OutcomesAre DEF FileInv
    <2>3. state.seals[id].last_entry < mbuf.first_entry
        BY <1>1, <1>6 DEF CrashInv, CallDurable
    <2>4. PICK m \in Manifests : m.st = state
        BY <1>1 DEF CrashInv, CallDurable
    <2>5. MatchesSeal(disk[id], state.seals[id])
        BY <2>1, <2>2, <2>4 DEF CrashInv, StatesDurable, Durable, FilesPresent
    <2>6. Ascending(disk[id].frames) /\ disk[id].frames \in Seq(FrameType)
        BY <2>1, <2>2 DEF CrashInv, FramesDurable, FileType
    <2>7. x <= state.seals[id].last_entry
        BY <1>6, <2>5, <2>6, AscendingLast DEF MatchesSeal
    <2>8. x \in Nat /\ state.seals[id].last_entry \in Nat
        BY <1>6, <2>1, <2>2, IdsNat DEF FileInv, MemoryTyped, EntriesOk, SealInfo
    <2> QED
        BY <1>3, <2>3, <2>7, <2>8
<1>7. \A x \in log : x \in Nat
    BY BoundsAssumption DEF FileInv, HistoryTyped
<1>8. state.first_entry \in Nat
    BY <1>2 DEF WellFormed, StateShape
<1> QED
    <2>1. ASSUME NEW x
          PROVE  x \in kept <=> x \in LogIds(next, disk)
        <3>1. ASSUME x \in kept PROVE x \in LogIds(next, disk)
            <4>1. x \in LogIds(state, disk) /\ x >= mbuf.first_entry /\ x \in Nat
                BY <1>1, <1>5, <1>7, <3>1
            <4>2. PICK id \in Live(state) : x \in Ids(disk[id].frames)
                BY <4>1, InLog
            <4>3. id \notin mbuf.drop
                BY <1>3, <1>6, <4>1, <4>2
            <4> QED
                BY <1>4, <4>1, <4>2, <4>3, InLog
        <3>2. ASSUME x \in LogIds(next, disk) PROVE x \in kept
            <4>1. PICK id \in Live(next) : x \in Ids(disk[id].frames)
                BY <3>2, InLog
            <4>2. x >= mbuf.first_entry /\ id \in Live(state) /\ id \in SegIds
                BY <1>2, <1>4, <3>2, <4>1, InLog
            <4>3. x \in Nat
                BY <4>1, <4>2, OutcomesAre, IdsNat DEF FileInv
            <4>4. x \in LogIds(state, disk)
                BY <1>3, <1>8, <4>1, <4>2, <4>3, InLog
            <4> QED
                BY <1>1, <1>5, <4>2, <4>4
        <3> QED
            BY <3>1, <3>2
    <2> QED
        BY <1>1, <2>1 DEF LogIds

\* truncate_start drops what is before the new head, from the log too.
LEMMA TruncatedLog ==
    ASSUME StructureInv, FileInv, CrashInv, SyncTruncateStart
    PROVE  LogHeld'
<1>1. /\ pc = "sync" /\ mbuf.type = "TruncateStart" /\ Opened
      /\ state' = Apply(state, mbuf) /\ log' = {x \in log : x >= mbuf.first_entry}
      /\ UNCHANGED <<disk, surv, last_entry_id>>
    BY DEF SyncTruncateStart, segmentVars, Opened
<1>2. WellFormed(state) /\ Live(state) \subseteq SegIds
    BY <1>1, OpenFacts
<1>3. /\ mbuf.first_entry \in Nat /\ mbuf.first_entry >= state.first_entry
      /\ mbuf.drop \subseteq DOMAIN state.seals
    <2>1. OpValid(state, mbuf, next_seg_id, to_delete)
        BY <1>1 DEF StructureInv, ControlOk, NoOp
    <2> QED
        BY <1>1, <2>1 DEF OpValid
<1>4. Live(state') = Live(state) \ mbuf.drop /\ state'.first_entry = mbuf.first_entry
    BY <1>1, ApplyTruncateStart
<1>5. \A x \in log : x \in Nat
    BY BoundsAssumption DEF FileInv, HistoryTyped
<1>6. state.first_entry \in Nat
    BY <1>2 DEF WellFormed, StateShape
<1>7. log' = LogIds(state', disk')
    BY <1>1, TruncatedIds
<1>8. last_entry_id \in log' \/ last_entry_id < state'.first_entry \/ last_entry_id = NoEntry
    <2>1. last_entry_id \in Nat
        BY BoundsAssumption DEF FileInv, MemoryTyped
    <2>2. last_entry_id \in log \/ last_entry_id < state.first_entry \/ last_entry_id = NoEntry
        BY <1>1 DEF CrashInv, LogHeld
    <2> QED
        BY <1>1, <1>3, <1>4, <1>6, <2>1, <2>2
<1>9. \A id \in Live(state') : \A f \in Outcomes'[id] : \A x \in Ids(f.frames) : x <= last_entry_id
    <2>1. Outcomes' = Outcomes
        BY <1>1 DEF Outcomes
    <2> QED
        BY <1>1, <1>4, <2>1 DEF CrashInv, LogHeld
<1> QED
    BY <1>1, <1>7, <1>8, <1>9 DEF LogHeld

\* The new segment of a rollover is empty.
LEMMA RolledLog ==
    ASSUME StructureInv, FileInv, CrashInv, SyncRollover
    PROVE  LogHeld'
<1>1. /\ pc = "sync" /\ mbuf.type = "RollSegment" /\ Opened
      /\ state' = Apply(state, mbuf) /\ UNCHANGED <<disk, surv, last_entry_id, log>>
    BY DEF SyncRollover, segmentVars, Opened
<1>2. WellFormed(state) /\ mbuf.sealed_id = state.active_segment_id /\ mbuf.new_id = next_seg_id
    <2>1. ApplyOk(state, mbuf) /\ mbuf.new_id = next_seg_id
        BY <1>1, InFlight
    <2> QED
        BY <1>1, <2>1, OpenFacts DEF ApplyOk
<1>3. Live(state') = Live(state) \cup {next_seg_id} /\ state'.first_entry = state.first_entry
    BY <1>1, <1>2, ApplyRollSegment
<1>4. next_seg_id \in SegIds
    <2>1. OpValid(state, mbuf, next_seg_id, to_delete)
        BY <1>1 DEF StructureInv, ControlOk, NoOp
    <2> QED
        BY <1>1, <2>1 DEF OpValid
<1>5. \A f \in Outcomes[next_seg_id] : Ids(f.frames) = {}
    <2>1. Outcomes[next_seg_id] = {SegmentFile(<<>>, FALSE)}
        BY <1>1 DEF CrashInv, CallDurable
    <2>2. SegmentFile(<<>>, FALSE).frames = <<>>
        BY DEF SegmentFile
    <2>3. Ids(<<>>) = {}
        BY DEF Ids
    <2> QED
        BY <2>1, <2>2, <2>3
<1>6. disk[next_seg_id] \in Outcomes[next_seg_id] /\ Outcomes' = Outcomes
    BY <1>1, <1>4, OutcomesAre DEF FileInv, Outcomes
<1>7. LogIds(state', disk') = LogIds(state, disk)
    <2>1. \A x : x \in LogIds(state', disk) <=> x \in LogIds(state, disk)
        BY <1>3, <1>5, <1>6, InLog
    <2> QED
        BY <1>1, <2>1 DEF LogIds
<1>8. /\ log = LogIds(state, disk)
      /\ last_entry_id \in log \/ last_entry_id < state.first_entry \/ last_entry_id = NoEntry
      /\ \A id \in Live(state) : \A f \in Outcomes[id] : \A x \in Ids(f.frames) : x <= last_entry_id
    BY <1>1 DEF CrashInv, LogHeld
<1>9. \A id \in Live(state') : \A f \in Outcomes'[id] : \A x \in Ids(f.frames) : x <= last_entry_id
    BY <1>3, <1>5, <1>6, <1>8
<1> QED
    BY <1>1, <1>3, <1>7, <1>8, <1>9 DEF LogHeld

\* The log follows the live segments.
LEMMA NextLogHeld ==
    ASSUME SyncingCaller, StructureInv, FileInv, FileInv', CrashInv, CrashNext
    PROVE  LogHeld'
<1>1. LogHeld
    BY DEF CrashInv
<1>2. CASE Loading
    BY <1>2, LoadedLog
<1>3. CASE AppendFrames
    BY <1>3, AppendedLog
<1>4. CASE SyncTruncateStart
    BY <1>4, TruncatedLog
<1>5. CASE SyncRollover
    BY <1>5, RolledLog
<1>6. CASE Recovering \/ Fixing \/ SyncFixOp \/ PowerLoss \/ Restart
    <2>1. pc' \in {"fix", "fixsync", "closed"}
        BY <1>6 DEF Recovering, Fixing, SyncFixOp, PowerLoss, Restart, ForgetMemory, Goto
    <2> QED
        BY <2>1 DEF LogHeld, Opened
<1>7. CASE ~Opened /\ UNCHANGED vars
    <2>1. UNCHANGED <<pc, mbuf>>
        BY <1>7 DEF vars, callVars
    <2> QED
        BY <1>7, <2>1 DEF LogHeld, Opened
<1>8. CASE /\ ~PowerLoss /\ ~AppendFrames /\ ~Fixing
           /\ \/ CreateNew \/ WriteMagic \/ RemoveFile \/ Flush \/ Beginning \/ CommitSync
              \/ SyncDeleted \/ SyncMetadata \/ (Opened /\ UNCHANGED vars)
    <2>1. Opened
        <3>1. CASE CreateNew \/ WriteMagic
            <4>1. pc \in {"create", "magic"}
                BY <3>1 DEF CreateNew, WriteMagic
            <4>2. mbuf.type = "RollSegment"
                BY <4>1 DEF CrashInv, ControlDurable
            <4> QED
                BY <4>1, <4>2 DEF Opened, NoOp
        <3>2. CASE Flush
            BY <3>2, FlushedState
        <3>3. CASE RemoveFile \/ CommitSync \/ SyncDeleted \/ SyncMetadata
            BY <3>3 DEF RemoveFile, CommitSync, SyncDeleted, SyncMetadata, Opened
        <3>4. CASE Beginning
            BY <3>4 DEF Beginning, Write, TruncateStart, DeleteDeadSegments, WriteMetadata, Opened
        <3> QED
            BY <1>8, <3>1, <3>2, <3>3, <3>4
    <2>2. Live(state) \subseteq SegIds /\ active_id \in SegIds
        BY <2>1, OpenFacts
    <2>3. UNCHANGED <<log, last_entry_id>>
        <3>1. CASE CreateNew \/ WriteMagic \/ RemoveFile \/ Flush \/ CommitSync \/ UNCHANGED vars
            BY <3>1 DEF CreateNew, WriteMagic, RemoveFile, Flush, CommitSync, vars, storeVars
        <3>2. CASE Beginning
            BY <3>2 DEF Beginning, Write, TruncateStart, DeleteDeadSegments, WriteMetadata, storeVars
        <3>3. CASE SyncDeleted \/ SyncMetadata
            BY <3>3 DEF SyncDeleted, SyncMetadata
        <3> QED
            BY <1>8, <3>1, <3>2, <3>3
    <2>4. Live(state') = Live(state) /\ state'.first_entry = state.first_entry
        <3>1. CASE CreateNew \/ WriteMagic \/ RemoveFile \/ Flush \/ CommitSync \/ UNCHANGED vars
            BY <3>1 DEF CreateNew, WriteMagic, RemoveFile, Flush, CommitSync, vars, storeVars
        <3>2. CASE Beginning
            BY <3>2 DEF Beginning, Write, TruncateStart, DeleteDeadSegments, WriteMetadata, storeVars
        <3>3. CASE SyncDeleted \/ SyncMetadata
            <4>1. state' = Apply(state, mbuf) /\ mbuf.type \in {"SegmentDeleted", "Metadata"}
                BY <3>3 DEF SyncDeleted, SyncMetadata
            <4> QED
                BY <4>1, ApplySame DEF Live
        <3> QED
            BY <1>8, <3>1, <3>2, <3>3
    <2>5. ASSUME NEW id \in Live(state)
          PROVE  disk'[id] = disk[id] /\ Outcomes'[id] \subseteq Outcomes[id]
        <3>1. id \in SegIds
            BY <2>2
        <3>2. disk'[id] = disk[id] /\ (surv'[id] = surv[id] \/ surv'[id] = {disk[id]})
            BY <1>8, <2>5, <3>1, FilesChange
        <3> QED
            BY <3>1, <3>2, OutcomesAre, OutcomesArePrimed DEF FileInv
    <2> QED
        BY <1>1, <2>1, <2>3, <2>4, <2>5, LogKept
<1>9. CASE PowerLoss \/ AppendFrames \/ Fixing
    BY <1>3, <1>6, <1>9
<1> QED
    BY <1>2, <1>3, <1>4, <1>5, <1>6, <1>7, <1>8, <1>9 DEF CrashNext, Syncing

-----------------------------------------------------------------------------
\* A store that was created and synced.
LEMMA InitCrash ==
    ASSUME SyncingCaller, Init
    PROVE  CrashInv
<1> DEFINE st == FormattedState
<1>1. mdisk = ManifestFile(st, "clean") /\ Manifests = {mdisk}
    BY DEF Init, InitialManifest, SyncingCaller, Manifests
<1>2. mdisk.kind = "ok" /\ mdisk.tail = "clean" /\ mdisk.st = st
    BY <1>1 DEF ManifestFile
<1>3. /\ pc = "closed" /\ result = "none" /\ approved = FALSE /\ corrupts = 0 /\ mbuf = NoOp
      /\ msurv = {mdisk} /\ acked = {} /\ ~Opened
    BY <1>1 DEF Init, Opened, InitialManifest, SyncingCaller
<1>4. WellFormed(st) /\ Known(st) \subseteq SegIds
    BY FirstOp
<1>5. Live(st) = {1}
    <2>1. Live(create_segment(EmptyState, CreateSegmentOp(1, 0))) = {1}
        BY CreateSegmentWF
    <2>2. st.segments = create_segment(EmptyState, CreateSegmentOp(1, 0)).segments
        BY DEF FormattedState, Apply, ApplyStructure, WithMeta, CreateSegmentOp
    <2> QED
        BY <2>1, <2>2 DEF Live
<1>6. st.active_segment_id = 1 /\ DOMAIN st.seals = {}
    BY <1>4, <1>5, LiveFacts DEF WellFormed, SealedIsRest
<1>7. \A p, q \in DOMAIN st.segments : ~(p < q)
    <2>1. \A p \in DOMAIN st.segments : st.segments[p].id = 1 /\ p \in Nat
        BY <1>4, <1>5, LiveFacts DEF WellFormed, StateShape
    <2> QED
        BY <1>4, <2>1 DEF WellFormed, IdsUnique
<1>8. st # EmptyState
    BY <1>4 DEF WellFormed, ActiveIsLast, EmptyState
<1>9. \A id \in SegIds : Outcomes[id] = {InitialSegment(id)} /\ disk[id] = InitialSegment(id)
    BY DEF Init, Outcomes
<1>10. \A id \in SegIds : InitialSegment(id).frames = <<>>
    BY DEF InitialSegment, SegmentFile, AbsentFile
<1>11. 1 \in SegIds /\ InitialSegment(1).kind = "ok"
    BY MaxSegAssumption DEF SegIds, InitialSegment, SegmentFile, SyncingCaller
<1> HIDE DEF st
<1>12. ManifestsDurable
    BY <1>1, <1>2, <1>3, <1>8 DEF ManifestsDurable
<1>13. ControlDurable
    BY <1>3 DEF ControlDurable, NoOp
<1>14. FramesDurable
    BY <1>9, <1>10 DEF FramesDurable, Ascending
<1>15. StatesDurable
    <2>1. FilesPresent(st, Outcomes)
        BY <1>6, <1>9, <1>11 DEF FilesPresent
    <2>2. SegmentsAscend(st, Outcomes)
        BY <1>7 DEF SegmentsAscend
    <2>3. EntriesHeld(st, Outcomes, acked)
        BY <1>3 DEF EntriesHeld
    <2> QED
        BY <1>1, <1>2, <2>1, <2>2, <2>3 DEF StatesDurable, Durable
<1>16. ActiveDurable
    BY <1>2, <1>3, <1>6, <1>9, <1>11 DEF ActiveDurable
<1>17. CallDurable
    BY <1>3 DEF CallDurable, NoOp
<1>18. LogHeld
    BY <1>3 DEF LogHeld
<1> QED
    BY <1>12, <1>13, <1>14, <1>15, <1>16, <1>17, <1>18 DEF CrashInv

\* Every step of a syncing caller's store and every failure keeps CrashInv.
LEMMA NextCrash ==
    ASSUME SyncingCaller
    PROVE  /\ StructureInv /\ FileInv /\ CrashInv /\ [Next]_vars
           /\ StructureInv' /\ FileInv'
           => CrashInv'
<1> SUFFICES ASSUME StructureInv, FileInv, CrashInv, [Next]_vars, StructureInv', FileInv'
             PROVE  CrashInv'
    OBVIOUS
<1>1. CrashNext
    BY CrashSteps
<1>2. ManifestsDurable'
    BY <1>1, NextManifestsDurable
<1>3. ControlDurable'
    BY <1>1, NextControlDurable
<1>4. FramesDurable'
    BY <1>1, NextFramesDurable
<1>5. StatesDurable'
    BY <1>1, NextStatesDurable
<1>6. ActiveDurable'
    BY <1>1, <1>2, NextActiveDurable
<1>7. CallDurable'
    BY <1>1, NextCallDurable
<1>8. LogHeld'
    BY <1>1, NextLogHeld
<1> QED
    BY <1>2, <1>3, <1>4, <1>5, <1>6, <1>7, <1>8 DEF CrashInv

-----------------------------------------------------------------------------
\* A power loss at any moment, in a call, in a commit or in a recovery,
\* leaves a manifest and segment files that fit each other and hold every
\* entry that was acknowledged.
THEOREM CrashTheorem ==
    ASSUME SyncingCaller
    PROVE  Spec => [](StructureInv /\ FileInv /\ CrashInv)
<1>1. Init => CrashInv
    BY InitCrash
<1>2. StructureInv /\ FileInv /\ CrashInv /\ [Next]_vars /\ StructureInv' /\ FileInv' => CrashInv'
    BY NextCrash
<1> QED
    BY <1>1, <1>2, FileTheorem, PTL DEF Spec

\* Every sealed segment is what its seal says, whatever survives: a rollover
\* records the seal only once the file can no longer change.
THEOREM SealsTheorem ==
    ASSUME SyncingCaller
    PROVE  Spec => []SealsMatchFiles
<1>1. StructureInv /\ FileInv /\ CrashInv => SealsMatchFiles
    <2> SUFFICES ASSUME StructureInv, FileInv, CrashInv,
                        NEW m \in Manifests, NEW id \in DOMAIN m.st.seals,
                        NEW f \in surv[id] \cup {disk[id]}
                 PROVE  /\ f.kind = "ok" /\ IsClean(f)
                        /\ Len(f.frames) = m.st.seals[id].final_size
                        /\ Len(f.frames) = m.st.seals[id].entry_count
                        /\ Last(f.frames).id = m.st.seals[id].last_entry
        BY DEF SealsMatchFiles
    <2>1. id \in SegIds
        BY ManifestFacts, LiveFacts DEF CrashInv
    <2>2. f \in Outcomes[id] /\ f \in FileType
        BY <2>1, OutcomesAre DEF FileInv
    <2>3. MatchesSeal(f, m.st.seals[id])
        BY <2>2 DEF CrashInv, StatesDurable, Durable, FilesPresent
    <2>4. \A i \in DOMAIN f.frames : f.frames[i].ok
        BY <2>1, <2>2 DEF CrashInv, FramesDurable
    <2>5. CleanLen(f.frames) = Len(f.frames)
        BY <2>4 DEF CleanLen
    <2> QED
        BY <2>3, <2>5 DEF MatchesSeal, IsClean
<1> QED
    BY <1>1, CrashTheorem, PTL

\* Whatever a power loss leaves, open needs no approval and never refuses:
\* all issues of the scan are ones that attempt_recovery fixes by itself, and
\* the scan after the fix-ups is clean.
THEOREM OpensTheorem ==
    ASSUME SyncingCaller
    PROVE  Spec => []OpensUnattended
<1>1. CrashInv => OpensUnattended
    BY DEF CrashInv, ControlDurable, OpensUnattended
<1> QED
    BY <1>1, CrashTheorem, PTL

\* The log that the caller wrote is what the live segments hold.
THEOREM LogTheorem ==
    ASSUME SyncingCaller
    PROVE  Spec => []SegmentsHoldLog
<1>1. CrashInv => SegmentsHoldLog
    BY DEF CrashInv, LogHeld, SegmentsHoldLog, Opened
<1> QED
    BY <1>1, CrashTheorem, PTL

\* No entry whose Commit::sync returned is ever lost, but by truncate_start.
THEOREM AckedTheorem ==
    ASSUME SyncingCaller
    PROVE  Spec => []AckedReadable
<1>1. StructureInv /\ FileInv /\ CrashInv => AckedReadable
    <2> SUFFICES ASSUME StructureInv, FileInv, CrashInv, pc = "idle",
                        NEW x \in acked, x >= state.first_entry
                 PROVE  x \in LogIds(state, disk)
        BY DEF AckedReadable
    <2>1. Opened
        BY DEF Opened
    <2>2. mdisk.st = state /\ Live(state) \subseteq SegIds
        BY <2>1, OpenFacts DEF StructureInv, MemoryOk
    <2>3. EntriesHeld(state, Outcomes, acked)
        BY <2>2 DEF CrashInv, StatesDurable, Durable, Manifests
    <2>4. PICK id \in Live(state) : \A f \in Outcomes[id] : x \in Ids(f.frames)
        BY <2>3 DEF EntriesHeld
    <2>5. disk[id] \in Outcomes[id]
        BY <2>2, OutcomesAre DEF FileInv
    <2> QED
        BY <2>4, <2>5, InLog
<1> QED
    BY <1>1, CrashTheorem, PTL

\* last_entry_id() is the largest entry that can be read, also right after a
\* reopen, a rollover, and a truncate_start beyond the end of the log.
THEOREM LastEntryTheorem ==
    ASSUME SyncingCaller
    PROVE  Spec => []LastEntryIsLast
<1>1. StructureInv /\ FileInv /\ CrashInv => LastEntryIsLast
    <2> SUFFICES ASSUME StructureInv, FileInv, CrashInv, pc = "idle"
                 PROVE  LastEntryId = IF log = {} THEN NoEntry ELSE Max(log)
        BY DEF LastEntryIsLast
    <2>1. Opened
        BY DEF Opened
    <2>2. /\ log = LogIds(state, disk)
          /\ last_entry_id \in log \/ last_entry_id < state.first_entry \/ last_entry_id = NoEntry
          /\ \A id \in Live(state) : \A f \in Outcomes[id] :
                \A x \in Ids(f.frames) : x <= last_entry_id
        BY <2>1 DEF CrashInv, LogHeld
    <2>3. WellFormed(state) /\ Live(state) \subseteq SegIds
        BY <2>1, OpenFacts
    <2>4. \A id \in Live(state) : disk[id] \in Outcomes[id]
        BY <2>3, OutcomesAre DEF FileInv
    <2>5. \A x \in log : x <= last_entry_id /\ x >= state.first_entry
        BY <2>2, <2>4, InLog
    <2>6. \A x \in log : x \in Nat \ {0}
        BY BoundsAssumption DEF FileInv, HistoryTyped
    <2>7. last_entry_id \in Nat /\ state.first_entry \in Nat
        BY <2>3, BoundsAssumption DEF FileInv, MemoryTyped, WellFormed, StateShape
    <2>8. CASE last_entry_id \in log
        <3>1. Max(log) = last_entry_id
            <4>1. log \subseteq Int
                BY <2>6
            <4> QED
                BY <2>5, <2>8, <4>1, MaxIs
        <3>2. ~(last_entry_id < state.first_entry)
            BY <2>5, <2>7, <2>8
        <3> QED
            BY <2>8, <3>1, <3>2 DEF LastEntryId
    <2>9. CASE last_entry_id \notin log
        <3>1. log = {}
            <4>1. ASSUME NEW x \in log PROVE FALSE
                BY <2>2, <2>5, <2>6, <2>7, <2>9 DEF NoEntry
            <4> QED
                BY <4>1
        <3>2. LastEntryId = NoEntry
            BY <2>2, <2>9 DEF LastEntryId
        <3> QED
            BY <3>1, <3>2
    <2> QED
        BY <2>8, <2>9
<1> QED
    BY <1>1, CrashTheorem, PTL
=============================================================================
