----------------------------- MODULE OrderProofs ----------------------------
(***************************************************************************)
(* Order, for a caller that syncs its commits (SyncingCaller), and all     *)
(* bounds: the first entries of the segments are in order, if that caller  *)
(* leaves no gap of ids after a power loss (NoLostGap); and the index and  *)
(* the scans that start from it are, with gaps or without.                 *)
(***************************************************************************)
EXTENDS LogProofs

\* What the order of the segments depends on.
SameSegments(s, t) ==
    /\ s.segments = t.segments /\ s.seals = t.seals
    /\ s.active_segment_id = t.active_segment_id
    /\ s.first_entry = t.first_entry

-----------------------------------------------------------------------------
(***************************************************************************)
(* The manifests.                                                          *)
(***************************************************************************)
\* Only the operation in flight makes a manifest with other segments.
LEMMA ManifestStep ==
    ASSUME SyncingCaller, StructureInv, FileInv, CrashInv, CrashNext, NEW m \in Manifests'
    PROVE  \/ \E n \in Manifests : SameSegments(m.st, n.st)
           \/ Flush /\ m.st = Apply(state, mbuf)
<1>1. mdisk \in Manifests /\ ManifestsDurable
    BY DEF Manifests, CrashInv
<1>2. ASSUME Manifests' \subseteq Manifests
      PROVE  \E n \in Manifests : SameSegments(m.st, n.st)
    BY <1>2 DEF SameSegments
<1>3. CASE Loading \/ Recovering \/ UNCHANGED vars
    BY <1>2, <1>3 DEF Loading, OpenClean, FixedUp, Recovering, OpenWithIssues, Attempt, vars,
                diskVars, Manifests
<1>4. CASE CreateNew \/ WriteMagic \/ RemoveFile \/ SyncFixOp \/ PowerLoss \/ Restart
             \/ AppendFrames \/ CommitSync
    BY <1>2, <1>4 DEF CreateNew, WriteMagic, RemoveFile, SyncFixOp, PowerLoss, Restart,
                AppendFrames, AppendAfter, CommitSync, manifestVars, diskVars, SyncManifest,
                Manifests
<1>5. CASE Beginning \/ Syncing
    <2>1. CASE Beginning
        BY <1>2, <2>1 DEF Beginning, Write, TruncateStart, DeleteDeadSegments, WriteMetadata,
                    diskVars, Manifests
    <2>2. CASE Syncing
        BY <1>2, <2>2 DEF Syncing, SyncRollover, SyncTruncateStart, SyncDeleted, SyncMetadata,
                    SyncManifest, Manifests
    <2> QED
        BY <1>5, <2>1, <2>2
<1>6. CASE Flush
    <2>1. AppendManifest(mbuf) /\ mdisk.st = state /\ msurv = {mdisk}
        BY <1>6, FlushedState DEF Flush
    <2>2. m.st \in {mdisk.st, Apply(state, mbuf)}
        BY <2>1, AppendedManifests
    <2> QED
        BY <1>1, <1>6, <2>1, <2>2 DEF SameSegments
<1>7. CASE Fixing
    <2>1. PICK fix \in scan(mdisk, disk) :
            /\ TruncateManifest(fix) \/ TruncateSegment(fix) \/ AppendFixOp(fix)
            /\ msurv = {mdisk}
        BY <1>7, FixSteps
    <2>2. CASE TruncateManifest(fix)
        <3>1. mdisk' = ManifestFile(mdisk.st, "clean") /\ msurv' = {mdisk'}
            BY <2>2 DEF TruncateManifest
        <3>2. m.st = mdisk.st
            BY <3>1 DEF ManifestFile, Manifests
        <3> QED
            BY <1>1, <3>2 DEF SameSegments
    <2>3. CASE TruncateSegment(fix)
        BY <1>2, <2>3 DEF TruncateSegment, manifestVars, Manifests
    <2>4. CASE AppendFixOp(fix)
        <3>1. /\ AppendManifest(mbuf')
              /\ mbuf' = RecordOrphanOp(fix.id) \/ mbuf' = SegmentDeletedOp(fix.id)
            BY <2>4 DEF AppendFixOp
        <3>2. mbuf'.type \in {"SegmentDeleted", "RecordOrphan", "Metadata"}
            BY <3>1 DEF RecordOrphanOp, SegmentDeletedOp
        <3>3. SameSegments(Apply(mdisk.st, mbuf'), mdisk.st)
            BY <3>2, ApplySame DEF SameSegments
        <3>4. m.st \in {mdisk.st, Apply(mdisk.st, mbuf')}
            BY <2>1, <3>1, AppendedManifests
        <3> QED
            BY <1>1, <3>3, <3>4 DEF SameSegments
    <2> QED
        BY <2>1, <2>2, <2>3, <2>4
<1> QED
    BY <1>3, <1>4, <1>5, <1>6, <1>7 DEF CrashNext

\* The state in memory is one that a power loss may leave.
LEMMA StateIsManifest ==
    ASSUME StructureInv, CrashInv, Opened
    PROVE  \E m \in Manifests : m.st = state
<1>1. CASE pc = "sync"
    BY <1>1 DEF CrashInv, CallDurable
<1>2. CASE pc # "sync"
    BY <1>2 DEF StructureInv, MemoryOk, Manifests
<1> QED
    BY <1>1, <1>2

\* The operation in flight leaves the segments, drops some of them that end
\* before the new head, or adds one.
LEMMA FlushedSegments ==
    ASSUME StructureInv, FileInv, CrashInv, Flush
    PROVE  LET s == Apply(state, mbuf)
           IN  \/ SameSegments(s, state)
               \/ /\ mbuf.type = "TruncateStart"
                  /\ DOMAIN s.segments \subseteq DOMAIN state.segments
                  /\ \A p \in DOMAIN s.segments : s.segments[p] = state.segments[p]
                  /\ s.active_segment_id = state.active_segment_id
                  /\ s.first_entry \in Nat /\ s.first_entry >= state.first_entry
                  /\ DOMAIN s.seals \subseteq DOMAIN state.seals
                  /\ \A id \in DOMAIN s.seals : s.seals[id] = state.seals[id]
                  /\ \A id \in DOMAIN state.seals \ DOMAIN s.seals :
                        state.seals[id].last_entry < s.first_entry
               \/ /\ mbuf.type = "RollSegment"
                  /\ s.first_entry = state.first_entry
                  /\ s.active_segment_id = next_seg_id /\ next_seg_id \notin Live(state)
                  /\ active_id \in DOMAIN s.seals
                  /\ s.seals[active_id].last_entry = mbuf.seal.last_entry
                  /\ \E n \in Nat :
                        /\ \A p \in DOMAIN state.segments : p < n
                        /\ DOMAIN s.segments = DOMAIN state.segments \cup {n}
                        /\ \A p \in DOMAIN state.segments : s.segments[p] = state.segments[p]
                        /\ s.segments[n] =
                            [id |-> next_seg_id, first_entry |-> mbuf.new_first_entry]
<1> DEFINE s == Apply(state, mbuf)
<1>1. /\ Opened /\ pc = "flush" /\ mdisk.st = state /\ WellFormed(state)
      /\ OpValid(state, mbuf, next_seg_id, to_delete)
    BY FlushedState
<1>2. active_id = state.active_segment_id /\ next_seg_id \notin Live(state)
    BY <1>1, OpenFacts DEF Known
<1>3. CASE mbuf.type = "RollSegment"
    <2>1. mbuf.sealed_id = state.active_segment_id /\ mbuf.new_id = next_seg_id
        <3>1. mbuf = RollSegmentOp(state.active_segment_id, mbuf.seal, next_seg_id,
                                   mbuf.new_first_entry)
            BY <1>1, <1>3 DEF OpValid
        <3> QED
            BY <3>1 DEF RollSegmentOp
    <2>2. PICK n \in Nat :
            /\ \A p \in DOMAIN state.segments : p < n
            /\ DOMAIN s.segments = DOMAIN state.segments \cup {n}
            /\ \A p \in DOMAIN state.segments : s.segments[p] = state.segments[p]
            /\ s.segments[n] = [id |-> mbuf.new_id, first_entry |-> mbuf.new_first_entry]
            /\ s.seals = Insert(state.seals, state.active_segment_id, mbuf.seal)
            /\ s.active_segment_id = mbuf.new_id
            /\ s.first_entry = state.first_entry
        BY <1>1, <1>3, <2>1, ApplyRollSegment
    <2> HIDE DEF s
    <2>3. active_id \in DOMAIN s.seals /\ s.seals[active_id] = mbuf.seal
        BY <1>2, <2>2 DEF Insert
    <2> QED
        BY <1>2, <1>3, <2>1, <2>2, <2>3 DEF s
<1>4. CASE mbuf.type = "TruncateStart"
    <2>1. /\ mbuf.first_entry \in Nat /\ mbuf.first_entry >= state.first_entry
        BY <1>1, <1>4 DEF OpValid
    <2>2. \A id \in mbuf.drop : state.seals[id].last_entry < mbuf.first_entry
        BY <1>4 DEF CrashInv, CallDurable
    <2>3. /\ s.segments = Retain(state.segments, mbuf.drop)
          /\ s.seals = Without(state.seals, mbuf.drop)
          /\ s.active_segment_id = state.active_segment_id
          /\ s.first_entry = mbuf.first_entry
        BY <1>4, ApplyTruncateStart
    <2> HIDE DEF s
    <2>4. /\ DOMAIN s.segments \subseteq DOMAIN state.segments
          /\ \A p \in DOMAIN s.segments : s.segments[p] = state.segments[p]
        BY <2>3 DEF Retain, Without
    <2>5. /\ DOMAIN s.seals = DOMAIN state.seals \ mbuf.drop
          /\ \A id \in DOMAIN s.seals : s.seals[id] = state.seals[id]
        BY <2>3 DEF Without
    <2> QED
        BY <1>4, <2>1, <2>2, <2>3, <2>4, <2>5 DEF s
<1>5. CASE mbuf.type \in {"SegmentDeleted", "Metadata"}
    BY <1>5, ApplySame DEF SameSegments
<1>6. mbuf.type \in {"RollSegment", "TruncateStart", "SegmentDeleted", "Metadata"}
    <2>1. mbuf.type # "TruncateEnd"
        BY DEF CrashInv, ControlDurable
    <2> QED
        BY <1>1, <2>1 DEF OpValid
<1> QED
    BY <1>3, <1>4, <1>5, <1>6

-----------------------------------------------------------------------------
(***************************************************************************)
(* OrderInv, part by part.                                                 *)
(***************************************************************************)
\* The first entries of segments are numbers.
LEMMA FirstsTyped ==
    ASSUME FileInv, NEW m \in Manifests
    PROVE  \A p \in DOMAIN m.st.segments : m.st.segments[p].first_entry \in Nat
<1>1. EntriesOk(m.st)
    BY DEF FileInv, ManifestsTyped
<1> QED
    BY <1>1, BoundsAssumption DEF EntriesOk

\* The batch of a call is in order.
LEMMA BatchFrom ==
    ASSUME CallTyped, Ascending(buf), buf # <<>>, NEW y \in Ids(buf)
    PROVE  buf[1].id <= y /\ y \in Nat /\ buf[1].id \in Nat
<1>1. buf \in Seq(FrameType)
    BY DEF CallTyped
<1>2. PICK i \in DOMAIN buf : y = buf[i].id
    BY DEF Ids
<1>3. DOMAIN buf = 1..Len(buf) /\ Len(buf) \in Nat /\ 1 \in DOMAIN buf
    BY <1>1, EmptySeq
<1>4. \A j \in DOMAIN buf : buf[j].id \in Nat
    BY <1>1, BoundsAssumption DEF FrameType
<1>5. i = 1 \/ buf[1].id < buf[i].id
    BY <1>2, <1>3 DEF Ascending
<1> QED
    BY <1>2, <1>3, <1>4, <1>5

\* But for an append, files keep a state's segments in their bounds.
LEMMA BoundsKept ==
    ASSUME SyncingCaller, StructureInv, FileInv, FileInv', CrashInv, CrashNext, ~AppendFrames,
           NEW n \in Manifests, SegmentsBounded(n.st, Outcomes)
    PROVE  SegmentsBounded(n.st, Outcomes')
<1>1. WellFormed(n.st) /\ Live(n.st) \subseteq SegIds
    BY ManifestFacts DEF CrashInv
<1>2. ASSUME NEW id \in Live(n.st), NEW g \in Outcomes'[id]
      PROVE  \E f \in Outcomes[id] : g.frames = f.frames
    <2>1. \/ \E f \in Outcomes[id] : Stands(g, f)
          \/ id \notin Live(mdisk.st) /\ msurv = {mdisk}
        BY <1>1, <1>2, FilesStand
    <2> QED
        BY <2>1 DEF Manifests, Stands
<1> SUFFICES ASSUME NEW p \in DOMAIN n.st.segments, NEW g \in Outcomes'[n.st.segments[p].id],
                    NEW x \in Ids(g.frames)
             PROVE  /\ n.st.segments[p].first_entry <= x
                    /\ \A q \in DOMAIN n.st.segments :
                            p < q => x < n.st.segments[q].first_entry
    BY DEF SegmentsBounded
<1>3. PICK f \in Outcomes[n.st.segments[p].id] : g.frames = f.frames
    BY <1>2 DEF Live
<1> QED
    BY <1>3 DEF SegmentsBounded

\* An append writes to the last segment, from its first entry on.
LEMMA AppendBounded ==
    ASSUME StructureInv, FileInv, FileInv', CrashInv, AppendFrames,
           BatchBounded, SegmentsBounded(state, Outcomes)
    PROVE  SegmentsBounded(state, Outcomes')
<1>1. /\ Opened /\ pc = "append" /\ mdisk.st = state /\ mdisk \in Manifests
      /\ active_id \in SegIds /\ active_id = state.active_segment_id
      /\ buf # <<>> /\ Ascending(buf)
      /\ \A x \in SegIds : x # active_id => disk'[x] = disk[x] /\ surv'[x] = surv[x]
    BY AppendedFiles DEF Manifests
<1>2. WellFormed(state) /\ Live(state) \subseteq SegIds
    BY <1>1, OpenFacts
<1>3. \A p \in DOMAIN state.segments : state.segments[p].first_entry \in Nat
    BY <1>1, FirstsTyped
<1> SUFFICES ASSUME NEW p \in DOMAIN state.segments, NEW g \in Outcomes'[state.segments[p].id],
                    NEW x \in Ids(g.frames)
             PROVE  /\ state.segments[p].first_entry <= x
                    /\ \A q \in DOMAIN state.segments :
                            p < q => x < state.segments[q].first_entry
    BY DEF SegmentsBounded
<1>4. state.segments[p].id \in SegIds
    BY <1>2 DEF Live
<1>5. ASSUME NEW f \in Outcomes[state.segments[p].id], x \in Ids(f.frames)
      PROVE  /\ state.segments[p].first_entry <= x
             /\ \A q \in DOMAIN state.segments : p < q => x < state.segments[q].first_entry
    BY <1>5 DEF SegmentsBounded
<1>6. CASE state.segments[p].id # active_id
    <2>1. g \in Outcomes[state.segments[p].id]
        BY <1>1, <1>4, <1>6, OutcomesAre, OutcomesArePrimed DEF FileInv
    <2> QED
        BY <1>5, <2>1
<1>7. CASE state.segments[p].id = active_id
    <2>1. x \in Ids(disk[active_id].frames) \cup Ids(buf)
        <3>1. g \in surv'[active_id] \cup {disk'[active_id]}
            BY <1>1, <1>7, OutcomesArePrimed DEF FileInv
        <3> QED
            BY <3>1, AppendedEntries
    <2>2. CASE x \in Ids(disk[active_id].frames)
        BY <1>4, <1>5, <1>7, <2>2, OutcomesAre DEF FileInv
    <2>3. CASE x \in Ids(buf)
        <3>1. buf[1].id <= x /\ x \in Nat /\ buf[1].id \in Nat
            BY <1>1, <2>3, BatchFrom DEF FileInv
        <3>2. state.segments[p].first_entry <= buf[1].id
            BY <1>1, <1>7 DEF BatchBounded
        <3>3. \A q \in DOMAIN state.segments : ~(p < q)
            BY <1>1, <1>2, <1>7, LiveFacts
        <3> QED
            BY <1>3, <3>1, <3>2, <3>3
    <2> QED
        BY <2>1, <2>2, <2>3
<1> QED
    BY <1>6, <1>7

\* The operation in flight keeps the segments in their bounds: a rollover
\* starts the new one after all entries there are.
LEMMA FlushedBounded ==
    ASSUME StructureInv, FileInv, CrashInv, Flush, BatchBounded,
           SegmentsBounded(state, Outcomes)
    PROVE  SegmentsBounded(Apply(state, mbuf), Outcomes)
<1> DEFINE s == Apply(state, mbuf)
<1>1. Opened /\ pc = "flush" /\ mdisk.st = state /\ mdisk \in Manifests /\ WellFormed(state)
    BY FlushedState DEF Manifests
<1>2. DOMAIN state.segments \subseteq Nat /\ Live(state) \subseteq SegIds
    BY <1>1, OpenFacts DEF WellFormed, StateShape
<1> HIDE DEF s
<1>3. ASSUME SameSegments(s, state)
      PROVE  SegmentsBounded(s, Outcomes)
    BY <1>3 DEF SameSegments, SegmentsBounded
<1>4. ASSUME DOMAIN s.segments \subseteq DOMAIN state.segments,
             \A p \in DOMAIN s.segments : s.segments[p] = state.segments[p]
      PROVE  SegmentsBounded(s, Outcomes)
    BY <1>4 DEF SegmentsBounded
<1>5. ASSUME mbuf.type = "RollSegment",
             NEW n \in Nat, \A p \in DOMAIN state.segments : p < n,
             DOMAIN s.segments = DOMAIN state.segments \cup {n},
             \A p \in DOMAIN state.segments : s.segments[p] = state.segments[p],
             s.segments[n] = [id |-> next_seg_id, first_entry |-> mbuf.new_first_entry]
      PROVE  SegmentsBounded(s, Outcomes)
    <2>1. Outcomes[next_seg_id] = {SegmentFile(<<>>, FALSE)}
        BY <1>1, <1>5 DEF CrashInv, CallDurable
    <2>2. mbuf.new_first_entry > last_entry_id /\ mbuf.new_first_entry \in Nat
        BY <1>5, BoundsAssumption DEF BatchBounded, CrashInv, CallDurable, FileInv, CallTyped
    <2>3. last_entry_id \in Nat
        BY BoundsAssumption DEF FileInv, MemoryTyped
    <2> SUFFICES ASSUME NEW p \in DOMAIN s.segments, NEW f \in Outcomes[s.segments[p].id],
                        NEW x \in Ids(f.frames)
                 PROVE  /\ s.segments[p].first_entry <= x
                        /\ \A q \in DOMAIN s.segments : p < q => x < s.segments[q].first_entry
        BY DEF SegmentsBounded
    <2>4. p # n
        <3> SUFFICES ASSUME p = n PROVE FALSE
            OBVIOUS
        <3>1. s.segments[p].id = next_seg_id
            BY <1>5
        <3>2. f = SegmentFile(<<>>, FALSE)
            BY <2>1, <3>1
        <3> QED
            BY <3>2 DEF SegmentFile, Ids
    <2>5. p \in DOMAIN state.segments /\ s.segments[p] = state.segments[p]
        BY <1>5, <2>4
    <2>6. state.segments[p].id \in Live(state) /\ state.segments[p].id \in SegIds
        BY <1>2, <2>5 DEF Live
    <2>7. x <= last_entry_id
        BY <1>1, <2>5, <2>6 DEF CrashInv, LogHeld
    <2>8. x \in Nat
        <3>1. f \in FileType
            BY <2>5, <2>6, OutcomesAre DEF FileInv
        <3> QED
            BY <3>1, IdsNat
    <2>9. ASSUME NEW q \in DOMAIN s.segments, p < q
          PROVE  x < s.segments[q].first_entry
        <3>1. CASE q = n
            BY <1>5, <2>2, <2>3, <2>7, <2>8, <3>1
        <3>2. CASE q # n
            BY <1>5, <2>5, <2>9, <3>2 DEF SegmentsBounded
        <3> QED
            BY <3>1, <3>2
    <2> QED
        BY <2>5, <2>9 DEF SegmentsBounded
<1> QED
    BY <1>3, <1>4, <1>5, FlushedSegments DEF s

\* Whatever a power loss leaves, its segments are in their bounds.
LEMMA NextBounded ==
    ASSUME SyncingCaller, StructureInv, FileInv, FileInv', OrderInv, CrashNext
    PROVE  \A m \in Manifests' : SegmentsBounded(m.st, Outcomes')
<1>1. CrashInv /\ BatchBounded /\ \A n \in Manifests : SegmentsBounded(n.st, Outcomes)
    BY DEF OrderInv, LogInv
<1>2. CASE AppendFrames
    <2>1. /\ UNCHANGED <<mdisk, msurv>> /\ msurv = {mdisk} /\ mdisk.st = state
        BY <1>1, <1>2, AppendedFiles
    <2>2. SegmentsBounded(state, Outcomes)
        BY <1>1, <2>1 DEF Manifests
    <2>3. SegmentsBounded(state, Outcomes')
        BY <1>1, <1>2, <2>2, AppendBounded
    <2> QED
        BY <2>1, <2>3 DEF Manifests
<1>3. CASE ~AppendFrames
    <2> SUFFICES ASSUME NEW m \in Manifests'
                 PROVE  SegmentsBounded(m.st, Outcomes')
        OBVIOUS
    <2>1. CASE \E n \in Manifests : SameSegments(m.st, n.st)
        <3>1. PICK n \in Manifests : SameSegments(m.st, n.st)
            BY <2>1
        <3>2. SegmentsBounded(n.st, Outcomes')
            BY <1>1, <1>3, BoundsKept
        <3> QED
            BY <3>1, <3>2 DEF SameSegments, SegmentsBounded
    <2>2. CASE Flush /\ m.st = Apply(state, mbuf)
        <3>1. mdisk.st = state /\ mdisk \in Manifests
            BY <1>1, <2>2, FlushedState DEF Manifests
        <3>2. Outcomes' = Outcomes
            BY <2>2 DEF Flush, segmentVars, Outcomes
        <3>3. SegmentsBounded(state, Outcomes)
            BY <1>1, <3>1
        <3> QED
            BY <1>1, <2>2, <3>2, <3>3, FlushedBounded
    <2> QED
        BY <1>1, <2>1, <2>2, ManifestStep
<1> QED
    BY <1>2, <1>3

\* Which steps begin, carry and end a rollover.
LEMMA RollingSteps ==
    ASSUME StructureInv, FileInv, CrashInv, CrashNext
    PROVE  \/ mbuf'.type # "RollSegment" /\ pc' # "append"
           \/ Write \/ SyncRollover
           \/ /\ CreateNew \/ WriteMagic \/ Flush
              /\ UNCHANGED <<mbuf, buf, state, active_id, last_entry_id>> /\ pc' # "append"
           \/ UNCHANGED vars
<1>1. NoOp.type = "None"
    BY DEF NoOp
<1>2. CASE Loading \/ Recovering \/ CommitSync \/ AppendFrames \/ DeleteDeadSegments
    <2>1. /\ pc \in {"closed", "fix", "commit", "append", "idle"} /\ mbuf' = mbuf
          /\ pc' # "append"
        <3>1. CASE Loading \/ Recovering
            BY <3>1 DEF Loading, OpenClean, FixedUp, Loaded, Recovering, OpenWithIssues, Attempt,
                        Goto, callVars
        <3>2. CASE CommitSync \/ AppendFrames \/ DeleteDeadSegments
            BY <3>2 DEF CommitSync, AppendFrames, AppendAfter, DeleteDeadSegments, Goto, callVars
        <3> QED
            BY <1>2, <3>1, <3>2
    <2>2. mbuf = NoOp
        BY <2>1 DEF StructureInv, ControlOk, NoOpAt
    <2> QED
        BY <1>1, <2>1, <2>2
<1>3. CASE SyncFixOp \/ PowerLoss \/ Restart \/ SyncTruncateStart \/ SyncDeleted \/ SyncMetadata
    <2>1. mbuf' = NoOp /\ pc' # "append"
        BY <1>3 DEF SyncFixOp, PowerLoss, Restart, ForgetMemory, SyncTruncateStart, SyncDeleted,
                    SyncMetadata, Goto
    <2> QED
        BY <1>1, <2>1
<1>4. CASE Fixing
    <2>1. PICK fix \in scan(mdisk, disk) :
            /\ TruncateManifest(fix) \/ TruncateSegment(fix) \/ AppendFixOp(fix)
            /\ mbuf = NoOp
        BY <1>4, FixSteps
    <2>2. mbuf' = NoOp \/ mbuf' = RecordOrphanOp(fix.id) \/ mbuf' = SegmentDeletedOp(fix.id)
        BY <2>1 DEF TruncateManifest, TruncateSegment, AppendFixOp
    <2>3. mbuf'.type # "RollSegment"
        BY <1>1, <2>2 DEF RecordOrphanOp, SegmentDeletedOp
    <2> QED
        BY <1>4, <2>3 DEF Fixing
<1>5. CASE RemoveFile \/ WriteMetadata \/ TruncateStart
    <2>1. /\ pc' = "flush"
          /\ \E x, y, z : mbuf' \in {SegmentDeletedOp(x), MetadataOp(x), TruncateStartOp(x, y, z)}
        BY <1>5 DEF RemoveFile, WriteMetadata, TruncateStart, Goto
    <2>2. mbuf'.type \in {"SegmentDeleted", "Metadata", "TruncateStart"}
        BY <2>1 DEF SegmentDeletedOp, MetadataOp, TruncateStartOp
    <2> QED
        BY <2>1, <2>2
<1>6. CASE CreateNew \/ WriteMagic \/ Flush
    BY <1>6 DEF CreateNew, WriteMagic, Flush, Goto, callVars, storeVars, cursorVars
<1> QED
    BY <1>2, <1>3, <1>4, <1>5, <1>6 DEF CrashNext, Syncing, Beginning

\* A write takes the batch, and rolls the segment over first if one is due.
LEMMA WriteBatch ==
    ASSUME StructureInv, FileInv, CrashInv, Write
    PROVE  /\ pc = "idle" /\ Opened /\ mdisk.st = state /\ mdisk \in Manifests
           /\ UNCHANGED <<state, active_id, last_entry_id>>
           /\ buf'[1].id \in Nat /\ last_entry_id \in Nat
           /\ buf'[1].id > last_entry_id /\ buf'[1].id >= state.first_entry
           /\ MaxGap = 0 => buf'[1].id \in {last_entry_id + 1, state.first_entry}
           /\ \/ /\ mbuf'.type = "RollSegment" /\ mbuf'.new_first_entry = buf'[1].id
                 /\ pc' = "create"
              \/ mbuf'.type # "RollSegment" /\ pc' = "append"
<1>1. pc = "idle" /\ Opened
    BY DEF Write, Opened
<1>2. mbuf = NoOp /\ mdisk.st = state /\ mdisk \in Manifests
    BY <1>1 DEF StructureInv, ControlOk, NoOpAt, MemoryOk, Manifests
<1>3. PICK batch \in Batches :
        /\ Last(batch).id <= MaxId /\ buf' = batch
        /\ IF rollover_pending
           THEN mbuf' = RolloverOp(batch[1].id) /\ pc' = "create"
           ELSE mbuf' = mbuf /\ pc' = "append"
    BY DEF Write, Goto
<1>4. UNCHANGED <<state, active_id, last_entry_id>>
    BY DEF Write, storeVars, cursorVars
<1>5. last_entry_id \in Nat
    BY BoundsAssumption DEF FileInv, MemoryTyped
<1>6. /\ batch[1].id \in Nat
      /\ batch[1].id > last_entry_id /\ batch[1].id >= state.first_entry
      /\ MaxGap = 0 => batch[1].id \in {last_entry_id + 1, state.first_entry}
    BY <1>1, <1>3, <1>5, BatchIs, BoundsAssumption
<1>7. CASE rollover_pending
    <2>1. mbuf'.type = "RollSegment" /\ mbuf'.new_first_entry = batch[1].id
        BY <1>3, <1>7 DEF RolloverOp, RollSegmentOp
    <2> QED
        BY <1>1, <1>2, <1>3, <1>4, <1>5, <1>6, <1>7, <2>1
<1>8. CASE ~rollover_pending
    <2>1. mbuf'.type = "None" /\ pc' = "append"
        BY <1>2, <1>3, <1>8 DEF NoOp
    <2> QED
        BY <1>1, <1>2, <1>3, <1>4, <1>5, <1>6, <2>1
<1> QED
    BY <1>7, <1>8

\* A seal's last entry is in the segment's file.
LEMMA SealedLast ==
    ASSUME StructureInv, FileInv, CrashInv, NEW m \in Manifests, NEW id \in DOMAIN m.st.seals
    PROVE  id \in Live(m.st) /\ id \in SegIds /\ m.st.seals[id].last_entry \in Ids(disk[id].frames)
<1>1. WellFormed(m.st) /\ Live(m.st) \subseteq SegIds
    BY ManifestFacts DEF CrashInv
<1>2. id \in Live(m.st) /\ id \in SegIds
    BY <1>1, LiveFacts
<1>3. disk[id] \in Outcomes[id] /\ disk[id] \in FileType
    BY <1>2, OutcomesAre DEF FileInv
<1>4. MatchesSeal(disk[id], m.st.seals[id])
    BY <1>3 DEF CrashInv, StatesDurable, Durable, FilesPresent
<1>5. disk[id].frames \in Seq(FrameType) /\ disk[id].frames # <<>>
    BY <1>3, <1>4 DEF FileType, MatchesSeal
<1>6. Ascending(disk[id].frames)
    BY <1>2, <1>3 DEF CrashInv, FramesDurable
<1> QED
    BY <1>2, <1>4, <1>5, <1>6, AscendingLast DEF MatchesSeal

\* A batch that needs no rollover is not before the active segment.
LEMMA WrittenBounded ==
    ASSUME NoLostGap, StructureInv, FileInv, OrderInv, Write, pc' = "append",
           NEW p \in DOMAIN state.segments, state.segments[p].id = active_id
    PROVE  state.segments[p].first_entry <= buf'[1].id
<1> DEFINE first == state.segments[p].first_entry
           F == disk[active_id].frames
           next == buf'[1].id
<1>1. CrashInv /\ \A m \in Manifests : SegmentsBounded(m.st, Outcomes)
    BY DEF OrderInv, LogInv
<1>2. /\ pc = "idle" /\ Opened /\ mdisk.st = state /\ mdisk \in Manifests
      /\ next \in Nat /\ last_entry_id \in Nat
      /\ next > last_entry_id /\ next >= state.first_entry
    BY <1>1, WriteBatch
<1>3. /\ active_id = state.active_segment_id /\ active_id \in SegIds
      /\ WellFormed(state) /\ Live(state) \subseteq SegIds
    BY <1>2, OpenFacts
<1>4. first \in Nat /\ state.first_entry \in Nat
    BY <1>2, <1>3, FirstsTyped DEF WellFormed, StateShape
<1>5. disk[active_id] \in Outcomes[active_id] /\ disk[active_id] \in FileType
    BY <1>3, OutcomesAre DEF FileInv
<1>6. CASE F # <<>>
    <2>1. F \in Seq(FrameType) /\ Ascending(F)
        BY <1>1, <1>3, <1>5 DEF CrashInv, FramesDurable, FileType
    <2>2. last_entry_id = Last(F).id
        BY <1>1, <1>2, <1>6 DEF CrashInv, ActiveDurable
    <2>3. last_entry_id \in Ids(F)
        BY <1>6, <2>1, <2>2, AscendingLast
    <2>4. SegmentsBounded(state, Outcomes)
        BY <1>1, <1>2
    <2>5. first <= last_entry_id
        BY <1>5, <2>3, <2>4 DEF SegmentsBounded
    <2> QED
        BY <1>2, <1>4, <2>5
<1>7. CASE F = <<>> /\ MaxCrash = 0
    <2>1. ActiveFilled(state)
        BY <1>2, <1>7 DEF OrderInv, ActiveBounded
    <2>2. first = 0
        BY <1>3, <1>7, <2>1 DEF ActiveFilled
    <2> QED
        BY <1>2, <2>2
<1>8. CASE MaxGap = 0
    <2>1. ActiveInReach(state)
        BY <1>2, <1>8 DEF OrderInv, ActiveBounded
    <2>2. CASE first <= state.first_entry
        BY <1>2, <1>4, <2>2
    <2>3. CASE \E id \in DOMAIN state.seals : first <= state.seals[id].last_entry + 1
        <3>1. PICK id \in DOMAIN state.seals : first <= state.seals[id].last_entry + 1
            BY <2>3
        <3> DEFINE last == state.seals[id].last_entry
        <3>2. id \in Live(state) /\ id \in SegIds /\ last \in Ids(disk[id].frames)
            BY <1>1, <1>2, SealedLast
        <3>3. disk[id] \in Outcomes[id] /\ disk[id] \in FileType
            BY <3>2, OutcomesAre DEF FileInv
        <3>4. last <= last_entry_id
            BY <1>1, <1>2, <3>2, <3>3 DEF CrashInv, LogHeld
        <3>5. last \in Nat
            BY <3>2, <3>3, IdsNat
        <3> QED
            BY <1>2, <1>4, <3>1, <3>4, <3>5
    <2> QED
        BY <1>3, <2>1, <2>2, <2>3 DEF ActiveInReach
<1> QED
    BY <1>6, <1>7, <1>8 DEF NoLostGap

\* A batch is in the bounds of the segment that it goes to.
LEMMA NextBatch ==
    ASSUME SyncingCaller, NoLostGap, StructureInv, FileInv, OrderInv, CrashNext
    PROVE  BatchBounded'
<1>1. CrashInv /\ BatchBounded
    BY DEF OrderInv, LogInv
<1>2. CASE mbuf'.type # "RollSegment" /\ pc' # "append"
    BY <1>2 DEF BatchBounded
<1>3. CASE Write
    <2>1. /\ UNCHANGED <<state, active_id>>
          /\ \/ mbuf'.type = "RollSegment" /\ mbuf'.new_first_entry = buf'[1].id /\ pc' = "create"
             \/ mbuf'.type # "RollSegment" /\ pc' = "append"
        BY <1>1, <1>3, WriteBatch
    <2>2. pc' = "append" => \A p \in DOMAIN state.segments :
            state.segments[p].id = active_id => state.segments[p].first_entry <= buf'[1].id
        BY <1>3, WrittenBounded
    <2> QED
        BY <2>1, <2>2 DEF BatchBounded
<1>4. CASE SyncRollover
    <2>1. /\ pc = "sync" /\ mbuf.type = "RollSegment" /\ mbuf'.type # "RollSegment"
          /\ state' = Apply(state, mbuf) /\ active_id' = mbuf.new_id /\ buf' = buf
        BY <1>4 DEF SyncRollover, NoOp
    <2>2. Opened
        BY <2>1 DEF Opened
    <2>3. WellFormed(state) /\ next_seg_id \notin Live(state)
        BY <2>2, OpenFacts DEF Known
    <2>4. mbuf.sealed_id = state.active_segment_id /\ mbuf.new_id = next_seg_id
        <3>1. ApplyOk(state, mbuf) /\ mbuf.new_id = next_seg_id
            BY <2>1, <2>2, InFlight
        <3> QED
            BY <2>1, <3>1 DEF ApplyOk
    <2>5. PICK n \in Nat :
            /\ DOMAIN state'.segments = DOMAIN state.segments \cup {n}
            /\ \A p \in DOMAIN state.segments : state'.segments[p] = state.segments[p]
            /\ state'.segments[n] = [id |-> mbuf.new_id, first_entry |-> mbuf.new_first_entry]
        BY <2>1, <2>3, <2>4, ApplyRollSegment
    <2>6. mbuf.new_first_entry = buf[1].id /\ buf[1].id \in Nat
        BY <1>1, <2>1, BoundsAssumption DEF BatchBounded, FileInv, CallTyped
    <2>7. ASSUME NEW p \in DOMAIN state'.segments, state'.segments[p].id = active_id'
          PROVE  state'.segments[p].first_entry <= buf'[1].id
        <3>1. p = n
            BY <2>1, <2>3, <2>4, <2>5, <2>7 DEF Live
        <3> QED
            BY <2>1, <2>5, <2>6, <3>1
    <2> QED
        BY <2>1, <2>7 DEF BatchBounded
<1>5. CASE UNCHANGED <<mbuf, buf, state, active_id>> /\ (pc' # "append" \/ pc' = pc)
    BY <1>1, <1>5 DEF BatchBounded
<1>6. CASE UNCHANGED vars
    BY <1>5, <1>6 DEF vars, callVars, storeVars, cursorVars
<1> QED
    BY <1>1, <1>2, <1>3, <1>4, <1>5, <1>6, RollingSteps

\* In the state that the operation in flight makes, an empty active segment
\* still starts at the head or right after a sealed one.
LEMMA FlushedReach ==
    ASSUME MaxGap = 0, StructureInv, FileInv, OrderInv, Flush
    PROVE  ActiveInReach(Apply(state, mbuf))
<1> DEFINE s == Apply(state, mbuf)
<1>1. CrashInv /\ ActiveBounded
    BY DEF OrderInv, LogInv
<1>2. /\ Opened /\ pc = "flush" /\ mdisk.st = state /\ mdisk \in Manifests /\ WellFormed(state)
      /\ active_id = state.active_segment_id /\ active_id \in SegIds
    BY <1>1, FlushedState, OpenFacts DEF Manifests
<1>3. /\ state.first_entry \in Nat
      /\ \A p \in DOMAIN state.segments : state.segments[p].first_entry \in Nat
      /\ \A id \in DOMAIN state.seals : state.seals[id].last_entry \in Nat
    BY <1>2, FirstsTyped, BoundsAssumption
        DEF WellFormed, StateShape, FileInv, ManifestsTyped, EntriesOk, SealInfo
<1>4. ActiveInReach(state)
    BY <1>1, <1>2 DEF ActiveBounded
<1> HIDE DEF s
<1>5. ASSUME SameSegments(s, state)
      PROVE  ActiveInReach(s)
    BY <1>4, <1>5 DEF SameSegments, ActiveInReach
<1>6. ASSUME DOMAIN s.segments \subseteq DOMAIN state.segments,
             \A p \in DOMAIN s.segments : s.segments[p] = state.segments[p],
             s.active_segment_id = state.active_segment_id,
             s.first_entry \in Nat, s.first_entry >= state.first_entry,
             DOMAIN s.seals \subseteq DOMAIN state.seals,
             \A id \in DOMAIN s.seals : s.seals[id] = state.seals[id],
             \A id \in DOMAIN state.seals \ DOMAIN s.seals :
                state.seals[id].last_entry < s.first_entry
      PROVE  ActiveInReach(s)
    <2> SUFFICES ASSUME NEW p \in DOMAIN s.segments, s.segments[p].id = s.active_segment_id
                 PROVE  \/ s.segments[p].first_entry <= s.first_entry
                        \/ \E id \in DOMAIN s.seals :
                            s.segments[p].first_entry <= s.seals[id].last_entry + 1
        BY DEF ActiveInReach
    <2> DEFINE first == state.segments[p].first_entry
    <2>1. p \in DOMAIN state.segments /\ s.segments[p].first_entry = first /\ first \in Nat
          /\ state.segments[p].id = state.active_segment_id
        BY <1>3, <1>6
    <2>2. CASE first <= state.first_entry
        BY <1>3, <1>6, <2>1, <2>2
    <2>3. CASE \E id \in DOMAIN state.seals : first <= state.seals[id].last_entry + 1
        <3>1. PICK id \in DOMAIN state.seals : first <= state.seals[id].last_entry + 1
            BY <2>3
        <3>2. CASE id \in DOMAIN s.seals
            BY <1>6, <2>1, <3>1, <3>2
        <3>3. CASE id \notin DOMAIN s.seals
            <4>1. state.seals[id].last_entry < s.first_entry /\ state.seals[id].last_entry \in Nat
                BY <1>3, <1>6, <3>3
            <4>2. first <= s.first_entry
                BY <1>6, <2>1, <3>1, <4>1
            <4> QED
                BY <2>1, <4>2
        <3> QED
            BY <3>2, <3>3
    <2> QED
        BY <1>4, <2>1, <2>2, <2>3 DEF ActiveInReach
<1>7. ASSUME mbuf.type = "RollSegment",
             s.first_entry = state.first_entry,
             s.active_segment_id = next_seg_id, next_seg_id \notin Live(state),
             active_id \in DOMAIN s.seals,
             s.seals[active_id].last_entry = mbuf.seal.last_entry,
             NEW n \in Nat,
             DOMAIN s.segments = DOMAIN state.segments \cup {n},
             \A p \in DOMAIN state.segments : s.segments[p] = state.segments[p],
             s.segments[n] = [id |-> next_seg_id, first_entry |-> mbuf.new_first_entry]
      PROVE  ActiveInReach(s)
    <2>1. s.seals[active_id].last_entry = last_entry_id
        <3>1. MatchesSeal(disk[active_id], mbuf.seal)
            BY <1>1, <1>7 DEF CrashInv, CallDurable
        <3>2. last_entry_id = Last(disk[active_id].frames).id
            BY <1>1, <1>2, <3>1 DEF CrashInv, ActiveDurable, MatchesSeal
        <3> QED
            BY <1>7, <3>1, <3>2 DEF MatchesSeal
    <2>2. \/ mbuf.new_first_entry <= last_entry_id + 1
          \/ mbuf.new_first_entry <= state.first_entry
        BY <1>1, <1>7 DEF ActiveBounded
    <2>3. ASSUME NEW p \in DOMAIN s.segments, s.segments[p].id = s.active_segment_id
          PROVE  p = n
        BY <1>7, <2>3 DEF Live
    <2>4. s.segments[n].first_entry = mbuf.new_first_entry
        BY <1>7
    <2> QED
        BY <1>7, <2>1, <2>2, <2>3, <2>4 DEF ActiveInReach
<1> QED
    BY <1>1, <1>5, <1>6, <1>7, FlushedSegments DEF s

\* With no gap the next id stays in reach.
LEMMA NextReach ==
    ASSUME SyncingCaller, MaxGap = 0, StructureInv, FileInv, OrderInv, CrashNext
    PROVE  /\ \A m \in Manifests' : ActiveInReach(m.st)
           /\ mbuf'.type = "RollSegment" =>
                \/ mbuf'.new_first_entry <= last_entry_id' + 1
                \/ mbuf'.new_first_entry <= state'.first_entry
<1>1. CrashInv /\ ActiveBounded
    BY DEF OrderInv, LogInv
<1>2. ASSUME NEW m \in Manifests'
      PROVE  ActiveInReach(m.st)
    <2>1. CASE \E n \in Manifests : SameSegments(m.st, n.st)
        <3>1. PICK n \in Manifests : SameSegments(m.st, n.st)
            BY <2>1
        <3>2. ActiveInReach(n.st)
            BY <1>1 DEF ActiveBounded
        <3> QED
            BY <3>1, <3>2 DEF SameSegments, ActiveInReach
    <2>2. CASE Flush /\ m.st = Apply(state, mbuf)
        BY <2>2, FlushedReach
    <2> QED
        BY <1>1, <2>1, <2>2, ManifestStep
<1>3. ASSUME mbuf'.type = "RollSegment"
      PROVE  \/ mbuf'.new_first_entry <= last_entry_id' + 1
             \/ mbuf'.new_first_entry <= state'.first_entry
    <2>1. CASE Write
        <3>1. /\ UNCHANGED <<state, last_entry_id>>
              /\ buf'[1].id \in Nat /\ last_entry_id \in Nat
              /\ buf'[1].id \in {last_entry_id + 1, state.first_entry}
              /\ mbuf'.new_first_entry = buf'[1].id
            BY <1>1, <1>3, <2>1, WriteBatch
        <3> QED
            BY <3>1
    <2>2. CASE UNCHANGED <<mbuf, state, last_entry_id>>
        BY <1>1, <1>3, <2>2 DEF ActiveBounded
    <2>3. CASE SyncRollover
        BY <1>3, <2>3 DEF SyncRollover, NoOp
    <2>4. CASE UNCHANGED vars
        BY <2>2, <2>4 DEF vars, callVars, storeVars
    <2> QED
        BY <1>1, <1>3, <2>1, <2>2, <2>3, <2>4, RollingSteps
<1> QED
    BY <1>2, <1>3

\* Only a power loss is counted as one.
LEMMA CrashesCounted ==
    ASSUME StructureInv, FileInv, CrashInv, CrashNext, ~PowerLoss
    PROVE  crashes' = crashes
<1>1. CASE Fixing
    BY <1>1, FixSteps DEF faultVars
<1>2. CASE Loading \/ Recovering \/ SyncFixOp \/ CreateNew \/ WriteMagic \/ Flush \/ RemoveFile
    BY <1>2 DEF Loading, OpenClean, FixedUp, Recovering, OpenWithIssues, Attempt, SyncFixOp,
                CreateNew, WriteMagic, Flush, RemoveFile, faultVars
<1>3. CASE Syncing \/ Beginning \/ AppendFrames \/ CommitSync
    BY <1>3 DEF Syncing, SyncRollover, SyncTruncateStart, SyncDeleted, SyncMetadata, Beginning,
                Write, TruncateStart, DeleteDeadSegments, WriteMetadata, AppendFrames, AppendAfter,
                CommitSync, faultVars
<1>4. CASE Restart \/ UNCHANGED vars
    BY <1>4 DEF Restart, vars, faultVars
<1> QED
    BY <1>1, <1>2, <1>3, <1>4 DEF CrashNext

\* As long as no power is lost, the active segment is filled or the first.
LEMMA NextFilled ==
    ASSUME SyncingCaller, MaxCrash = 0, StructureInv, FileInv, FileInv', OrderInv, CrashNext,
           [Next]_vars
    PROVE  /\ crashes' = 0
           /\ ~Opened' => ActiveFilled(mdisk.st)'
           /\ (Opened' /\ pc' # "append") => ActiveFilled(state)'
<1>1. /\ CrashInv /\ crashes = 0
      /\ ~Opened => ActiveFilled(mdisk.st)
      /\ (Opened /\ pc # "append") => ActiveFilled(state)
    BY DEF OrderInv, LogInv, ActiveBounded
<1>2. ~PowerLoss
    BY <1>1 DEF PowerLoss
<1>3. crashes' = 0
    BY <1>1, <1>2, CrashesCounted
<1>4. /\ mdisk \in Manifests /\ Live(mdisk.st) \subseteq SegIds
      /\ mdisk.st.active_segment_id \in SegIds
    BY <1>1, ManifestFacts, LiveFacts DEF Manifests, CrashInv
<1>5. CASE Restart
    <2>1. pc = "idle" /\ pc' = "closed" /\ UNCHANGED <<mdisk, disk>>
        BY <1>5 DEF Restart, ForgetMemory, Goto, diskVars, SyncingCaller
    <2>2. Opened /\ ~Opened'
        BY <2>1 DEF Opened
    <2>3. mdisk.st = state
        BY <2>1, <2>2 DEF StructureInv, MemoryOk
    <2> QED
        BY <1>1, <1>3, <2>1, <2>2, <2>3 DEF ActiveFilled
<1>6. CASE Loading \/ Recovering \/ SyncFixOp
    <2>1. /\ pc \in {"closed", "fix", "fixsync"} /\ UNCHANGED <<mdisk, disk>>
          /\ pc' = "fix" \/ (pc' = "idle" /\ state' = mdisk.st)
        BY <1>6 DEF Loading, OpenClean, FixedUp, Loaded, Load, NotOpened, Recovering,
                    OpenWithIssues, Attempt, SyncFixOp, SyncManifest, Goto, diskVars, segmentVars,
                    manifestVars
    <2>2. ~Opened /\ (Opened' => pc' = "idle")
        BY <2>1 DEF Opened
    <2> QED
        BY <1>1, <1>3, <2>1, <2>2 DEF ActiveFilled
<1>7. CASE Fixing
    <2>1. pc = "fix" /\ pc' \in {"fix", "fixsync"} /\ msurv = {mdisk}
        BY <1>1, <1>7, FixSteps DEF Fixing
    <2>2. ~Opened /\ ~Opened'
        BY <2>1 DEF Opened
    <2>3. SameSegments(mdisk'.st, mdisk.st)
        <3>1. mdisk' \in Manifests' /\ Manifests = {mdisk} /\ ~Flush
            BY <2>1 DEF Manifests, Flush
        <3> QED
            BY <1>1, <3>1, ManifestStep
    <2>4. disk'[mdisk.st.active_segment_id].frames = disk[mdisk.st.active_segment_id].frames
        <3>1. ~AppendFrames
            BY <2>1 DEF AppendFrames, AppendAfter
        <3>2. \/ UNCHANGED <<disk, surv>>
              \/ \E id \in SegIds :
                    /\ \A x \in SegIds : x # id => disk'[x] = disk[x]
                    /\ disk'[id] = SegmentFile(disk[id].frames, FALSE)
            BY <1>1, <1>2, <2>2, <3>1, FilesChange
        <3> DEFINE id == mdisk.st.active_segment_id
        <3>3. CASE disk'[id] = disk[id]
            BY <3>3
        <3>4. CASE disk'[id] = SegmentFile(disk[id].frames, FALSE)
            BY <3>4 DEF SegmentFile
        <3> QED
            BY <1>4, <3>2, <3>3, <3>4
    <2>5. ActiveFilled(mdisk.st)
        BY <1>1, <2>2
    <2>6. /\ mdisk'.st.segments = mdisk.st.segments
          /\ mdisk'.st.active_segment_id = mdisk.st.active_segment_id
        BY <2>3 DEF SameSegments
    <2>7. ActiveFilled(mdisk.st)'
        BY <2>4, <2>5, <2>6 DEF ActiveFilled
    <2> QED
        BY <1>3, <2>2, <2>7
<1>8. CASE UNCHANGED vars
    <2>1. UNCHANGED <<mdisk, disk, state, pc, mbuf>>
        BY <1>8 DEF vars, diskVars, callVars, storeVars
    <2>2. Opened' = Opened
        BY <2>1 DEF Opened
    <2> QED
        BY <1>1, <1>3, <2>1, <2>2 DEF ActiveFilled
<1>9. ASSUME Opened, ~Restart
      PROVE  /\ Opened' /\ WellFormed(state) /\ Live(state) \subseteq SegIds
             /\ active_id = state.active_segment_id
             /\ active_id \in Live(state) /\ active_id \in SegIds
    BY <1>2, <1>9, StaysOpen, OpenFacts
<1>10. CASE (CreateNew \/ WriteMagic \/ RemoveFile \/ CommitSync \/ Flush \/ Beginning) /\ ~Restart
    <2>1. Opened /\ pc # "append" /\ state' = state
        <3>1. CASE CreateNew \/ WriteMagic
            <4>1. pc \in {"create", "magic"} /\ state' = state
                BY <3>1 DEF CreateNew, WriteMagic, storeVars
            <4>2. mbuf.type = "RollSegment"
                BY <1>1, <4>1 DEF CrashInv, ControlDurable
            <4> QED
                BY <4>1, <4>2 DEF Opened, NoOp
        <3>2. CASE Flush
            BY <1>1, <3>2, FlushedState DEF Flush, storeVars
        <3>3. CASE RemoveFile \/ CommitSync
            BY <3>3 DEF RemoveFile, CommitSync, storeVars, Opened
        <3>4. CASE Beginning
            BY <3>4 DEF Beginning, Write, TruncateStart, DeleteDeadSegments, WriteMetadata,
                        storeVars, Opened
        <3> QED
            BY <1>10, <3>1, <3>2, <3>3, <3>4
    <2>2. disk'[active_id].frames = disk[active_id].frames
        <3>1. CASE Beginning \/ Flush
            BY <3>1 DEF Beginning, Write, TruncateStart, DeleteDeadSegments, WriteMetadata,
                        Flush, diskVars, segmentVars
        <3>2. CASE CreateNew \/ WriteMagic \/ RemoveFile \/ CommitSync
            <4>1. ~AppendFrames /\ ~(Fixing /\ pc = "fix")
                BY <2>1, <3>2 DEF CreateNew, WriteMagic, RemoveFile, CommitSync, AppendFrames,
                        AppendAfter
            <4> QED
                BY <1>1, <1>2, <1>9, <1>10, <2>1, <4>1, FilesChange
        <3> QED
            BY <1>10, <3>1, <3>2
    <2>3. ActiveFilled(state)
        BY <1>1, <2>1
    <2>4. ActiveFilled(state)'
        BY <1>9, <1>10, <2>1, <2>2, <2>3 DEF ActiveFilled
    <2> QED
        BY <1>3, <1>9, <1>10, <2>1, <2>4
<1>11. CASE AppendFrames /\ ~Restart
    <2>1. /\ Opened /\ active_id \in SegIds
          /\ disk[active_id].frames \in Seq(FrameType) /\ buf \in Seq(FrameType) /\ buf # <<>>
          /\ disk'[active_id] = SegmentFile(disk[active_id].frames \o buf, FALSE)
        BY <1>1, <1>11, AppendedFiles
    <2>2. state' = state
        BY <1>11 DEF AppendFrames, AppendAfter
    <2>3. disk'[active_id].frames # <<>>
        <3>1. disk'[active_id].frames = disk[active_id].frames \o buf
            BY <2>1 DEF SegmentFile
        <3>2. Len(disk[active_id].frames \o buf) = Len(disk[active_id].frames) + Len(buf)
            BY <2>1
        <3>3. Len(buf) # 0 /\ Len(buf) \in Nat /\ Len(disk[active_id].frames) \in Nat
            BY <2>1, EmptySeq
        <3>4. Len(disk[active_id].frames \o buf) # 0
            BY <3>2, <3>3
        <3> QED
            BY <3>1, <3>4
    <2>4. ActiveFilled(state)'
        BY <1>9, <1>11, <2>1, <2>2, <2>3 DEF ActiveFilled
    <2> QED
        BY <1>3, <1>9, <1>11, <2>1, <2>4
<1>12. CASE SyncRollover /\ ~Restart
    <2>1. pc' = "append" /\ Opened
        BY <1>12 DEF SyncRollover, Goto, Opened
    <2> QED
        BY <1>3, <1>9, <1>12, <2>1
<1>13. CASE (SyncTruncateStart \/ SyncDeleted \/ SyncMetadata) /\ ~Restart
    <2>1. /\ pc = "sync" /\ Opened /\ state' = Apply(state, mbuf) /\ disk' = disk
          /\ mbuf.type \in {"TruncateStart", "SegmentDeleted", "Metadata"}
        BY <1>13 DEF SyncTruncateStart, SyncDeleted, SyncMetadata, Opened, segmentVars
    <2>2. /\ state'.active_segment_id = state.active_segment_id
          /\ DOMAIN state'.segments \subseteq DOMAIN state.segments
          /\ \A p \in DOMAIN state'.segments : state'.segments[p] = state.segments[p]
        <3>1. CASE mbuf.type \in {"SegmentDeleted", "Metadata"}
            BY <2>1, <3>1, ApplySame
        <3>2. CASE mbuf.type = "TruncateStart"
            <4>1. /\ state'.segments = Retain(state.segments, mbuf.drop)
                  /\ state'.active_segment_id = state.active_segment_id
                BY <2>1, <3>2, ApplyTruncateStart
            <4> QED
                BY <4>1 DEF Retain, Without
        <3> QED
            BY <2>1, <3>1, <3>2
    <2>3. ActiveFilled(state)
        BY <1>1, <2>1
    <2>4. ActiveFilled(state)'
        BY <2>1, <2>2, <2>3 DEF ActiveFilled
    <2> QED
        BY <1>3, <1>9, <1>13, <2>1, <2>4
<1> QED
    BY <1>2, <1>5, <1>6, <1>7, <1>8, <1>10, <1>11, <1>12, <1>13 DEF CrashNext, Syncing

\* The first entry of an empty active segment is not beyond the next id.
LEMMA NextActive ==
    ASSUME SyncingCaller, StructureInv, FileInv, FileInv', OrderInv, CrashNext, [Next]_vars
    PROVE  ActiveBounded'
    BY NextReach, NextFilled DEF ActiveBounded

-----------------------------------------------------------------------------
(***************************************************************************)
(* The theorems.                                                           *)
(***************************************************************************)
\* A new store has one segment, from entry 0 on, and no entries.
LEMMA InitOrder ==
    ASSUME SyncingCaller, Init
    PROVE  OrderInv
<1> DEFINE st == FormattedState
           e == [id |-> 1, first_entry |-> 0]
<1>1. LogInv
    BY InitLog
<1>2. mdisk.st = st /\ Manifests = {mdisk}
    BY DEF Init, InitialManifest, SyncingCaller, Manifests, ManifestFile
<1>3. pc = "closed" /\ mbuf.type = "None" /\ crashes = 0 /\ ~Opened
    BY DEF Init, NoOp, Opened
<1>4. st.segments = [p \in {1} |-> e]
    <2>1. DOMAIN EmptyState.segments = {}
        BY DEF EmptyState
    <2>2. Push(EmptyState.segments, e) = [p \in {1} |-> e]
        BY <2>1 DEF Push, Insert
    <2>3. st.segments = Push(EmptyState.segments, e)
        BY DEF FormattedState, Apply, ApplyStructure, WithMeta, CreateSegmentOp, create_segment
    <2> QED
        BY <2>2, <2>3
<1>5. \A p \in DOMAIN st.segments : st.segments[p] = e
    BY <1>4
<1>6. 1 \in SegIds /\ Outcomes[1] = {InitialSegment(1)} /\ InitialSegment(1).frames = <<>>
    BY MaxSegAssumption DEF Init, Outcomes, SegIds, InitialSegment, SegmentFile, AbsentFile
<1>7. st.first_entry \in Nat
    BY FirstOp DEF WellFormed, StateShape
<1> HIDE DEF st
<1>8. SegmentsBounded(st, Outcomes)
    <2>1. \A p \in DOMAIN st.segments : \A f \in Outcomes[st.segments[p].id] : Ids(f.frames) = {}
        BY <1>5, <1>6 DEF Ids
    <2> QED
        BY <2>1 DEF SegmentsBounded
<1>9. ActiveInReach(st) /\ ActiveFilled(st)
    BY <1>5, <1>7 DEF ActiveInReach, ActiveFilled
<1>10. BatchBounded /\ ActiveBounded
    BY <1>2, <1>3, <1>9 DEF BatchBounded, ActiveBounded
<1> QED
    BY <1>1, <1>2, <1>8, <1>10 DEF OrderInv

\* In every reachable state the entries of each segment are between its first
\* entry and that of the next segment, whatever a power loss would leave, and
\* the next batch is not before the active segment: a rollover records the
\* first id of the batch it is made for, and that batch, or one from the same
\* id on, is the first that the new segment gets.
THEOREM OrderTheorem == ASSUME SyncingCaller, NoLostGap PROVE Spec => []OrderInv
<1>1. Init => OrderInv
    BY InitOrder
<1>2. /\ StructureInv /\ FileInv /\ OrderInv /\ [Next]_vars /\ StructureInv' /\ FileInv'
      => OrderInv'
    <2> SUFFICES ASSUME StructureInv, FileInv, OrderInv, [Next]_vars, StructureInv', FileInv'
                 PROVE  OrderInv'
        OBVIOUS
    <2>1. LogInv' /\ CrashNext
        BY NextLog, CrashSteps DEF OrderInv, LogInv
    <2> QED
        BY <2>1, NextBounded, NextBatch, NextActive DEF OrderInv
<1> QED
    BY <1>1, <1>2, FileTheorem, PTL DEF Spec

\* The segments of an open store are in the order of their first entries, so
\* the binary searches of truncate_end and of the index find what they look
\* for: a sealed segment is not empty, and its entries lie between its first
\* entry and the next one's.
THEOREM SortedTheorem ==
    ASSUME SyncingCaller, NoLostGap PROVE Spec => []SegmentsSorted
<1>1. StructureInv /\ FileInv /\ OrderInv => SegmentsSorted
    <2> SUFFICES ASSUME StructureInv, FileInv, OrderInv, Opened,
                        NEW p \in DOMAIN state.segments, NEW q \in DOMAIN state.segments, p < q
                 PROVE  state.segments[p].first_entry < state.segments[q].first_entry
        BY DEF SegmentsSorted
    <2>1. CrashInv
        BY DEF OrderInv, LogInv
    <2>2. PICK m \in Manifests : m.st = state
        BY <2>1, StateIsManifest
    <2> DEFINE id == state.segments[p].id
    <2>3. WellFormed(state)
        BY OpenFacts
    <2>4. id \in DOMAIN state.seals
        BY <2>3, LiveFacts
    <2>5. id \in SegIds /\ state.seals[id].last_entry \in Ids(disk[id].frames)
        BY <2>1, <2>2, <2>4, SealedLast
    <2>6. disk[id] \in Outcomes[id] /\ disk[id] \in FileType
        BY <2>5, OutcomesAre DEF FileInv
    <2>7. state.seals[id].last_entry \in Nat
        BY <2>5, <2>6, IdsNat
    <2>8. /\ state.segments[p].first_entry <= state.seals[id].last_entry
          /\ state.seals[id].last_entry < state.segments[q].first_entry
        BY <2>2, <2>5, <2>6 DEF OrderInv, SegmentsBounded
    <2>9. state.segments[p].first_entry \in Nat /\ state.segments[q].first_entry \in Nat
        BY <2>2, FirstsTyped
    <2> QED
        BY <2>7, <2>8, <2>9
<1> QED
    BY <1>1, FileTheorem, OrderTheorem, PTL

\* truncate_end, should the caller use it, finds any entry that can be read:
\* the search over the first entries ends at the segment that holds it.
THEOREM RollbackTheorem ==
    ASSUME SyncingCaller, NoLostGap PROVE Spec => []RollbackPossible
<1>1. StructureInv /\ FileInv /\ OrderInv => RollbackPossible
    <2> SUFFICES ASSUME StructureInv, FileInv, OrderInv, pc = "idle", NEW x \in log
                 PROVE  \E p \in DOMAIN state.segments :
                            /\ IsTarget(state, p, x)
                            /\ x \in Ids(disk[state.segments[p].id].frames)
        BY DEF RollbackPossible
    <2>1. CrashInv /\ Opened
        BY DEF OrderInv, LogInv, Opened
    <2>2. PICK m \in Manifests : m.st = state
        BY <2>1, StateIsManifest
    <2>3. WellFormed(state) /\ Live(state) \subseteq SegIds
        BY <2>1, OpenFacts
    <2>4. PICK id \in Live(state) : x \in Ids(disk[id].frames)
        BY <2>1, InLog DEF CrashInv, LogHeld
    <2>5. PICK p \in DOMAIN state.segments : state.segments[p].id = id
        BY DEF Live
    <2>6. disk[id] \in Outcomes[id] /\ disk[id] \in FileType
        BY <2>3, OutcomesAre DEF FileInv
    <2>7. /\ state.segments[p].first_entry <= x
          /\ \A q \in DOMAIN state.segments : p < q => x < state.segments[q].first_entry
        BY <2>2, <2>4, <2>5, <2>6 DEF OrderInv, SegmentsBounded
    <2>8. /\ x \in Nat /\ DOMAIN state.segments \subseteq Nat
          /\ \A q \in DOMAIN state.segments : state.segments[q].first_entry \in Nat
        BY <2>2, <2>3, <2>4, <2>6, IdsNat, FirstsTyped DEF WellFormed, StateShape
    <2>9. \A q \in DOMAIN state.segments : q > p => state.segments[q].first_entry > x
        BY <2>7, <2>8
    <2> QED
        BY <2>4, <2>5, <2>7, <2>9 DEF IsTarget
<1> QED
    BY <1>1, FileTheorem, OrderTheorem, PTL

-----------------------------------------------------------------------------
(***************************************************************************)
(* Sequences of ids that increase, and their concatenation.                *)
(***************************************************************************)
Increasing(s) == \A i, j \in DOMAIN s : i < j => s[i] < s[j]

\* Every part increases, and comes before the next one.
IncreasingParts(parts) ==
    /\ \A i \in DOMAIN parts : Increasing(parts[i])
    /\ \A i, j \in DOMAIN parts : i < j =>
        \A x \in ToSet(parts[i]), y \in ToSet(parts[j]) : x < y

LEMMA ConcatIncreasing ==
    ASSUME NEW s \in Seq(Nat), NEW t \in Seq(Nat), Increasing(s), Increasing(t),
           \A x \in ToSet(s), y \in ToSet(t) : x < y
    PROVE  /\ s \o t \in Seq(Nat) /\ Increasing(s \o t)
           /\ ToSet(s \o t) = ToSet(s) \cup ToSet(t)
<1> DEFINE m == Len(s)
           n == Len(t)
           c == s \o t
<1>1. /\ m \in Nat /\ n \in Nat /\ DOMAIN s = 1..m /\ DOMAIN t = 1..n
      /\ c \in Seq(Nat) /\ Len(c) = m + n /\ DOMAIN c = 1..(m + n)
      /\ \A i \in 1..m : c[i] = s[i]
      /\ \A i \in 1..n : c[m + i] = t[i]
    OBVIOUS
<1>0. m \in Nat /\ n \in Nat
    BY <1>1
<1> HIDE DEF m, n, c
<1>2. ASSUME NEW i \in 1..(m + n)
      PROVE  \/ i \in 1..m /\ c[i] = s[i]
             \/ i - m \in 1..n /\ c[i] = t[i - m]
    <2>1. CASE i <= m
        BY <1>1, <2>1
    <2>2. CASE ~(i <= m)
        <3>1. i - m \in 1..n /\ m + (i - m) = i
            BY <1>1, <2>2
        <3> QED
            BY <1>1, <3>1
    <2> QED
        BY <2>1, <2>2
<1>3. ASSUME NEW i \in 1..(m + n), NEW j \in 1..(m + n), i < j
      PROVE  c[i] < c[j]
    <2>1. CASE j <= m
        <3>1. i \in 1..m /\ j \in 1..m
            BY <1>0, <1>3, <2>1
        <3> QED
            BY <1>1, <1>3, <3>1 DEF Increasing
    <2>2. CASE ~(i <= m)
        <3>1. i - m \in 1..n /\ j - m \in 1..n /\ i - m < j - m /\ i \notin 1..m /\ j \notin 1..m
            BY <1>0, <1>3, <2>2
        <3>2. c[i] = t[i - m] /\ c[j] = t[j - m]
            BY <1>2, <3>1
        <3>3. t[i - m] < t[j - m]
            BY <1>1, <3>1 DEF Increasing
        <3> QED
            BY <3>2, <3>3
    <2>3. CASE i <= m /\ ~(j <= m)
        <3>1. i \in 1..m /\ j - m \in 1..n /\ c[i] = s[i] /\ c[j] = t[j - m]
            BY <1>1, <1>2, <2>3
        <3>2. s[i] \in ToSet(s) /\ t[j - m] \in ToSet(t)
            BY <1>1, <3>1 DEF ToSet
        <3> QED
            BY <3>1, <3>2
    <2> QED
        BY <1>1, <1>3, <2>1, <2>2, <2>3
<1>4. ToSet(c) \subseteq ToSet(s) \cup ToSet(t)
    BY <1>1, <1>2 DEF ToSet
<1>5. ToSet(s) \subseteq ToSet(c)
    <2>1. \A i \in 1..m : i \in 1..(m + n)
        BY <1>1
    <2> QED
        BY <1>1, <2>1 DEF ToSet
<1>6. ToSet(t) \subseteq ToSet(c)
    <2>1. \A i \in 1..n : m + i \in 1..(m + n)
        BY <1>1
    <2> QED
        BY <1>1, <2>1 DEF ToSet
<1> QED
    BY <1>1, <1>3, <1>4, <1>5, <1>6 DEF Increasing, c

\* From the first element that is not below `from' on.
LEMMA SuffixIncreasing ==
    ASSUME NEW s \in Seq(Nat), Increasing(s), NEW from \in Nat
    PROVE  LET ge == {j \in DOMAIN s : s[j] >= from}
               t == IF ge = {} THEN <<>> ELSE SubSeq(s, Min(ge), Len(s))
           IN  t \in Seq(Nat) /\ Increasing(t) /\ ToSet(t) = {x \in ToSet(s) : x >= from}
<1> DEFINE ge == {j \in DOMAIN s : s[j] >= from}
           n == Len(s)
           k == Min(ge)
           t == SubSeq(s, k, n)
<1>1. n \in Nat /\ DOMAIN s = 1..n /\ \A i \in 1..n : s[i] \in Nat
    OBVIOUS
<1>2. CASE ge = {}
    <2>1. \A x \in ToSet(s) : ~(x >= from)
        BY <1>2 DEF ToSet
    <2>2. <<>> \in Seq(Nat) /\ Increasing(<<>>) /\ ToSet(<<>>) = {}
        BY DEF Increasing, ToSet
    <2> QED
        BY <1>2, <2>1, <2>2
<1>3. CASE ge # {}
    <2>1. k \in ge /\ \A j \in ge : k <= j
        <3>1. ge \subseteq Nat
            BY <1>1
        <3> HIDE DEF ge
        <3> QED
            BY <1>3, <3>1, MinIs
    <2>2. k \in 1..n /\ k \in Nat /\ s[k] >= from
        BY <1>1, <2>1
    <2> HIDE DEF k, n
    <2>3. /\ t \in Seq(Nat) /\ Len(t) = n - k + 1 /\ DOMAIN t = 1..(n - k + 1)
          /\ \A i \in 1..(n - k + 1) : t[i] = s[k + i - 1]
        BY <1>1, <2>2 DEF n
    <2>4. \A i \in 1..(n - k + 1) : k + i - 1 \in 1..n
        BY <1>1, <2>2
    <2>5. ASSUME NEW i \in 1..(n - k + 1), NEW j \in 1..(n - k + 1), i < j
          PROVE  t[i] < t[j]
        <3>1. k + i - 1 < k + j - 1
            BY <1>1, <2>2, <2>5
        <3> QED
            BY <1>1, <2>3, <2>4, <3>1 DEF Increasing
    <2>6. ASSUME NEW i \in 1..(n - k + 1)
          PROVE  t[i] \in ToSet(s) /\ t[i] >= from
        <3>1. k + i - 1 = k \/ k < k + i - 1
            BY <1>1, <2>2
        <3>2. s[k] = s[k + i - 1] \/ s[k] < s[k + i - 1]
            BY <1>1, <2>2, <2>4, <3>1 DEF Increasing
        <3>3. s[k] \in Nat /\ s[k + i - 1] \in Nat
            BY <1>1, <2>2, <2>4
        <3>4. s[k + i - 1] >= from
            BY <2>2, <3>2, <3>3
        <3> QED
            BY <1>1, <2>3, <2>4, <3>4 DEF ToSet
    <2>7. ASSUME NEW i \in 1..n, s[i] >= from
          PROVE  s[i] \in ToSet(t)
        <3>1. k <= i
            BY <1>1, <2>1, <2>7
        <3>2. i - k + 1 \in 1..(n - k + 1) /\ k + (i - k + 1) - 1 = i
            BY <1>1, <2>2, <3>1
        <3>3. t[i - k + 1] = s[i]
            BY <2>3, <3>2
        <3> QED
            BY <2>3, <3>2, <3>3 DEF ToSet
    <2>8. ToSet(t) = {x \in ToSet(s) : x >= from}
        BY <1>1, <2>3, <2>6, <2>7 DEF ToSet
    <2>9. Increasing(t)
        BY <2>3, <2>5 DEF Increasing
    <2> QED
        BY <1>3, <2>3, <2>8, <2>9 DEF k, n
<1> QED
    BY <1>2, <1>3

\* Parts that come one before the other flatten to a sequence that increases.
LEMMA FlattenIncreasing ==
    ASSUME NEW n \in Nat, NEW parts, DOMAIN parts = 1..n, Len(parts) = n,
           n = 0 => parts = <<>>,
           \A i \in 1..n : parts[i] \in Seq(Nat),
           IncreasingParts(parts)
    PROVE  LET s == FlattenSeq(parts)
           IN  /\ s \in Seq(Nat) /\ Increasing(s)
               /\ ToSet(s) = UNION {ToSet(parts[i]) : i \in 1..n}
<1>1. CASE n = 0
    <2>1. FlattenSeq(parts) = <<>>
        BY <1>1 DEF FlattenSeq
    <2> QED
        BY <1>1, <2>1 DEF Increasing, ToSet
<1>2. CASE n # 0
    <2>1. PICK f : /\ FlattenSeq(parts) = f[n] /\ f[1] = parts[1]
                   /\ \A i \in 2..n : f[i] = f[i - 1] \o parts[i]
        <3>1. n \in Nat \ {0}
            BY <1>2
        <3> QED
            BY <3>1, FlattenRounds, Zenon
    <2> DEFINE Done(k) == /\ f[k] \in Seq(Nat) /\ Increasing(f[k])
                          /\ \A x : x \in ToSet(f[k]) <=> \E i \in 1..k : x \in ToSet(parts[i])
               Bad == {k \in 1..n : ~Done(k)}
    <2>2. Bad = {}
        <3> SUFFICES ASSUME Bad # {} PROVE FALSE
            OBVIOUS
        <3>1. PICK k \in Bad : \A j \in Bad : k <= j
            <4>1. Bad \subseteq Nat
                OBVIOUS
            <4> HIDE DEF Bad
            <4> QED
                BY <4>1, LeastNat
        <3>2. k \in 1..n /\ ~Done(k)
            OBVIOUS
        <3>3. CASE k = 1
            <4>1. 1 \in 1..n
                BY <1>2
            <4>2. 1..1 = {1}
                OBVIOUS
            <4>3. Increasing(parts[1]) /\ parts[1] \in Seq(Nat)
                BY <4>1 DEF IncreasingParts
            <4> QED
                BY <2>1, <3>2, <3>3, <4>2, <4>3
        <3>4. CASE k # 1
            <4>1. k - 1 \in 1..n /\ k \in 2..n /\ k - 1 \in Nat /\ k \in Nat /\ k - 1 < k
                BY <3>2, <3>4
            <4>2. Done(k - 1)
                <5>1. k - 1 \notin Bad
                    <6> HIDE DEF Bad
                    <6> QED
                        BY <3>1, <4>1
                <5> QED
                    BY <4>1, <5>1
            <4>3. f[k] = f[k - 1] \o parts[k]
                BY <2>1, <4>1
            <4>4. Increasing(parts[k]) /\ parts[k] \in Seq(Nat)
                BY <3>2 DEF IncreasingParts
            <4>5. ASSUME NEW x \in ToSet(f[k - 1]), NEW y \in ToSet(parts[k])
                  PROVE  x < y
                <5>1. PICK i \in 1..(k - 1) : x \in ToSet(parts[i])
                    BY <4>2
                <5>2. i \in 1..n /\ i < k
                    BY <3>2, <4>1
                <5> QED
                    BY <3>2, <5>1, <5>2 DEF IncreasingParts
            <4>6. f[k] \in Seq(Nat) /\ Increasing(f[k])
                  /\ ToSet(f[k]) = ToSet(f[k - 1]) \cup ToSet(parts[k])
                <5> DEFINE s == f[k - 1]
                           t == parts[k]
                <5>1. s \in Seq(Nat) /\ t \in Seq(Nat) /\ Increasing(s) /\ Increasing(t)
                    BY <4>2, <4>4
                <5>2. \A x \in ToSet(s), y \in ToSet(t) : x < y
                    BY <4>5
                <5> HIDE DEF s, t
                <5>3. s \o t \in Seq(Nat) /\ Increasing(s \o t)
                      /\ ToSet(s \o t) = ToSet(s) \cup ToSet(t)
                    BY <5>1, <5>2, ConcatIncreasing
                <5> QED
                    BY <4>3, <5>3 DEF s, t
            <4>7. \A i : i \in 1..k <=> i \in 1..(k - 1) \/ i = k
                BY <4>1
            <4>8. \A x : x \in ToSet(f[k]) <=> \E i \in 1..k : x \in ToSet(parts[i])
                BY <4>2, <4>6, <4>7
            <4> QED
                BY <3>2, <4>6, <4>8
        <3> QED
            BY <3>3, <3>4
    <2>3. n \in 1..n
        BY <1>2
    <2>4. Done(n)
        BY <2>2, <2>3
    <2> QED
        BY <2>1, <2>4
<1> QED
    BY <1>1, <1>2

-----------------------------------------------------------------------------
(***************************************************************************)
(* What a scan reads.                                                      *)
(***************************************************************************)
IdSeq(frames) == [j \in DOMAIN frames |-> frames[j].id]

LEMMA IdSeqIs ==
    ASSUME NEW frames \in Seq(FrameType), Ascending(frames)
    PROVE  /\ IdSeq(frames) \in Seq(Nat) /\ Increasing(IdSeq(frames))
           /\ ToSet(IdSeq(frames)) = Ids(frames)
<1>1. DOMAIN frames = 1..Len(frames) /\ Len(frames) \in Nat
    OBVIOUS
<1>2. \A j \in DOMAIN frames : frames[j].id \in Nat
    <2> SUFFICES ASSUME NEW j \in DOMAIN frames PROVE frames[j].id \in Nat
        OBVIOUS
    <2>1. frames[j] \in FrameType
        OBVIOUS
    <2> QED
        BY <2>1, BoundsAssumption DEF FrameType
<1>3. IdSeq(frames) \in Seq(Nat)
    BY <1>1, <1>2 DEF IdSeq
<1>4. DOMAIN IdSeq(frames) = DOMAIN frames /\ \A j \in DOMAIN frames : IdSeq(frames)[j] = frames[j].id
    BY DEF IdSeq
<1>5. Increasing(IdSeq(frames))
    BY <1>4 DEF Increasing, Ascending
<1>6. ToSet(IdSeq(frames)) = Ids(frames)
    BY <1>4 DEF ToSet, Ids
<1> QED
    BY <1>3, <1>5, <1>6

\* The ids of the live segments in the order of the Vec, each of them once.
LEMMA OrderedIds ==
    ASSUME NEW st, WellFormed(st)
    PROVE  LET order == SegmentIdsInOrder(st)
               n == Cardinality(DOMAIN st.segments)
           IN  /\ n \in Nat \ {0} /\ DOMAIN order = 1..n
               /\ \A i \in 1..n : /\ InOrder(st)[i] \in DOMAIN st.segments
                                  /\ order[i] = st.segments[InOrder(st)[i]].id
                                  /\ order[i] \in Live(st)
               /\ \A i, j \in 1..n : i < j => InOrder(st)[i] < InOrder(st)[j]
               /\ \A i, j \in 1..n : order[i] = order[j] => i = j
               /\ \A id \in Live(st) : \E i \in 1..n : order[i] = id
<1> DEFINE D == DOMAIN st.segments
           n == Cardinality(D)
           f == InOrder(st)
           order == SegmentIdsInOrder(st)
<1>1. n \in Nat /\ f \in [1..n -> D] /\ \A i, j \in 1..n : i < j => f[i] < f[j]
    BY InOrderIs
<1>2. PICK p \in D : \A q \in D : q <= p
    BY DEF WellFormed, ActiveIsLast
<1>3. D \subseteq Nat
    BY DEF WellFormed, StateShape
<1>4. IsFiniteSet(D)
    <2>1. p \in Nat /\ D \subseteq 0..p
        BY <1>2, <1>3
    <2> QED
        BY <2>1, BoundedListable DEF Listable
<1> HIDE DEF n, f, D
<1>5. \A i, j \in 1..n : f[i] = f[j] => i = j
    <2> SUFFICES ASSUME NEW i \in 1..n, NEW j \in 1..n, f[i] = f[j], i # j PROVE FALSE
        OBVIOUS
    <2>1. f[i] \in Nat /\ f[j] \in Nat
        BY <1>1, <1>3
    <2>2. i < j \/ j < i
        BY <1>1
    <2>3. f[i] < f[j] \/ f[j] < f[i]
        BY <1>1, <2>2
    <2> QED
        BY <2>1, <2>3
<1>6. f \in Surjection(1..n, D)
    <2>1. f \in Injection(1..n, D)
        BY <1>1, <1>5 DEF Injection, IsInjective
    <2>2. Cardinality(1..n) = n
        BY <1>1, FS_Interval
    <2> QED
        BY <1>4, <2>1, <2>2, FS_Injection DEF n
<1>7. \A q \in D : \E i \in 1..n : f[i] = q
    BY <1>1, <1>6 DEF Surjection
<1>8. n # 0
    BY <1>1, <1>2, <1>7
<1>9. DOMAIN order = 1..n /\ \A i \in 1..n : order[i] = st.segments[f[i]].id
    BY <1>1 DEF SegmentIdsInOrder, f
<1>10. \A i \in 1..n : f[i] \in D /\ order[i] \in Live(st)
    BY <1>1, <1>9, LiveFacts DEF D
<1>11. \A i, j \in 1..n : order[i] = order[j] => i = j
    BY <1>5, <1>9, <1>10 DEF WellFormed, IdsUnique, D
<1>12. \A id \in Live(st) : \E i \in 1..n : order[i] = id
    BY <1>7, <1>9 DEF Live, D
<1> QED
    BY <1>1, <1>8, <1>9, <1>10, <1>11, <1>12 DEF n, f, D

\* The first id that a scan yields.
LEMMA FromIs ==
    ASSUME NEW a \in Nat, NEW b \in Nat
    PROVE  /\ Max({a, b}) \in Nat /\ Max({a, b}) >= a /\ Max({a, b}) >= b
           /\ \A x \in Nat : x >= Max({a, b}) <=> x >= a /\ x >= b
<1>1. \E x \in {a, b} : \A y \in {a, b} : x >= y
    <2>1. CASE a >= b
        BY <2>1
    <2>2. CASE b >= a
        BY <2>2
    <2> QED
        BY <2>1, <2>2
<1>2. Max({a, b}) \in {a, b} /\ \A y \in {a, b} : Max({a, b}) >= y
    BY <1>1 DEF Max
<1> QED
    BY <1>2

\* The entries of the live segments, segment by segment.
LEMMA LiveFiles ==
    ASSUME StructureInv, FileInv, CrashInv, Opened
    PROVE  LET order == SegmentIdsInOrder(state)
               n == Cardinality(DOMAIN state.segments)
           IN  /\ \A id \in Live(state) :
                    /\ id \in SegIds /\ disk[id] \in FileType /\ disk[id] \in Outcomes[id]
                    /\ disk[id].frames \in Seq(FrameType) /\ Ascending(disk[id].frames)
               /\ \A i, j \in 1..n : i < j =>
                    \A x \in Ids(disk[order[i]].frames), y \in Ids(disk[order[j]].frames) : x < y
<1>1. PICK m \in Manifests : m.st = state
    BY StateIsManifest
<1>2. WellFormed(state) /\ Live(state) \subseteq SegIds
    BY OpenFacts
<1>3. ASSUME NEW id \in Live(state)
      PROVE  /\ id \in SegIds /\ disk[id] \in FileType /\ disk[id] \in Outcomes[id]
             /\ disk[id].frames \in Seq(FrameType) /\ Ascending(disk[id].frames)
    <2>1. id \in SegIds /\ disk[id] \in FileType /\ disk[id] \in Outcomes[id]
        BY <1>2, OutcomesAre DEF FileInv
    <2> QED
        BY <2>1 DEF FileType, CrashInv, FramesDurable
<1>4. SegmentsAscend(state, Outcomes)
    BY <1>1 DEF CrashInv, StatesDurable, Durable
<1> DEFINE order == SegmentIdsInOrder(state)
           n == Cardinality(DOMAIN state.segments)
<1>5. /\ \A i \in 1..n : /\ InOrder(state)[i] \in DOMAIN state.segments
                         /\ order[i] = state.segments[InOrder(state)[i]].id
                         /\ order[i] \in Live(state)
      /\ \A i, j \in 1..n : i < j => InOrder(state)[i] < InOrder(state)[j]
    BY <1>2, OrderedIds
<1> HIDE DEF order, n
<1>6. ASSUME NEW i \in 1..n, NEW j \in 1..n, i < j,
             NEW x \in Ids(disk[order[i]].frames), NEW y \in Ids(disk[order[j]].frames)
      PROVE  x < y
    <2>1. disk[order[i]] \in Outcomes[order[i]] /\ disk[order[j]] \in Outcomes[order[j]]
        BY <1>3, <1>5
    <2> QED
        BY <1>4, <1>5, <1>6, <2>1 DEF SegmentsAscend
<1> QED
    BY <1>3, <1>6 DEF order, n

\* A scan that starts in a segment yields its entries from `from' on and those
\* of all later segments.
LEMMA ScanYields ==
    ASSUME StructureInv, FileInv, CrashInv, Opened, NEW requested \in Nat,
           LastEntryId # NoEntry, ~(Max({requested, state.first_entry}) > LastEntryId),
           NEW a \in DOMAIN SegmentIdsInOrder(state),
           ScanStart(Max({requested, state.first_entry})) = SegmentIdsInOrder(state)[a]
    PROVE  LET found == Scan(requested)
               from == Max({requested, state.first_entry})
               order == SegmentIdsInOrder(state)
           IN  /\ Increasing(found)
               /\ ToSet(found) =
                    {x \in Ids(disk[order[a]].frames) : x >= from}
                        \cup UNION {Ids(disk[order[i]].frames) : i \in {i \in DOMAIN order : i > a}}
<1> DEFINE from == Max({requested, state.first_entry})
           order == SegmentIdsInOrder(state)
           n == Cardinality(DOMAIN state.segments)
           ids(id) == IdSeq(disk[id].frames)
           ge == {j \in DOMAIN ids(order[a]) : ids(order[a])[j] >= from}
           head == IF ge = {} THEN <<>> ELSE SubSeq(ids(order[a]), Min(ge), Len(ids(order[a])))
           later == SubSeq(order, a + 1, Len(order))
           parts == [i \in DOMAIN later |-> ids(later[i])]
           at == {i \in DOMAIN order : order[i] = order[a]}
<1>1. WellFormed(state) /\ state.first_entry \in Nat /\ Live(state) \subseteq SegIds
    BY OpenFacts DEF WellFormed, StateShape
<1>2. from \in Nat
    BY <1>1, FromIs
<1>3. /\ n \in Nat \ {0} /\ DOMAIN order = 1..n
      /\ \A i \in 1..n : order[i] \in Live(state)
      /\ \A i, j \in 1..n : order[i] = order[j] => i = j
    BY <1>1, OrderedIds
<1>4. order = [i \in 1..n |-> order[i]]
    BY <1>3 DEF SegmentIdsInOrder
<1>5. order \in Seq(SegIds) /\ Len(order) = n
    <2> HIDE DEF order, n
    <2> QED
        BY <1>1, <1>3, <1>4
<1>6. at = {a} /\ Min(at) = a
    <2>1. at = {a}
        BY <1>3
    <2>2. a \in Nat /\ {a} \subseteq Nat /\ {a} # {}
        BY <1>3
    <2>3. Min({a}) = a
        BY <2>2, MinIs
    <2> HIDE DEF at
    <2> QED
        BY <2>1, <2>3
<1>7. Scan(requested) = head \o FlattenSeq(parts)
    <2>1. ~(LastEntryId = NoEntry \/ from > LastEntryId) /\ ScanStart(from) = order[a] /\ at # {}
        BY <1>6
    <2> QED
        BY <1>6, <2>1 DEF Scan, IdSeq
<1>8. \A id \in Live(state) :
        /\ ids(id) \in Seq(Nat) /\ Increasing(ids(id)) /\ ToSet(ids(id)) = Ids(disk[id].frames)
    <2>1. \A id \in Live(state) :
            disk[id].frames \in Seq(FrameType) /\ Ascending(disk[id].frames)
        BY LiveFiles
    <2> QED
        BY <2>1, IdSeqIs
<1>9. \A i, j \in 1..n : i < j =>
        \A x \in ToSet(ids(order[i])), y \in ToSet(ids(order[j])) : x < y
    <2>1. \A i, j \in 1..n : i < j =>
            \A x \in Ids(disk[order[i]].frames), y \in Ids(disk[order[j]].frames) : x < y
        BY LiveFiles
    <2> HIDE DEF order, n, ids
    <2> QED
        BY <1>3, <1>8, <2>1
<1>10. a \in 1..n /\ order[a] \in Live(state)
    BY <1>3
<1>11. head \in Seq(Nat) /\ Increasing(head)
       /\ ToSet(head) = {x \in ToSet(ids(order[a])) : x >= from}
    <2> DEFINE s == ids(order[a])
    <2>1. s \in Seq(Nat) /\ Increasing(s)
        BY <1>8, <1>10
    <2> HIDE DEF s, from
    <2> QED
        BY <1>2, <2>1, SuffixIncreasing DEF s
<1> HIDE DEF order, n, head, ids, at
<1>12. /\ Len(later) = n - a /\ DOMAIN later = 1..(n - a) /\ n - a \in Nat
       /\ \A i \in 1..(n - a) : a + i \in 1..n /\ later[i] = order[a + i]
    BY <1>3, <1>5, <1>10
<1> HIDE DEF later
<1>13. /\ DOMAIN parts = 1..(n - a) /\ Len(parts) = n - a
       /\ n - a = 0 => parts = <<>>
       /\ \A i \in 1..(n - a) : /\ parts[i] = ids(order[a + i])
                                /\ parts[i] \in Seq(Nat) /\ Increasing(parts[i])
    <2>1. parts = [i \in 1..(n - a) |-> ids(order[a + i])]
        BY <1>12
    <2>2. \A i \in 1..(n - a) : ids(order[a + i]) \in Seq(Nat) /\ Increasing(ids(order[a + i]))
        BY <1>3, <1>8, <1>12
    <2>3. parts \in Seq(Seq(Nat)) /\ Len(parts) = n - a
        BY <1>12, <2>1, <2>2
    <2> QED
        BY <1>12, <2>1, <2>2, <2>3
<1> HIDE DEF parts
<1>14. IncreasingParts(parts)
    <2>1. ASSUME NEW i \in 1..(n - a), NEW j \in 1..(n - a), i < j,
                 NEW x \in ToSet(parts[i]), NEW y \in ToSet(parts[j])
          PROVE  x < y
        <3>1. a + i < a + j
            BY <1>3, <1>10, <2>1
        <3> QED
            BY <1>9, <1>12, <1>13, <2>1, <3>1
    <2> QED
        BY <1>13, <2>1 DEF IncreasingParts
<1> DEFINE tail == FlattenSeq(parts)
<1>15. /\ tail \in Seq(Nat) /\ Increasing(tail)
       /\ ToSet(tail) = UNION {ToSet(parts[i]) : i \in 1..(n - a)}
    BY <1>12, <1>13, <1>14, FlattenIncreasing
<1> HIDE DEF tail
<1>16. ASSUME NEW x \in ToSet(head), NEW y \in ToSet(tail)
       PROVE  x < y
    <2>1. PICK i \in 1..(n - a) : y \in ToSet(parts[i])
        BY <1>15
    <2>2. a < a + i
        BY <1>3, <1>10, <2>1
    <2> QED
        BY <1>9, <1>10, <1>11, <1>12, <1>13, <2>1, <2>2
<1>17. /\ Increasing(head \o tail)
       /\ ToSet(head \o tail) = ToSet(head) \cup ToSet(tail)
    BY <1>11, <1>15, <1>16, ConcatIncreasing
<1>18. ToSet(head) = {x \in Ids(disk[order[a]].frames) : x >= from}
    BY <1>8, <1>10, <1>11
<1>19. ToSet(tail) = UNION {Ids(disk[order[i]].frames) : i \in {i \in DOMAIN order : i > a}}
    <2>1. \A i \in 1..(n - a) :
            /\ a + i \in {k \in 1..n : k > a}
            /\ ToSet(parts[i]) = Ids(disk[order[a + i]].frames)
        BY <1>3, <1>8, <1>10, <1>12, <1>13
    <2>2. \A k \in {k \in 1..n : k > a} : k - a \in 1..(n - a) /\ a + (k - a) = k
        BY <1>3, <1>10
    <2> QED
        BY <1>3, <1>15, <2>1, <2>2
<1> QED
    BY <1>7, <1>17, <1>18, <1>19 DEF tail, order, from

-----------------------------------------------------------------------------
(***************************************************************************)
(* The index of an open store.                                             *)
(***************************************************************************)
\* The checkpoints of a scanned file are some of its entries, in order, and
\* there is one unless the file is empty.
LEMMA CheckpointsHeld ==
    ASSUME NEW frames \in Seq(FrameType), Ascending(frames), \A i \in DOMAIN frames : frames[i].ok
    PROVE  LET cps == Checkpoints(frames)
           IN  /\ \A c \in DOMAIN cps : cps[c].id \in Ids(frames)
               /\ \A c, d \in DOMAIN cps : c < d => cps[c].id < cps[d].id
               /\ frames # <<>> => cps # <<>>
<1> DEFINE n == Len(frames)
           k == (n + Stride - 1) \div Stride
           cps == Checkpoints(frames)
           at(c) == (c - 1) * Stride + 1
<1>1. n \in Nat /\ DOMAIN frames = 1..n /\ Stride \in Nat /\ Stride # 0
    BY StrideAssumption
<1>2. CleanLen(frames) = n
    BY DEF CleanLen
<1>3. cps = [c \in 1..k |-> [id |-> frames[at(c)].id, byte_offset |-> (c - 1) * Stride]]
    BY <1>2 DEF Checkpoints
<1> HIDE DEF n, cps
<1>4. k \in Nat /\ k * Stride <= n + Stride - 1 /\ (n # 0 => k # 0)
    <2>1. k \in Nat /\ k * Stride <= n + Stride - 1
        BY <1>1
    <2>2. n # 0 => k # 0
        BY <1>1
    <2> QED
        BY <2>1, <2>2
<1> HIDE DEF k
<1>5. DOMAIN cps = 1..k /\ \A c \in 1..k : cps[c].id = frames[at(c)].id
    BY <1>3
<1>6. ASSUME NEW c \in 1..k PROVE at(c) \in DOMAIN frames
    <2>1. c * Stride <= k * Stride
        BY <1>1, <1>4
    <2>2. (c - 1) * Stride = c * Stride - Stride /\ c * Stride \in Nat /\ k * Stride \in Nat
        BY <1>1, <1>4
    <2>3. (c - 1) * Stride \in Nat
        BY <1>1, <1>4
    <2> QED
        BY <1>1, <1>4, <2>1, <2>2, <2>3
<1>7. ASSUME NEW c \in 1..k, NEW d \in 1..k, c < d PROVE at(c) < at(d)
    <2>1. c \in Int /\ d \in Int /\ d - c >= 1 /\ d - c \in Nat
        BY <1>4, <1>7
    <2>2. (d - 1) * Stride = (c - 1) * Stride + (d - c) * Stride
        BY <1>1, <2>1
    <2>3. (d - c) * Stride >= 1 /\ (d - c) * Stride \in Nat
        BY <1>1, <2>1
    <2>4. (c - 1) * Stride \in Int
        BY <1>1, <2>1
    <2> QED
        BY <2>2, <2>3, <2>4
<1> HIDE DEF at
<1>8. \A c \in DOMAIN cps : cps[c].id \in Ids(frames)
    BY <1>5, <1>6 DEF Ids
<1>9. \A c, d \in DOMAIN cps : c < d => cps[c].id < cps[d].id
    BY <1>5, <1>6, <1>7 DEF Ascending
<1>10. frames # <<>> => cps # <<>>
    <2>1. frames # <<>> => n # 0
        BY <1>1 DEF n
    <2>2. k # 0 => 1 \in DOMAIN cps
        BY <1>4, <1>5
    <2> QED
        BY <1>4, <2>1, <2>2
<1> QED
    BY <1>8, <1>9, <1>10 DEF cps

\* The index that open builds is in order: the sealed segments are not empty,
\* and the active one is the last.
LEMMA LoadedIndex ==
    ASSUME StructureInv, FileInv, FileInv', CrashInv, Loading
    PROVE  IndexHeld'
<1> DEFINE st == mdisk.st
           order == SegmentIdsInOrder(st)
           n == Cardinality(DOMAIN st.segments)
           new == BuildIndex(st, disk)
<1>1. /\ Load /\ UNCHANGED <<disk, surv>> /\ WellFormed(st) /\ Known(st) \subseteq SegIds
      /\ \A id \in Live(st) : \A i \in DOMAIN disk[id].frames : disk[id].frames[i].ok
    BY LoadedFrom DEF Loading, FileInv
<1>2. state' = st /\ index' = new /\ disk' = disk
    BY <1>1 DEF Load
<1>3. /\ n \in Nat \ {0} /\ DOMAIN order = 1..n
      /\ \A i \in 1..n : /\ InOrder(st)[i] \in DOMAIN st.segments
                         /\ order[i] = st.segments[InOrder(st)[i]].id
                         /\ order[i] \in Live(st)
      /\ \A i, j \in 1..n : i < j => InOrder(st)[i] < InOrder(st)[j]
    BY <1>1, OrderedIds
<1>4. FilesPresent(st, Outcomes) /\ SegmentsAscend(st, Outcomes)
    BY DEF CrashInv, StatesDurable, Durable, Manifests
<1>5. \A id \in Live(st) : /\ disk[id] \in FileType /\ disk[id] \in Outcomes[id]
                           /\ disk[id].frames \in Seq(FrameType) /\ Ascending(disk[id].frames)
    <2>1. \A id \in Live(st) : id \in SegIds
        BY <1>1 DEF Known
    <2>2. \A id \in SegIds : disk[id] \in FileType /\ disk[id] \in Outcomes[id]
        BY OutcomesAre DEF FileInv
    <2> QED
        BY <2>1, <2>2 DEF FileType, CrashInv, FramesDurable
<1> HIDE DEF st, order, n
<1>6. /\ DOMAIN new = 1..n
      /\ \A i \in 1..n : /\ new[i].segment = order[i]
                         /\ new[i].checkpoints = Checkpoints(disk[order[i]].frames)
    BY <1>3 DEF BuildIndex, order
<1> HIDE DEF new
<1>7. \A i \in 1..n :
        LET cps == new[i].checkpoints
        IN  /\ \A c \in DOMAIN cps : cps[c].id \in Ids(disk[order[i]].frames)
            /\ \A c, d \in DOMAIN cps : c < d => cps[c].id < cps[d].id
            /\ disk[order[i]].frames # <<>> => cps # <<>>
    <2> SUFFICES ASSUME NEW i \in 1..n
                 PROVE  LET cps == new[i].checkpoints
                        IN  /\ \A c \in DOMAIN cps : cps[c].id \in Ids(disk[order[i]].frames)
                            /\ \A c, d \in DOMAIN cps : c < d => cps[c].id < cps[d].id
                            /\ disk[order[i]].frames # <<>> => cps # <<>>
        BY Zenon
    <2> DEFINE frames == disk[order[i]].frames
    <2>1. frames \in Seq(FrameType) /\ Ascending(frames) /\ \A k \in DOMAIN frames : frames[k].ok
        BY <1>1, <1>3, <1>5
    <2>2. new[i].checkpoints = Checkpoints(frames)
        BY <1>6
    <2> HIDE DEF frames
    <2>3. LET cps == Checkpoints(frames)
          IN  /\ \A c \in DOMAIN cps : cps[c].id \in Ids(frames)
              /\ \A c, d \in DOMAIN cps : c < d => cps[c].id < cps[d].id
              /\ frames # <<>> => cps # <<>>
        BY <2>1, CheckpointsHeld
    <2> QED
        BY <2>2, <2>3 DEF frames
<1>8. ASSUME NEW i \in 1..n, NEW j \in 1..n, i < j,
             NEW c \in DOMAIN new[i].checkpoints, NEW d \in DOMAIN new[j].checkpoints
      PROVE  new[i].checkpoints[c].id < new[j].checkpoints[d].id
    <2>1. disk[order[i]] \in Outcomes[order[i]] /\ disk[order[j]] \in Outcomes[order[j]]
        BY <1>3, <1>5
    <2>2. /\ new[i].checkpoints[c].id \in Ids(disk[order[i]].frames)
          /\ new[j].checkpoints[d].id \in Ids(disk[order[j]].frames)
        BY <1>7, <1>8
    <2> QED
        BY <1>3, <1>4, <1>8, <2>1, <2>2 DEF SegmentsAscend
<1>9. ASSUME NEW i \in 1..n, new[i].checkpoints = <<>>
      PROVE  i = n
    <2> SUFFICES ASSUME i # n PROVE FALSE
        OBVIOUS
    <2>1. n \in 1..n /\ i < n
        BY <1>3
    <2>2. InOrder(st)[i] < InOrder(st)[n]
        BY <1>3, <2>1
    <2>3. order[i] # st.active_segment_id
        BY <1>1, <1>3, <2>1, <2>2, LiveFacts
    <2>4. order[i] \in DOMAIN st.seals
        BY <1>1, <1>3, <2>3, LiveFacts
    <2>5. MatchesSeal(disk[order[i]], st.seals[order[i]])
        BY <1>3, <1>4, <1>5, <2>4 DEF FilesPresent
    <2> QED
        BY <1>7, <1>9, <2>5 DEF MatchesSeal
<1>10. Len(new) = n
    <2>1. new = [i \in 1..n |-> new[i]]
        BY <1>3 DEF new, BuildIndex, order
    <2> QED
        BY <1>3, <2>1
<1>11. IndexOrdered(new)
    BY <1>6, <1>7, <1>8, <1>9, <1>10 DEF IndexOrdered
<1>12. \A i \in DOMAIN new : \A c \in DOMAIN new[i].checkpoints :
        /\ new[i].segment \in Live(st)
        /\ new[i].checkpoints[c].id \in Ids(disk[new[i].segment].frames)
    BY <1>3, <1>6, <1>7
<1> QED
    BY <1>2, <1>11, <1>12 DEF IndexHeld

\* The live segments keep their frames, but for the one that a write extends.
LEMMA LiveStays ==
    ASSUME SyncingCaller, StructureInv, FileInv, CrashInv, CrashNext, Opened,
           ~AppendFrames, ~PowerLoss, NEW id \in Live(state)
    PROVE  disk'[id].frames = disk[id].frames
<1>1. id \in SegIds
    BY OpenFacts
<1>2. CASE UNCHANGED <<disk, surv>>
    BY <1>2
<1>3. CASE ~UNCHANGED <<disk, surv>>
    <2>1. PICK x \in SegIds :
            /\ \A y \in SegIds : y # x => disk'[y] = disk[y] /\ surv'[y] = surv[y]
            /\ \/ x \notin Live(state)
               \/ disk'[x] = disk[x]
               \/ disk'[x] = SegmentFile(disk[x].frames, FALSE)
        BY <1>3, FilesChange
    <2> QED
        BY <1>1, <2>1 DEF SegmentFile
<1> QED
    BY <1>2, <1>3

\* A step that leaves the index and takes nothing from the live segments.
LEMMA IndexKept ==
    ASSUME IndexHeld, Opened, index' = index, Live(state) \subseteq Live(state'),
           \A id \in Live(state) : Ids(disk[id].frames) \subseteq Ids(disk'[id].frames)
    PROVE  IndexHeld'
    BY DEF IndexHeld

\* truncate_start leaves no checkpoint of a segment that it drops: those are
\* all before the new head.
LEMMA TruncatedIndex ==
    ASSUME SyncingCaller, StructureInv, FileInv, CrashInv, IndexHeld, SyncTruncateStart
    PROVE  IndexHeld'
<1> DEFINE first == mbuf.first_entry
           new == IndexTruncateStart(index, first)
<1>1. /\ Opened /\ pc = "sync" /\ mbuf.type = "TruncateStart"
      /\ state' = Apply(state, mbuf) /\ index' = new /\ disk' = disk
    BY DEF SyncTruncateStart, segmentVars, Opened
<1>2. OpValid(state, mbuf, next_seg_id, to_delete)
    BY <1>1 DEF StructureInv, ControlOk, NoOp
<1>3. first \in Nat /\ mbuf.drop \subseteq DOMAIN state.seals
    BY <1>1, <1>2 DEF OpValid, RollSegmentOp, TruncateStartOp, TruncateEndOp, SegmentDeletedOp,
                MetadataOp
<1>4. Live(state') = Live(state) \ mbuf.drop
    BY <1>1, ApplyTruncateStart
<1>5. PICK m \in Manifests : m.st = state
    BY <1>1, StateIsManifest
<1>6. index \in Seq(SegmentIndex)
    BY DEF FileInv, MemoryTyped
<1>7. /\ IndexOrdered(index)
      /\ \A i \in DOMAIN index : \A c \in DOMAIN index[i].checkpoints :
            /\ index[i].segment \in Live(state)
            /\ index[i].checkpoints[c].id \in Ids(disk[index[i].segment].frames)
    BY <1>1 DEF IndexHeld
<1> HIDE DEF first
<1>8. /\ IndexOrdered(new)
      /\ \A i \in DOMAIN new : \E j \in DOMAIN index :
            /\ new[i].segment = index[j].segment
            /\ \A c \in DOMAIN new[i].checkpoints :
                /\ new[i].checkpoints[c].id >= first
                /\ \E d \in DOMAIN index[j].checkpoints :
                    new[i].checkpoints[c] = index[j].checkpoints[d]
    BY <1>3, <1>6, <1>7, TruncateStartTheorem
<1> HIDE DEF new
<1>9. ASSUME NEW id \in mbuf.drop, NEW x \in Ids(disk[id].frames) PROVE ~(x >= first)
    <2>1. id \in SegIds /\ id \in DOMAIN state.seals
        BY <1>1, <1>3, OpenFacts DEF WellFormed, SealedIsRest
    <2>2. disk[id] \in Outcomes[id] /\ disk[id] \in FileType
        BY <2>1, OutcomesAre DEF FileInv
    <2>3. MatchesSeal(disk[id], state.seals[id])
        BY <1>5, <2>1, <2>2 DEF CrashInv, StatesDurable, Durable, FilesPresent
    <2>4. disk[id].frames \in Seq(FrameType) /\ Ascending(disk[id].frames)
        BY <2>1, <2>2 DEF FileType, CrashInv, FramesDurable
    <2>5. x <= state.seals[id].last_entry /\ state.seals[id].last_entry \in Ids(disk[id].frames)
        BY <1>9, <2>3, <2>4, AscendingLast DEF MatchesSeal
    <2>6. state.seals[id].last_entry < first
        BY <1>1, <1>9 DEF CrashInv, CallDurable, first
    <2>7. x \in Nat /\ state.seals[id].last_entry \in Nat
        BY <1>9, <2>2, <2>5, IdsNat
    <2> QED
        BY <1>3, <2>5, <2>6, <2>7
<1>10. ASSUME NEW i \in DOMAIN new, NEW c \in DOMAIN new[i].checkpoints
       PROVE  /\ new[i].segment \in Live(state')
              /\ new[i].checkpoints[c].id \in Ids(disk[new[i].segment].frames)
    <2>1. PICK j \in DOMAIN index :
            /\ new[i].segment = index[j].segment
            /\ new[i].checkpoints[c].id >= first
            /\ \E d \in DOMAIN index[j].checkpoints :
                new[i].checkpoints[c] = index[j].checkpoints[d]
        BY <1>8, <1>10
    <2>2. PICK d \in DOMAIN index[j].checkpoints :
            new[i].checkpoints[c] = index[j].checkpoints[d]
        BY <2>1
    <2>3. /\ new[i].segment \in Live(state)
          /\ new[i].checkpoints[c].id \in Ids(disk[new[i].segment].frames)
        BY <1>7, <2>1, <2>2
    <2> QED
        BY <1>4, <1>9, <2>1, <2>3
<1> QED
    BY <1>1, <1>8, <1>10 DEF IndexHeld

LEMMA NextIndex ==
    ASSUME SyncingCaller, StructureInv, FileInv, FileInv', CrashInv, IndexHeld, CrashNext
    PROVE  IndexHeld'
<1>1. CASE Loading
    BY <1>1, LoadedIndex
<1>2. CASE SyncTruncateStart
    BY <1>2, TruncatedIndex
<1>3. CASE Recovering \/ Fixing \/ SyncFixOp \/ PowerLoss \/ Restart
    <2>1. pc' \in {"fix", "fixsync", "closed"}
        BY <1>3 DEF Recovering, Fixing, SyncFixOp, PowerLoss, Restart, ForgetMemory, Goto
    <2> QED
        BY <2>1 DEF IndexHeld, Opened
<1>4. CASE ~Opened /\ UNCHANGED vars
    <2>1. UNCHANGED <<pc, mbuf>>
        BY <1>4 DEF vars, callVars
    <2> QED
        BY <1>4, <2>1 DEF IndexHeld, Opened
<1>5. CASE AppendFrames
    <2>1. /\ Opened /\ active_id \in SegIds /\ state' = state /\ index' = index
          /\ disk[active_id].frames \in Seq(FrameType) /\ buf \in Seq(FrameType)
          /\ \A x \in SegIds : x # active_id => disk'[x] = disk[x]
          /\ disk'[active_id].frames = disk[active_id].frames \o buf
        BY <1>5, AppendedFiles DEF AppendFrames, AppendAfter, SegmentFile
    <2>2. Ids(disk[active_id].frames) \subseteq Ids(disk'[active_id].frames)
        BY <2>1, IdsConcat
    <2>3. Live(state) \subseteq SegIds
        BY <2>1, OpenFacts
    <2> QED
        BY <2>1, <2>2, <2>3, IndexKept
<1>6. CASE /\ ~PowerLoss /\ ~AppendFrames
           /\ \/ CreateNew \/ WriteMagic \/ RemoveFile \/ Flush \/ Beginning \/ CommitSync
              \/ SyncRollover \/ SyncDeleted \/ SyncMetadata \/ (Opened /\ UNCHANGED vars)
    <2>1. Opened
        <3>1. CASE CreateNew \/ WriteMagic
            <4>1. pc \in {"create", "magic"}
                BY <3>1 DEF CreateNew, WriteMagic
            <4>2. mbuf.type = "RollSegment"
                BY <4>1 DEF CrashInv, ControlDurable
            <4> QED
                BY <4>1, <4>2 DEF Opened, NoOp
        <3>2. CASE Flush
            BY <3>2, FlushedState
        <3>3. CASE RemoveFile \/ CommitSync \/ SyncRollover \/ SyncDeleted \/ SyncMetadata
            BY <3>3 DEF RemoveFile, CommitSync, SyncRollover, SyncDeleted, SyncMetadata, Opened
        <3>4. CASE Beginning
            BY <3>4 DEF Beginning, Write, TruncateStart, DeleteDeadSegments, WriteMetadata, Opened
        <3> QED
            BY <1>6, <3>1, <3>2, <3>3, <3>4
    <2>2. index' = index /\ Live(state) \subseteq Live(state')
        <3>1. CASE CreateNew \/ WriteMagic \/ RemoveFile \/ Flush \/ CommitSync \/ UNCHANGED vars
            BY <3>1 DEF CreateNew, WriteMagic, RemoveFile, Flush, CommitSync, vars, storeVars
        <3>2. CASE Beginning
            BY <3>2 DEF Beginning, Write, TruncateStart, DeleteDeadSegments, WriteMetadata, storeVars
        <3>3. CASE SyncDeleted \/ SyncMetadata
            <4>1. /\ state' = Apply(state, mbuf) /\ mbuf.type \in {"SegmentDeleted", "Metadata"}
                  /\ index' = index
                BY <3>3 DEF SyncDeleted, SyncMetadata
            <4> QED
                BY <4>1, ApplySame DEF Live
        <3>4. CASE SyncRollover
            <4>1. /\ state' = Apply(state, mbuf) /\ mbuf.type = "RollSegment" /\ index' = index
                  /\ pc = "sync"
                BY <3>4 DEF SyncRollover
            <4>2. OpValid(state, mbuf, next_seg_id, to_delete) /\ WellFormed(state)
                BY <2>1, <4>1, OpenFacts DEF StructureInv, ControlOk, NoOp
            <4>3. mbuf.sealed_id = state.active_segment_id
                BY <4>1, <4>2 DEF OpValid, RollSegmentOp, TruncateStartOp, TruncateEndOp,
                            SegmentDeletedOp, MetadataOp
            <4>4. Live(Apply(state, mbuf)) = Live(state) \cup {mbuf.new_id}
                BY <4>1, <4>2, <4>3, ApplyRollSegment
            <4> QED
                BY <4>1, <4>4
        <3> QED
            BY <1>6, <3>1, <3>2, <3>3, <3>4
    <2>3. \A id \in Live(state) : disk'[id].frames = disk[id].frames
        BY <1>6, <2>1, LiveStays
    <2> QED
        BY <2>1, <2>2, <2>3, IndexKept
<1>7. CASE PowerLoss
    BY <1>3, <1>7
<1> QED
    BY <1>1, <1>2, <1>3, <1>4, <1>5, <1>6, <1>7 DEF CrashNext, Syncing

\* The index of an open store is in order and names entries that are still
\* there: a scan may start at any of its checkpoints, however often the head
\* has moved since the store was opened.
THEOREM IndexTheorem == ASSUME SyncingCaller PROVE Spec => []IndexHeld
<1>1. Init => IndexHeld
    BY DEF Init, IndexHeld, Opened
<1>2. /\ StructureInv /\ FileInv /\ CrashInv /\ IndexHeld /\ [Next]_vars /\ FileInv'
      => IndexHeld'
    BY CrashSteps, NextIndex
<1> QED
    BY <1>1, <1>2, CrashTheorem, PTL DEF Spec

-----------------------------------------------------------------------------
\* A scan starts in a live segment, and after none that holds an entry it is
\* asked for.
LEMMA ScanStarts ==
    ASSUME StructureInv, FileInv, CrashInv, IndexHeld, Opened, NEW from \in Nat
    PROVE  \E a \in DOMAIN SegmentIdsInOrder(state) :
            /\ ScanStart(from) = SegmentIdsInOrder(state)[a]
            /\ \A b \in DOMAIN SegmentIdsInOrder(state) : b < a =>
                \A x \in Ids(disk[SegmentIdsInOrder(state)[b]].frames) : x < from
<1> DEFINE order == SegmentIdsInOrder(state)
           n == Cardinality(DOMAIN state.segments)
           found == Find(index, from)
<1>1. WellFormed(state) /\ index \in Seq(SegmentIndex)
    BY OpenFacts DEF FileInv, MemoryTyped
<1>2. /\ n \in Nat \ {0} /\ DOMAIN order = 1..n
      /\ \A i \in 1..n : order[i] \in Live(state)
      /\ \A id \in Live(state) : \E i \in 1..n : order[i] = id
    BY <1>1, OrderedIds
<1>3. /\ \A id \in Live(state) : disk[id] \in FileType
      /\ \A i, j \in 1..n : i < j =>
            \A x \in Ids(disk[order[i]].frames), y \in Ids(disk[order[j]].frames) : x < y
    BY LiveFiles
<1>4. CASE found = NoPosition
    <2>1. ScanStart(from) = order[1] /\ 1 \in DOMAIN order
        BY <1>2, <1>4 DEF ScanStart
    <2>2. \A b \in DOMAIN order : ~(b < 1)
        BY <1>2
    <2> QED
        BY <2>1, <2>2
<1>5. CASE found # NoPosition
    <2>1. PICK p \in DOMAIN index : \E c \in DOMAIN index[p].checkpoints :
            /\ index[p].checkpoints[c].id <= from
            /\ found = [segment |-> index[p].segment,
                        byte_offset |-> index[p].checkpoints[c].byte_offset]
        BY <1>1, <1>5, FindTheorem
    <2>2. PICK c \in DOMAIN index[p].checkpoints :
            index[p].checkpoints[c].id <= from /\ found.segment = index[p].segment
        BY <2>1
    <2> DEFINE y == index[p].checkpoints[c].id
    <2>3. ScanStart(from) = index[p].segment
        BY <1>5, <2>2 DEF ScanStart
    <2>4. index[p].segment \in Live(state) /\ y \in Ids(disk[index[p].segment].frames)
        BY DEF IndexHeld
    <2>5. PICK a \in 1..n : order[a] = index[p].segment
        BY <1>2, <2>4
    <2> HIDE DEF order, n, found, y
    <2>6. ASSUME NEW b \in 1..n, b < a, NEW x \in Ids(disk[order[b]].frames)
          PROVE  x < from
        <3>1. x < y
            BY <1>3, <2>4, <2>5, <2>6
        <3>2. x \in Nat /\ y \in Nat
            BY <1>2, <1>3, <2>4, <2>6, IdsNat
        <3> QED
            BY <2>2, <3>1, <3>2 DEF y
    <2> QED
        BY <1>2, <2>3, <2>5, <2>6 DEF order
<1> QED
    BY <1>4, <1>5

\* A scan from any id yields every entry of the log from that id on, once and
\* in ascending order.  It starts at the segment of a checkpoint at or before
\* the id; the index names only segments that are still there, and what comes
\* before that segment is before the id.
THEOREM ScanTheorem == ASSUME SyncingCaller PROVE Spec => []ScanComplete
<1>1. ASSUME StructureInv, FileInv, CrashInv, IndexHeld, pc = "idle", NEW requested \in 0..MaxId
      PROVE  LET found == Scan(requested)
             IN  /\ \A i, j \in DOMAIN found : i < j => found[i] < found[j]
                 /\ {x \in ToSet(found) : x >= requested /\ x >= state.first_entry}
                        = {x \in log : x >= requested}
    <2> DEFINE found == Scan(requested)
               from == Max({requested, state.first_entry})
               order == SegmentIdsInOrder(state)
               n == Cardinality(DOMAIN state.segments)
    <2>1. Opened
        BY <1>1 DEF Opened
    <2>2. /\ WellFormed(state) /\ state.first_entry \in Nat /\ Live(state) \subseteq SegIds
          /\ requested \in Nat
        BY <1>1, <2>1, OpenFacts, BoundsAssumption DEF WellFormed, StateShape
    <2>3. from \in Nat /\ \A x \in Nat : x >= from <=> x >= requested /\ x >= state.first_entry
        BY <2>2, FromIs
    <2>4. \A x : x \in log <=>
            x >= state.first_entry /\ \E id \in Live(state) : x \in Ids(disk[id].frames)
        BY <1>1, <2>1, InLog DEF CrashInv, LogHeld
    <2>5. \A id \in Live(state) : \A x \in Ids(disk[id].frames) : x \in Nat /\ x <= last_entry_id
        <3> SUFFICES ASSUME NEW id \in Live(state), NEW x \in Ids(disk[id].frames)
                     PROVE  x \in Nat /\ x <= last_entry_id
            OBVIOUS
        <3>1. disk[id] \in FileType /\ disk[id] \in Outcomes[id]
            BY <1>1, <2>1, LiveFiles
        <3> QED
            BY <1>1, <2>1, <3>1, IdsNat DEF CrashInv, LogHeld
    <2>6. last_entry_id \in Nat /\ \A x \in log : x \in Nat /\ x >= 1
        BY <1>1, BoundsAssumption DEF FileInv, MemoryTyped, HistoryTyped
    <2>7. CASE LastEntryId = NoEntry \/ from > LastEntryId
        <3>1. found = <<>>
            BY <2>7 DEF Scan
        <3>2. ASSUME NEW x \in log PROVE ~(x >= requested)
            <4>1. x \in Nat /\ x >= 1 /\ x >= state.first_entry /\ x <= last_entry_id
                BY <2>4, <2>5, <2>6
            <4>2. LastEntryId = last_entry_id /\ last_entry_id # NoEntry
                BY <2>2, <2>6, <4>1 DEF LastEntryId, NoEntry
            <4>3. ~(x >= from)
                <5> HIDE DEF from
                <5> QED
                    BY <2>3, <2>6, <2>7, <4>1, <4>2
            <4> QED
                BY <2>3, <4>1, <4>3
        <3> QED
            BY <3>1, <3>2 DEF ToSet
    <2>8. CASE ~(LastEntryId = NoEntry \/ from > LastEntryId)
        <3>1. PICK a \in DOMAIN order :
                /\ ScanStart(from) = order[a]
                /\ \A b \in DOMAIN order : b < a => \A x \in Ids(disk[order[b]].frames) : x < from
            BY <1>1, <2>1, <2>3, ScanStarts
        <3>2. /\ Increasing(found)
              /\ ToSet(found) =
                    {x \in Ids(disk[order[a]].frames) : x >= from}
                        \cup UNION {Ids(disk[order[i]].frames) : i \in {i \in DOMAIN order : i > a}}
            BY <1>1, <2>1, <2>2, <2>8, <3>1, ScanYields
        <3>3. /\ DOMAIN order = 1..n /\ n \in Nat
              /\ \A i \in 1..n : order[i] \in Live(state)
              /\ \A id \in Live(state) : \E i \in 1..n : order[i] = id
            BY <2>2, OrderedIds
        <3> HIDE DEF found, from, order, n
        <3>4. ASSUME NEW x \in ToSet(found), x >= requested, x >= state.first_entry
              PROVE  x \in log
            <4>1. \E i \in 1..n : x \in Ids(disk[order[i]].frames)
                BY <3>1, <3>2, <3>3
            <4> QED
                BY <2>4, <3>3, <3>4, <4>1
        <3>5. ASSUME NEW x \in log, x >= requested
              PROVE  x \in ToSet(found) /\ x >= state.first_entry
            <4>1. x \in Nat /\ x >= state.first_entry /\ x >= from
                BY <2>3, <2>4, <2>6, <3>5
            <4>2. PICK b \in 1..n : x \in Ids(disk[order[b]].frames)
                BY <2>4, <3>3
            <4>3. ~(b < a)
                <5>1. b < a => x < from
                    BY <3>1, <3>3, <4>2
                <5> QED
                    BY <2>3, <4>1, <5>1
            <4>4. b = a \/ b > a
                BY <3>1, <3>3, <4>3
            <4> QED
                BY <3>2, <3>3, <4>1, <4>2, <4>4
        <3>6. {x \in ToSet(found) : x >= requested /\ x >= state.first_entry}
                = {x \in log : x >= requested}
            BY <3>4, <3>5
        <3> QED
            BY <3>2, <3>6 DEF Increasing, found
    <2> QED
        BY <2>7, <2>8
<1>2. StructureInv /\ FileInv /\ CrashInv /\ IndexHeld => ScanComplete
    BY <1>1, Zenon DEF ScanComplete
<1> QED
    BY <1>2, CrashTheorem, IndexTheorem, PTL
=============================================================================
