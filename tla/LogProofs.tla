----------------------------- MODULE LogProofs ------------------------------
(***************************************************************************)
(* The store implements RaftLog, for every caller that syncs its commits   *)
(* and rolls nothing back (SyncingCaller), and all bounds.  LogInv is the  *)
(* invariant under which each step of the store is one of the log or none. *)
(***************************************************************************)
EXTENDS CrashProofs, StoreLog

\* truncate_end is the only call that sets last_valid.
LEMMA NextLastValid ==
    ASSUME CrashNext, last_valid = NoEntry
    PROVE  last_valid' = NoEntry
<1>1. CASE Loading
    BY <1>1 DEF Loading, OpenClean, FixedUp, callVars
<1>2. CASE Recovering \/ Fixing \/ SyncFixOp
    BY <1>2 DEF Recovering, OpenWithIssues, Attempt, Fixing, FixUp, SyncFixOp
<1>3. CASE CreateNew \/ WriteMagic \/ Flush \/ AppendFrames \/ CommitSync \/ RemoveFile
    BY <1>3 DEF CreateNew, WriteMagic, Flush, AppendFrames, AppendAfter, CommitSync, RemoveFile,
        callVars
<1>4. CASE Syncing \/ Beginning
    BY <1>4 DEF Syncing, SyncRollover, SyncTruncateStart, SyncDeleted, SyncMetadata,
        Beginning, Write, TruncateStart, DeleteDeadSegments, WriteMetadata
<1>5. CASE PowerLoss \/ Restart
    BY <1>5 DEF PowerLoss, Restart, ForgetMemory
<1>6. CASE UNCHANGED vars
    BY <1>6 DEF vars, callVars
<1> QED
    BY <1>1, <1>2, <1>3, <1>4, <1>5, <1>6 DEF CrashNext

-----------------------------------------------------------------------------
\* Where the steps lead: flush to sync, a fix-up's append to fixsync, an
\* append to commit, and no other step to any of the three.
LEMMA Arrivals ==
    ASSUME CrashNext
    PROVE  /\ pc' = "sync" => Flush \/ UNCHANGED vars
           /\ pc' = "fixsync" => Fixing \/ UNCHANGED vars
           /\ pc' = "commit" => AppendFrames \/ UNCHANGED vars
<1>1. CASE Loading
    BY <1>1 DEF Loading, OpenClean, Loaded, Goto
<1>2. CASE Recovering \/ SyncFixOp
    BY <1>2 DEF Recovering, SyncFixOp, Goto
<1>3. CASE CreateNew \/ WriteMagic \/ CommitSync \/ RemoveFile
    BY <1>3 DEF CreateNew, WriteMagic, CommitSync, RemoveFile, Goto
<1>4. CASE Syncing \/ Beginning
    BY <1>4 DEF Syncing, SyncRollover, SyncTruncateStart, SyncDeleted, SyncMetadata,
        Beginning, Write, TruncateStart, DeleteDeadSegments, WriteMetadata, Goto
<1>5. CASE PowerLoss \/ Restart
    BY <1>5 DEF PowerLoss, Restart, ForgetMemory, Goto
<1>6. CASE Flush \/ AppendFrames
    BY <1>6 DEF Flush, AppendFrames, AppendAfter, Goto
<1>7. CASE Fixing
    BY <1>7 DEF Fixing
<1> QED
    BY <1>1, <1>2, <1>3, <1>4, <1>5, <1>6, <1>7 DEF CrashNext

\* An append adds the next state to the manifests, and no other.
LEMMA AppendedManifests ==
    ASSUME NEW op, AppendManifest(op), msurv = {mdisk}
    PROVE  /\ mdisk'.st = Apply(mdisk.st, op)
           /\ \A m \in Manifests' : m.st \in {mdisk.st, mdisk'.st}
    BY DEF AppendManifest, Manifests, ManifestFile

\* The vote after an operation: the one it carries, if it does.
LEMMA ApplyVote ==
    ASSUME NEW st, NEW op,
           op.type \in {"RollSegment", "TruncateStart", "SegmentDeleted", "RecordOrphan", "Metadata"}
    PROVE  Vote(Apply(st, op)) =
            IF VoteKey \in DOMAIN op.meta THEN op.meta[VoteKey] ELSE Vote(st)
<1>1. ApplyStructure(st, op).meta = st.meta
    BY DEF ApplyStructure, roll_segment, truncate_start, kill_segments, segment_deleted,
        record_orphan, WithDead
<1>2. Apply(st, op).meta = Override(st.meta, op.meta)
    BY <1>1 DEF Apply, WithMeta
<1> HIDE DEF VoteKey
<1> QED
    BY <1>2 DEF Vote, Override

\* The states of the manifests in a step.
LEMMA NextManifestSettled ==
    ASSUME SyncingCaller, StructureInv, FileInv, LogInv, CrashNext
    PROVE  ManifestSettled'
<1> USE DEF LogInv
<1>1. CASE UNCHANGED vars
    BY <1>1 DEF ManifestSettled, Manifests, vars, diskVars, storeVars
<1>2. CASE Flush
    <2>1. msurv = {mdisk} /\ mdisk.st = state /\ AppendManifest(mbuf) /\ pc' = "sync" /\ state' = state
        BY <1>2, FlushedState DEF Flush, Goto, storeVars
    <2> QED
        BY <2>1, AppendedManifests DEF ManifestSettled
<1>3. CASE Fixing /\ pc' = "fixsync"
    <2>1. PICK fix \in scan(mdisk, disk) :
            /\ TruncateManifest(fix) \/ TruncateSegment(fix) \/ AppendFixOp(fix)
            /\ msurv = {mdisk}
        BY <1>3, FixSteps
    <2>2. AppendFixOp(fix)
        BY <1>3, <2>1 DEF TruncateManifest, TruncateSegment, Goto
    <2>3. AppendManifest(mbuf') /\ mbuf'.type \in {"RecordOrphan", "SegmentDeleted"}
        BY <2>2 DEF AppendFixOp, RecordOrphanOp, SegmentDeletedOp
    <2>4. mdisk'.st = Apply(mdisk.st, mbuf') /\ \A m \in Manifests' : m.st \in {mdisk.st, mdisk'.st}
        BY <2>1, <2>3, AppendedManifests
    <2>5. /\ mdisk'.st.segments = mdisk.st.segments
          /\ mdisk'.st.first_entry = mdisk.st.first_entry
        BY <2>3, <2>4, ApplySame
    <2>6. Vote(mdisk'.st) = Vote(mdisk.st)
        <3>1. VoteKey \notin DOMAIN mbuf'.meta
            BY <2>2 DEF AppendFixOp, RecordOrphanOp, SegmentDeletedOp, NoMeta
        <3> QED
            BY <2>3, <2>4, <3>1, ApplyVote
    <2> QED
        BY <1>3, <2>4, <2>5, <2>6 DEF ManifestSettled
<1>4. CASE pc' \notin {"sync", "fixsync"}
    BY <1>4 DEF ManifestSettled
<1> QED
    BY <1>1, <1>2, <1>3, <1>4, Arrivals

-----------------------------------------------------------------------------
\* No file changes, and every live segment is one that was settled before.
LEMMA SettledKept ==
    ASSUME LiveSettled, pc # "commit", UNCHANGED <<disk, surv>>,
           \A m \in Manifests' : \A id \in Live(m.st) :
                \/ \E n \in Manifests : id \in Live(n.st)
                \/ Outcomes[id] = {disk[id]}
    PROVE  LiveSettled'
<1>1. Outcomes' = Outcomes
    BY DEF Outcomes
<1> QED
    BY <1>1 DEF LiveSettled

\* Manifests whose states were there before.
LEMMA SettledStates ==
    ASSUME LiveSettled, pc # "commit", UNCHANGED <<disk, surv>>,
           \A m \in Manifests' : \E n \in Manifests : m.st = n.st
    PROVE  LiveSettled'
    BY SettledKept

\* What a live segment shows is settled, but for the file a commit writes.
LEMMA NextLiveSettled ==
    ASSUME SyncingCaller, StructureInv, StructureInv', FileInv, FileInv', LogInv, CrashInv', CrashNext
    PROVE  LiveSettled'
<1> USE DEF LogInv
<1> DiskTyped /\ DiskTyped'
    BY DEF FileInv
<1>1. \A m \in Manifests' : Live(m.st) \subseteq SegIds
    BY DEF CrashInv, StructureInv, ManifestOk, ManifestsDurable, Known
<1>2. CASE PowerLoss
    <2>1. \A id \in SegIds : surv'[id] = {disk'[id]}
        BY <1>2 DEF PowerLoss
    <2>2. \A id \in SegIds : Outcomes'[id] = {disk'[id]}
        BY <2>1, OutcomesArePrimed
    <2> QED
        BY <1>1, <2>2 DEF LiveSettled
<1>3. CASE AppendFrames
    <2>1. /\ pc = "append" /\ pc' = "commit" /\ active_id' = active_id
          /\ UNCHANGED <<mdisk, msurv>>
          /\ \A x \in SegIds : x # active_id => disk'[x] = disk[x] /\ surv'[x] = surv[x]
        BY <1>3, AppendedFiles DEF AppendFrames, AppendAfter
    <2>2. \A x \in SegIds : x # active_id => Outcomes'[x] = Outcomes[x]
        BY <2>1, OutcomesAre, OutcomesArePrimed
    <2>3. Manifests' = Manifests
        BY <2>1 DEF Manifests
    <2> QED
        BY <1>1, <2>1, <2>2, <2>3 DEF LiveSettled
<1>4. CASE /\ ~AppendFrames /\ ~PowerLoss /\ ~UNCHANGED <<disk, surv>>
    <2>1. PICK id \in SegIds :
            /\ \A x \in SegIds : x # id => disk'[x] = disk[x] /\ surv'[x] = surv[x]
            /\ UNCHANGED <<mdisk, msurv>> /\ msurv = {mdisk}
            /\ \/ /\ Opened /\ pc # "sync" /\ pc # "commit" /\ id \notin Live(state)
               \/ /\ CommitSync /\ pc = "commit" /\ id = active_id
                  /\ disk'[id] = disk[id] /\ surv'[id] = {disk[id]}
               \/ /\ pc = "fix" /\ surv'[id] = {disk'[id]}
        BY <1>4, FilesChange DEF CreateNew, WriteMagic, RemoveFile
    <2>2. Manifests' = Manifests /\ Manifests = {mdisk}
        BY <2>1 DEF Manifests
    <2>3. \A x \in SegIds : x # id => Outcomes'[x] = Outcomes[x]
        BY <2>1, OutcomesAre, OutcomesArePrimed
    <2>4. CASE Opened /\ pc # "sync" /\ pc # "commit" /\ id \notin Live(state)
        <3>1. mdisk.st = state
            BY <2>4 DEF StructureInv, MemoryOk
        <3> QED
            BY <1>1, <2>1, <2>2, <2>3, <2>4, <3>1 DEF LiveSettled
    <2>5. CASE surv'[id] = {disk'[id]} /\ (pc = "commit" => id = active_id)
        <3>1. Outcomes'[id] = {disk'[id]}
            BY <2>5, OutcomesArePrimed
        <3> QED
            BY <1>1, <2>1, <2>2, <2>3, <2>5, <3>1 DEF LiveSettled
    <2> QED
        BY <2>1, <2>4, <2>5
<1>5. CASE UNCHANGED vars
    BY <1>5 DEF LiveSettled, Manifests, Outcomes, vars, diskVars, storeVars, cursorVars
<1>6. CASE UNCHANGED <<disk, surv>> /\ Flush
    <2>1. /\ pc = "flush" /\ msurv = {mdisk} /\ mdisk.st = state /\ WellFormed(state)
          /\ OpValid(state, mbuf, next_seg_id, to_delete)
        BY <1>6, FlushedState
    <2>2. \A m \in Manifests' : m.st = state \/ m.st = Apply(state, mbuf)
        BY <1>6, <2>1, AppendedManifests DEF Flush
    <2>3. mdisk \in Manifests
        BY DEF Manifests
    <2>4. \A id \in Live(Apply(state, mbuf)) : id \in Live(state) \/ Outcomes[id] = {disk[id]}
        <3>1. mbuf.type # "TruncateEnd"
            BY DEF CrashInv, ControlDurable
        <3>2. CASE mbuf.type \in {"SegmentDeleted", "Metadata"}
            BY <3>2, ApplySame DEF Live
        <3>3. CASE mbuf.type = "TruncateStart"
            BY <3>3, ApplyTruncateStart
        <3>4. CASE mbuf.type = "RollSegment"
            <4>1. mbuf.sealed_id = state.active_segment_id /\ mbuf.new_id = next_seg_id
                  /\ next_seg_id \in SegIds
                BY <2>1, <3>4 DEF OpValid, RollSegmentOp, TruncateStartOp, TruncateEndOp,
                    SegmentDeletedOp, MetadataOp
            <4>2. Live(Apply(state, mbuf)) = Live(state) \cup {next_seg_id}
                BY <2>1, <3>4, <4>1, ApplyRollSegment
            <4>3. Outcomes[next_seg_id] = {SegmentFile(<<>>, FALSE)}
                BY <2>1, <3>4 DEF CrashInv, CallDurable
            <4>4. disk[next_seg_id] \in Outcomes[next_seg_id]
                BY <4>1, OutcomesAre
            <4> QED
                BY <4>2, <4>3, <4>4
        <3> QED
            BY <2>1, <3>1, <3>2, <3>3, <3>4 DEF OpValid
    <2> QED
        BY <1>6, <2>1, <2>2, <2>3, <2>4, SettledKept
<1>7. CASE UNCHANGED <<disk, surv>> /\ Fixing
    <2>1. PICK fix \in scan(mdisk, disk) :
            /\ TruncateManifest(fix) \/ TruncateSegment(fix) \/ AppendFixOp(fix)
            /\ msurv = {mdisk} /\ pc = "fix"
        BY <1>7, FixSteps
    <2>2. mdisk \in Manifests
        BY DEF Manifests
    <2>3. CASE AppendFixOp(fix)
        <3>1. AppendManifest(mbuf') /\ mbuf'.type \in {"RecordOrphan", "SegmentDeleted"}
            BY <2>3 DEF AppendFixOp, RecordOrphanOp, SegmentDeletedOp
        <3>2. \A m \in Manifests' : m.st \in {mdisk.st, Apply(mdisk.st, mbuf')}
            BY <2>1, <3>1, AppendedManifests
        <3>3. Live(Apply(mdisk.st, mbuf')) = Live(mdisk.st)
            BY <3>1, ApplySame DEF Live
        <3> QED
            BY <1>7, <2>1, <2>2, <3>2, <3>3, SettledKept
    <2>4. CASE TruncateManifest(fix) \/ TruncateSegment(fix)
        <3>1. \A m \in Manifests' : m.st = mdisk.st
            <4>1. CASE TruncateManifest(fix)
                BY <4>1 DEF TruncateManifest, Manifests, ManifestFile
            <4>2. CASE TruncateSegment(fix)
                BY <2>1, <4>2 DEF TruncateSegment, manifestVars, Manifests
            <4> QED
                BY <2>4, <4>1, <4>2
        <3> QED
            BY <1>7, <2>1, <2>2, <3>1, SettledStates
    <2> QED
        BY <2>1, <2>3, <2>4
<1>8. CASE UNCHANGED <<disk, surv>> /\ ~Flush /\ ~Fixing /\ ~AppendFrames /\ ~PowerLoss
           /\ ~UNCHANGED vars
    <2>1. \A m \in Manifests' : \E n \in Manifests : m.st = n.st
        <3>1. Manifests' \subseteq Manifests
            BY <1>8 DEF CrashNext, Manifests, Loading, OpenClean, FixedUp, Recovering,
                OpenWithIssues, Attempt, SyncFixOp, SyncManifest, CreateNew, WriteMagic,
                CommitSync, RemoveFile, Syncing, SyncRollover, SyncTruncateStart, SyncDeleted,
                SyncMetadata, Beginning, Write, TruncateStart, DeleteDeadSegments,
                WriteMetadata, Restart, diskVars, manifestVars
        <3> QED
            BY <3>1
    <2>2. CASE pc # "commit"
        BY <1>8, <2>1, <2>2, SettledStates
    <2>3. CASE pc = "commit"
        <3>1. CommitSync
            BY <1>8, <2>3 DEF CrashNext, Loading, OpenClean, FixedUp, Recovering,
                OpenWithIssues, Attempt, SyncFixOp, CreateNew, WriteMagic,
                RemoveFile, Syncing, SyncRollover, SyncTruncateStart, SyncDeleted,
                SyncMetadata, Beginning, Write, TruncateStart, DeleteDeadSegments,
                WriteMetadata, Restart, SyncingCaller
        <3>2. surv'[active_id] = {disk[active_id]} /\ active_id \in SegIds
            <4>1. active_id \in SegIds
                BY <2>3, OpenFacts DEF Opened, FileInv
            <4> QED
                BY <3>1, <4>1, SyncedIs DEF CommitSync, SyncSegment, SetSegment, DiskTyped
        <3>3. Outcomes'[active_id] = {disk'[active_id]}
            BY <1>8, <3>2, OutcomesArePrimed
        <3>4. \A x \in SegIds : Outcomes'[x] = Outcomes[x]
            BY <1>8 DEF Outcomes
        <3> QED
            BY <1>1, <1>8, <2>1, <3>3, <3>4 DEF LiveSettled
    <2> QED
        BY <2>2, <2>3
<1> QED
    BY <1>2, <1>3, <1>4, <1>5, <1>6, <1>7, <1>8

-----------------------------------------------------------------------------
\* A prefix of a concatenation that holds all of its first part.
LEMMA PrefixOfConcat ==
    ASSUME NEW F \in Seq(FrameType), NEW G \in Seq(FrameType), NEW n \in 0..Len(G)
    PROVE  F \o SubSeq(G, 1, n) = SubSeq(F \o G, 1, Len(F) + n)
<1> DEFINE P == SubSeq(G, 1, n)
           H == F \o G
           Q == SubSeq(H, 1, Len(F) + n)
<1>1. Len(F) \in Nat /\ Len(G) \in Nat /\ n \in Nat /\ n <= Len(G)
    OBVIOUS
<1>2. H \in Seq(FrameType) /\ Len(H) = Len(F) + Len(G)
    OBVIOUS
<1>3. P \in Seq(FrameType) /\ Len(P) = n /\ \A i \in 1..n : P[i] = G[i]
    BY <1>1
<1>4. Q \in Seq(FrameType) /\ Len(Q) = Len(F) + n /\ \A i \in 1..(Len(F) + n) : Q[i] = H[i]
    BY <1>1, <1>2
<1>5. F \o P \in Seq(FrameType) /\ Len(F \o P) = Len(F) + n
    BY <1>1, <1>3
<1>6. ASSUME NEW i \in 1..(Len(F) + n)
      PROVE  (F \o P)[i] = Q[i]
    <2>1. Q[i] = H[i]
        BY <1>4
    <2>2. CASE i <= Len(F)
        BY <1>1, <1>3, <2>1, <2>2
    <2>3. CASE i > Len(F)
        <3>1. i - Len(F) \in 1..n
            BY <1>1, <2>3
        <3>2. (F \o P)[i] = P[i - Len(F)] /\ H[i] = G[i - Len(F)]
            BY <1>1, <1>3, <2>3, <3>1
        <3> QED
            BY <1>3, <2>1, <3>1, <3>2
    <2> QED
        BY <1>1, <2>2, <2>3
<1> QED
    BY <1>4, <1>5, <1>6, SeqEqual

\* What a commit in progress may lose.
LEMMA NextCommitSettled ==
    ASSUME SyncingCaller, StructureInv, FileInv, FileInv', LogInv, CrashNext
    PROVE  CommitSettled'
<1> USE DEF LogInv
<1> DiskTyped /\ DiskTyped'
    BY DEF FileInv
<1>1. CASE UNCHANGED vars
    BY <1>1 DEF CommitSettled, Outcomes, vars, diskVars, storeVars, cursorVars
<1>2. CASE AppendFrames
    <2> DEFINE F == disk[active_id].frames
               H == disk'[active_id].frames
    <2>1. /\ Opened /\ pc = "append" /\ active_id \in SegIds
          /\ buf \in Seq(FrameType) /\ buf # <<>> /\ Len(buf) \in Nat
          /\ \A y \in Ids(buf) : y \in Nat /\ y > last_entry_id /\ y >= state.first_entry
          /\ F \in Seq(FrameType)
          /\ disk'[active_id] = SegmentFile(F \o buf, FALSE)
          /\ \A g \in surv'[active_id] \cup {disk'[active_id]} :
                \/ g \in Outcomes[active_id]
                \/ /\ g.kind = "ok"
                   /\ \E n \in 0..Len(buf) : g.frames = F \o SubSeq(buf, 1, n)
        BY <1>2, AppendedFiles
    <2>2. active_id' = active_id /\ state' = state /\ last_entry_id' = Last(buf).id
        BY <1>2 DEF AppendFrames, AppendAfter
    <2>3. last_entry_id' >= state'.first_entry
        <3>1. Len(buf) \in DOMAIN buf
            BY <2>1, EmptySeq
        <3>2. Last(buf).id \in Ids(buf)
            BY <3>1 DEF Last, Ids
        <3> QED
            BY <2>1, <2>2, <3>2
    <2>4. H = F \o buf /\ Len(H) = Len(F) + Len(buf) /\ Len(F) \in Nat
        BY <2>1 DEF SegmentFile
    <2>5. ASSUME NEW n \in 0..Len(buf), Len(F) + n < Len(H)
          PROVE  H[Len(F) + n + 1].id >= state.first_entry
        <3> HIDE DEF F, H
        <3>1. n \in Nat /\ n + 1 \in 1..Len(buf) /\ DOMAIN buf = 1..Len(buf)
            BY <2>1, <2>4, <2>5
        <3>2. H[Len(F) + n + 1] = buf[n + 1]
            BY <2>1, <2>4, <3>1
        <3> QED
            BY <2>1, <3>1, <3>2 DEF Ids
    <2>6. ASSUME NEW g \in surv'[active_id] \cup {disk'[active_id]}
          PROVE  \E n \in 0..Len(H) :
                    g.frames = SubSeq(H, 1, n) /\ (n < Len(H) => H[n + 1].id >= state.first_entry)
        <3>1. \E k \in 0..Len(buf) : g.frames = F \o SubSeq(buf, 1, k)
            <4>1. CASE g \in Outcomes[active_id]
                <5>1. g = disk[active_id]
                    BY <2>1, <4>1 DEF CrashInv, ActiveDurable
                <5>2. SubSeq(buf, 1, 0) = <<>> /\ F \o <<>> = F /\ 0 \in 0..Len(buf)
                    BY <2>1
                <5> QED
                    BY <5>1, <5>2
            <4> QED
                BY <2>1, <4>1
        <3>2. PICK k \in 0..Len(buf) : g.frames = F \o SubSeq(buf, 1, k)
            BY <3>1
        <3>3. g.frames = SubSeq(H, 1, Len(F) + k)
            BY <2>1, <2>4, <3>2, PrefixOfConcat
        <3>4. Len(F) + k \in 0..Len(H)
            <4> HIDE DEF F, H
            <4> QED
                BY <2>1, <2>4
        <3>5. Len(F) + k < Len(H) => H[(Len(F) + k) + 1].id >= state.first_entry
            BY <2>1, <2>4, <2>5
        <3> QED
            BY <3>3, <3>4, <3>5
    <2>7. Outcomes'[active_id] = surv'[active_id] \cup {disk'[active_id]}
        BY <2>1, OutcomesArePrimed
    <2>8. H # <<>>
        <3> HIDE DEF F, H
        <3>1. Len(buf) \in DOMAIN buf /\ DOMAIN buf = 1..Len(buf)
            BY <2>1, EmptySeq
        <3> QED
            BY <2>1, <2>4, <3>1
    <2> QED
        BY <2>2, <2>3, <2>6, <2>7, <2>8 DEF CommitSettled
<1>3. CASE pc' # "commit"
    BY <1>3 DEF CommitSettled
<1> QED
    BY <1>1, <1>2, <1>3, Arrivals

\* No step writes the vote in passing.
LEMMA NextVoteSettled ==
    ASSUME VoteSettled, CrashNext
    PROVE  VoteSettled'
<1>1. CASE mbuf' = mbuf
    BY <1>1 DEF VoteSettled
<1>2. CASE mbuf'.type \notin {"TruncateStart", "Metadata"}
    BY <1>2 DEF VoteSettled
<1>3. CASE Loading
    BY <1>1, <1>3 DEF Loading, OpenClean, FixedUp, callVars
<1>4. CASE Recovering
    BY <1>1, <1>4 DEF Recovering, OpenWithIssues, Attempt
<1>5. CASE Fixing \/ SyncFixOp
    <2>1. CASE SyncFixOp
        BY <1>2, <2>1 DEF SyncFixOp, NoOp
    <2>2. CASE Fixing
        <3>1. PICK fix : \/ TruncateManifest(fix) \/ TruncateSegment(fix)
                         \/ AppendFixOp(fix) \/ CreateActiveSegment(fix)
            BY <2>2 DEF Fixing, FixUp
        <3>2. CASE AppendFixOp(fix)
            BY <1>2, <3>2 DEF AppendFixOp, RecordOrphanOp, SegmentDeletedOp
        <3> QED
            BY <1>1, <3>1, <3>2 DEF TruncateManifest, TruncateSegment, CreateActiveSegment
    <2> QED
        BY <1>5, <2>1, <2>2
<1>6. CASE CreateNew \/ WriteMagic \/ Flush \/ AppendFrames \/ CommitSync \/ UNCHANGED vars
    BY <1>1, <1>6 DEF CreateNew, WriteMagic, Flush, AppendFrames, AppendAfter, CommitSync,
        callVars, vars
<1>7. CASE RemoveFile
    BY <1>2, <1>7 DEF RemoveFile, SegmentDeletedOp
<1>8. CASE Syncing \/ PowerLoss \/ Restart
    BY <1>2, <1>8 DEF Syncing, SyncRollover, SyncTruncateStart, SyncDeleted, SyncMetadata,
        PowerLoss, Restart, ForgetMemory, NoOp
<1>9. CASE Write \/ DeleteDeadSegments
    <2>1. mbuf' = mbuf \/ \E first : mbuf' = RolloverOp(first)
        BY <1>9 DEF Write, DeleteDeadSegments
    <2> QED
        BY <1>1, <1>2, <2>1 DEF RolloverOp, RollSegmentOp
<1>10. CASE TruncateStart
    <2>1. PICK first : mbuf' = TruncateStartOp(first, Evicted(state, first),
                                               [k \in {SnapshotKey} |-> first])
        BY <1>10 DEF TruncateStart
    <2>2. mbuf'.type = "TruncateStart" /\ DOMAIN mbuf'.meta = {SnapshotKey}
        BY <2>1 DEF TruncateStartOp
    <2> QED
        BY <2>2 DEF VoteSettled, SnapshotKey, VoteKey
<1>11. CASE WriteMetadata
    <2>1. mbuf'.type = "Metadata" /\ DOMAIN mbuf'.meta = {VoteKey}
        BY <1>11 DEF WriteMetadata, MetadataOp
    <2> QED
        BY <2>1 DEF VoteSettled
<1> QED
    BY <1>3, <1>4, <1>5, <1>6, <1>7, <1>8, <1>9, <1>10, <1>11 DEF CrashNext, Beginning

\* LogInv holds at the start.
LEMMA InitLog ==
    ASSUME SyncingCaller, Init
    PROVE  LogInv
<1>1. CrashInv
    BY InitCrash
<1>2. msurv = {mdisk} /\ pc = "closed" /\ last_valid = NoEntry
    BY DEF Init
<1>3. ManifestSettled /\ CommitSettled /\ VoteSettled
    BY <1>2 DEF ManifestSettled, CommitSettled, VoteSettled, Init, NoOp
<1>4. \A m \in Manifests : Live(m.st) \subseteq SegIds
    BY InitStructure DEF Init, StructureInv, ManifestOk, Known, Manifests, Live, EmptyState
<1>5. \A id \in SegIds : Outcomes[id] = {disk[id]}
    BY DEF Init, Outcomes
<1> QED
    BY <1>1, <1>2, <1>3, <1>4, <1>5 DEF LogInv, LiveSettled

\* LogInv is kept by every step.
LEMMA NextLog ==
    ASSUME SyncingCaller
    PROVE  /\ StructureInv /\ FileInv /\ LogInv /\ [Next]_vars
           /\ StructureInv' /\ FileInv'
           => LogInv'
<1> SUFFICES ASSUME StructureInv, FileInv, LogInv, [Next]_vars, StructureInv', FileInv'
             PROVE  LogInv'
    OBVIOUS
<1>1. CrashInv'
    BY NextCrash DEF LogInv
<1>2. CrashNext
    BY CrashSteps DEF LogInv
<1>3. last_valid' = NoEntry
    BY <1>2, NextLastValid DEF LogInv
<1> QED
    BY <1>1, <1>2, <1>3, NextManifestSettled, NextLiveSettled, NextCommitSettled, NextVoteSettled
       DEF LogInv

-----------------------------------------------------------------------------
(***************************************************************************)
(* The mapping.                                                            *)
(***************************************************************************)
\* Where all frames are ok, the clean prefixes are the files.
LEMMA CleanLog ==
    ASSUME NEW st, NEW files \in [SegIds -> FileType], Live(st) \subseteq SegIds,
           \A id \in SegIds : \A i \in DOMAIN files[id].frames : files[id].frames[i].ok
    PROVE  {x \in UNION {CleanIds(files[id]) : id \in Live(st)} : x >= st.first_entry}
                = LogIds(st, files)
<1>1. ASSUME NEW id \in Live(st)
      PROVE  CleanIds(files[id]) = Ids(files[id].frames)
    <2> DEFINE F == files[id].frames
    <2>1. F \in Seq(FrameType) /\ \A i \in DOMAIN F : F[i].ok
        BY DEF FileType
    <2>2. CleanLen(F) = Len(F)
        BY <2>1 DEF CleanLen
    <2>3. SubSeq(F, 1, Len(F)) = F
        BY <2>1
    <2> QED
        BY <2>2, <2>3 DEF CleanIds
<1> QED
    BY <1>1 DEF LogIds

\* The entries of the abstract log are what the files hold.
LEMMA MappedEntries ==
    StructureInv /\ FileInv /\ LogInv =>
        /\ EntriesOnDisk = LogIds(CurrentState, disk)
        /\ EntriesOnDisk \subseteq 1..MaxId
        /\ Opened => CurrentState = state /\ EntriesOnDisk = log
        /\ ~Opened => CurrentState = mdisk.st
<1> SUFFICES ASSUME StructureInv, FileInv, LogInv
             PROVE  /\ EntriesOnDisk = LogIds(CurrentState, disk)
                    /\ EntriesOnDisk \subseteq 1..MaxId
                    /\ Opened => CurrentState = state /\ EntriesOnDisk = log
                    /\ ~Opened => CurrentState = mdisk.st
    OBVIOUS
<1> DiskTyped
    BY DEF FileInv
<1>1. /\ Opened => CurrentState = state
      /\ ~Opened => CurrentState = mdisk.st
    BY DEF CurrentState
<1>2. Live(CurrentState) \subseteq SegIds
    <2>1. mdisk \in Manifests
        BY DEF Manifests
    <2>2. Live(mdisk.st) \subseteq SegIds
        BY <2>1, ManifestFacts DEF LogInv, CrashInv
    <2> QED
        BY <1>1, <2>2, OpenFacts
<1>3. \A id \in SegIds : \A i \in DOMAIN disk[id].frames : disk[id].frames[i].ok
    BY OutcomesAre DEF LogInv, CrashInv, FramesDurable
<1>4. EntriesOnDisk = LogIds(CurrentState, disk)
    BY <1>2, <1>3, CleanLog DEF EntriesOnDisk, LogInv, DiskTyped
<1>5. Opened => EntriesOnDisk = log
    BY <1>1, <1>4 DEF LogInv, CrashInv, LogHeld
<1>6. ASSUME NEW x \in EntriesOnDisk
      PROVE  x \in 1..MaxId
    <2>1. PICK id \in Live(CurrentState) : x \in Ids(disk[id].frames)
        BY <1>4, InLog
    <2>2. PICK i \in DOMAIN disk[id].frames : x = disk[id].frames[i].id
        BY <2>1 DEF Ids
    <2>3. disk[id].frames \in Seq(FrameType) /\ disk[id].frames[i].ok
        BY <1>2, <1>3 DEF DiskTyped, FileType
    <2> QED
        BY <2>2, <2>3, BoundsAssumption DEF FrameType
<1> QED
    BY <1>1, <1>4, <1>5, <1>6

\* The same after the step.
LEMMA MappedEntriesNext ==
    (StructureInv /\ FileInv /\ LogInv =>
        /\ EntriesOnDisk = LogIds(CurrentState, disk)
        /\ EntriesOnDisk \subseteq 1..MaxId
        /\ Opened => CurrentState = state /\ EntriesOnDisk = log
        /\ ~Opened => CurrentState = mdisk.st)'
    BY MappedEntries, PTL

\* No call of the abstract log is pending.
Quiet == PendingCall = [call |-> "none", arg |-> 0]

\* Only truncate_start and write_metadata are calls that take effect later.
LEMMA PendingIs ==
    LogInv =>
        /\ ~Opened => Quiet
        /\ mbuf = NoOp => Quiet
        /\ mbuf.type \in {"RollSegment", "SegmentDeleted"} => Quiet
        /\ (Opened /\ mbuf.type = "TruncateStart") =>
                PendingCall = [call |-> "truncate_start", arg |-> mbuf.first_entry]
        /\ (Opened /\ mbuf.type = "Metadata") =>
                PendingCall = [call |-> "write_metadata", arg |-> mbuf.meta[VoteKey]]
    BY DEF LogInv, Quiet, PendingCall, NoOp

\* The same after the step.
LEMMA PendingNext ==
    (LogInv =>
        /\ ~Opened => Quiet
        /\ mbuf = NoOp => Quiet
        /\ mbuf.type \in {"RollSegment", "SegmentDeleted"} => Quiet
        /\ (Opened /\ mbuf.type = "TruncateStart") =>
                PendingCall = [call |-> "truncate_start", arg |-> mbuf.first_entry]
        /\ (Opened /\ mbuf.type = "Metadata") =>
                PendingCall = [call |-> "write_metadata", arg |-> mbuf.meta[VoteKey]])'
    BY PendingIs, PTL

\* The caller of an open store sees nothing of a step that leaves its log,
\* its head and its vote.
LEMMA Invisible ==
    ASSUME StructureInv, FileInv, LogInv, StructureInv', FileInv', LogInv',
           Opened, Opened', log' = log, acked' = acked,
           state'.first_entry = state.first_entry, Vote(state') = Vote(state),
           PendingCall' = PendingCall
    PROVE  UNCHANGED Log!vars
<1>1. EntriesOnDisk = log /\ CurrentState = state
    BY MappedEntries
<1>2. EntriesOnDisk' = log' /\ CurrentState' = state'
    BY MappedEntriesNext
<1> QED
    BY <1>1, <1>2 DEF Log!vars

\* Nor is there anything to see while the store is closed, as long as the
\* files hold the same entries.
LEMMA InvisibleClosed ==
    ASSUME StructureInv, FileInv, LogInv, StructureInv', FileInv', LogInv',
           ~Opened, ~Opened', acked' = acked,
           LogIds(mdisk'.st, disk') = LogIds(mdisk.st, disk),
           mdisk'.st.first_entry = mdisk.st.first_entry, Vote(mdisk'.st) = Vote(mdisk.st)
    PROVE  UNCHANGED Log!vars
<1>1. EntriesOnDisk = LogIds(mdisk.st, disk) /\ CurrentState = mdisk.st
    BY MappedEntries
<1>2. EntriesOnDisk' = LogIds(mdisk'.st, disk') /\ CurrentState' = mdisk'.st
    BY MappedEntriesNext
<1>3. PendingCall' = PendingCall
    BY PendingIs, PendingNext DEF Quiet
<1>4. Opened' = Opened
    BY DEF Opened
<1> QED
    BY <1>1, <1>2, <1>3, <1>4 DEF Log!vars

\* At the start the log is empty, and the store closed.
LEMMA InitMapped ==
    ASSUME SyncingCaller, Init
    PROVE  Log!Init
<1>1. LogInv /\ StructureInv /\ FileInv
    BY InitLog, InitStructure, InitFiles
<1>2. ~Opened
    BY DEF Init, Opened, NoOp
<1>3. Quiet
    BY <1>1, <1>2, PendingIs
<1>4. mdisk \in Manifests /\ mdisk.st = FormattedState
    BY DEF Init, Manifests, SyncingCaller, InitialManifest, ManifestFile
<1>5. EntriesOnDisk = {}
    <2>1. \A id \in SegIds : disk[id].frames = <<>>
        BY DEF Init, InitialSegment, SegmentFile, AbsentFile
    <2>2. Live(mdisk.st) \subseteq SegIds
        BY <1>1, <1>4, ManifestFacts DEF LogInv, CrashInv
    <2> QED
        BY <1>1, <1>2, <2>1, <2>2, MappedEntries DEF LogIds, Ids
<1>6. Vote(CurrentState) = 0 /\ CurrentState.first_entry = 0
    <2> DEFINE st == create_segment(EmptyState, CreateSegmentOp(1, 0))
    <2>1. st.meta = <<>> /\ st.first_entry = 0
        BY DEF create_segment, EmptyState, CreateSegmentOp
    <2>2. FormattedState = WithMeta(st, Override(st.meta, NoMeta))
        BY DEF FormattedState, Apply, ApplyStructure, CreateSegmentOp
    <2>3. FormattedState.first_entry = 0 /\ FormattedState.meta = Override(<<>>, <<>>)
        BY <2>1, <2>2 DEF WithMeta, NoMeta
    <2>4. DOMAIN FormattedState.meta = {}
        BY <2>3 DEF Override
    <2> QED
        BY <1>2, <1>4, <2>3, <2>4 DEF CurrentState, Vote
<1>7. Opened = FALSE
    BY <1>2 DEF Opened
<1> QED
    BY <1>3, <1>5, <1>6, <1>7 DEF Log!Init, Log!NoRequest, Quiet, Init

\* Loading the store is Open, whether or not fix-ups came before it.
LEMMA LoadingIsOpen ==
    ASSUME StructureInv, FileInv, LogInv, StructureInv', FileInv', LogInv', Loading
    PROVE  Log!Open
<1>1. /\ ~Opened /\ Opened' /\ acked' = acked
    BY LoadedFrom DEF Loading, OpenClean, FixedUp, Opened, FileInv, StructureInv, ControlOk, NoOpAt
<1>2. state' = mdisk.st /\ disk' = disk /\ mbuf' = NoOp
    BY LoadedFrom DEF Loading, Load, FileInv
<1>3. EntriesOnDisk' = EntriesOnDisk /\ CurrentState' = CurrentState
    BY <1>1, <1>2, MappedEntries, MappedEntriesNext
<1>4. PendingCall' = PendingCall
    BY <1>1, <1>2, PendingIs, PendingNext DEF Quiet
<1> QED
    BY <1>1, <1>3, <1>4 DEF Log!Open

-----------------------------------------------------------------------------
(***************************************************************************)
(* Steps of which the caller sees nothing.                                 *)
(***************************************************************************)
\* Recovery neither loses nor resurrects an entry.
LEMMA RecoveryInvisible ==
    ASSUME SyncingCaller, StructureInv, FileInv, LogInv, StructureInv', FileInv', LogInv',
           Recovering \/ Fixing \/ SyncFixOp
    PROVE  UNCHANGED Log!vars
<1>1. ~Opened /\ ~Opened'
    BY DEF Recovering, OpenWithIssues, Attempt, Fixing, FixUp, SyncFixOp, Goto, Opened
<1>2. CASE Recovering
    <2>1. UNCHANGED <<mdisk, disk, acked>>
        BY <1>2 DEF Recovering, OpenWithIssues, Attempt, diskVars
    <2> QED
        BY <1>1, <2>1, InvisibleClosed
<1>3. CASE SyncFixOp
    <2>1. UNCHANGED <<mdisk, disk, acked>>
        BY <1>3 DEF SyncFixOp, SyncManifest, segmentVars
    <2> QED
        BY <1>1, <2>1, InvisibleClosed
<1>4. CASE Fixing
    <2>1. PICK fix \in scan(mdisk, disk) :
            /\ TruncateManifest(fix) \/ TruncateSegment(fix) \/ AppendFixOp(fix)
            /\ msurv = {mdisk} /\ pc = "fix" /\ acked' = acked
        BY <1>4, FixSteps DEF LogInv
    <2>2. CASE TruncateManifest(fix)
        <3>1. mdisk'.st = mdisk.st /\ disk' = disk
            BY <2>2 DEF TruncateManifest, ManifestFile, segmentVars
        <3> QED
            BY <1>1, <2>1, <3>1, InvisibleClosed
    <2>3. CASE AppendFixOp(fix)
        <3>1. /\ AppendManifest(mbuf') /\ disk' = disk
              /\ mbuf'.type \in {"RecordOrphan", "SegmentDeleted"}
              /\ VoteKey \notin DOMAIN mbuf'.meta
            BY <2>3 DEF AppendFixOp, RecordOrphanOp, SegmentDeletedOp, segmentVars, NoMeta
        <3>2. mdisk'.st = Apply(mdisk.st, mbuf')
            BY <2>1, <3>1, AppendedManifests
        <3>3. /\ Live(mdisk'.st) = Live(mdisk.st)
              /\ mdisk'.st.first_entry = mdisk.st.first_entry
            BY <3>1, <3>2, ApplySame DEF Live
        <3>4. Vote(mdisk'.st) = Vote(mdisk.st)
            BY <3>1, <3>2, ApplyVote
        <3>5. LogIds(mdisk'.st, disk') = LogIds(mdisk.st, disk)
            BY <3>1, <3>3 DEF LogIds
        <3> QED
            BY <1>1, <2>1, <3>3, <3>4, <3>5, InvisibleClosed
    <2>4. CASE TruncateSegment(fix)
        <3>1. UNCHANGED mdisk
            BY <2>4 DEF TruncateSegment, manifestVars
        <3>2. \A id \in SegIds : disk'[id].frames = disk[id].frames
            <4>1. CrashNext
                BY <1>4 DEF CrashNext
            <4>2. ~PowerLoss /\ ~AppendFrames
                BY <1>4, <2>1 DEF Fixing, PowerLoss, ForgetMemory, Goto, AppendFrames, AppendAfter
            <4>3. \/ UNCHANGED <<disk, surv>>
                  \/ \E id \in SegIds :
                        /\ \A x \in SegIds : x # id => disk'[x] = disk[x]
                        /\ disk'[id] = SegmentFile(disk[id].frames, FALSE)
                BY <2>1, <4>1, <4>2, FilesChange
                    DEF CreateNew, WriteMagic, RemoveFile, CommitSync, LogInv
            <4>4. \A f : SegmentFile(f, FALSE).frames = f
                BY DEF SegmentFile
            <4> QED
                BY <4>3, <4>4
        <3>3. mdisk \in Manifests
            BY DEF Manifests
        <3>4. Live(mdisk.st) \subseteq SegIds
            BY <3>3, ManifestFacts DEF LogInv, CrashInv
        <3>5. LogIds(mdisk'.st, disk') = LogIds(mdisk.st, disk)
            BY <3>1, <3>2, <3>4 DEF LogIds
        <3> QED
            BY <1>1, <2>1, <3>1, <3>5, InvisibleClosed
    <2> QED
        BY <2>1, <2>2, <2>3, <2>4
<1> QED
    BY <1>2, <1>3, <1>4

\* Nor does the caller see the steps before an operation takes effect,
\* rollovers and the removal of dead segments.
LEMMA CallInvisible ==
    ASSUME SyncingCaller, StructureInv, FileInv, LogInv, StructureInv', FileInv', LogInv',
           \/ CreateNew \/ WriteMagic \/ Flush \/ RemoveFile
           \/ SyncRollover \/ SyncDeleted \/ Write \/ DeleteDeadSegments
    PROVE  UNCHANGED Log!vars
<1>1. CASE CreateNew \/ WriteMagic \/ Flush
    <2>1. pc \in {"create", "magic"} => mbuf.type = "RollSegment"
        BY DEF LogInv, CrashInv, ControlDurable
    <2>2. Opened /\ Opened' /\ mbuf' = mbuf
        <3>1. mbuf.type \notin {"CreateSegment", "None"}
            BY <1>1, <2>1 DEF CreateNew, WriteMagic, Flush, LogInv, CrashInv, ControlDurable,
                StructureInv, ControlOk, OpAt, OpValid
        <3>2. mbuf # NoOp
            BY <3>1 DEF NoOp
        <3> QED
            BY <1>1, <3>1, <3>2 DEF CreateNew, WriteMagic, Flush, callVars, Goto, Opened
    <2>3. UNCHANGED <<log, acked, state, last_valid>>
        BY <1>1 DEF CreateNew, WriteMagic, Flush, callVars, storeVars
    <2>4. PendingCall' = PendingCall
        BY <2>2, <2>3 DEF PendingCall
    <2> QED
        BY <2>2, <2>3, <2>4, Invisible
<1>2. CASE RemoveFile \/ Write \/ DeleteDeadSegments
    <2>1. mbuf = NoOp /\ Opened
        BY <1>2 DEF RemoveFile, Write, DeleteDeadSegments, StructureInv, ControlOk, NoOpAt, Opened
    <2>2. \/ mbuf' = NoOp /\ pc' \in {"append", "delete"}
          \/ mbuf'.type \in {"RollSegment", "SegmentDeleted"} /\ pc' \in {"create", "flush"}
        <3>1. CASE Write
            <4>1. \/ mbuf' = mbuf /\ pc' = "append"
                  \/ \E first : mbuf' = RolloverOp(first) /\ pc' = "create"
                BY <3>1 DEF Write, Goto
            <4> QED
                BY <2>1, <4>1 DEF RolloverOp, RollSegmentOp
        <3>2. CASE RemoveFile
            BY <3>2 DEF RemoveFile, SegmentDeletedOp, Goto
        <3>3. CASE DeleteDeadSegments
            BY <2>1, <3>3 DEF DeleteDeadSegments, Goto
        <3> QED
            BY <1>2, <3>1, <3>2, <3>3
    <2>3. Opened'
        BY <2>2 DEF Opened, NoOp
    <2>4. UNCHANGED <<log, acked, state>>
        BY <1>2 DEF RemoveFile, Write, DeleteDeadSegments, storeVars
    <2>5. PendingCall' = PendingCall
        BY <2>1, <2>2, PendingIs, PendingNext DEF Quiet
    <2> QED
        BY <2>1, <2>3, <2>4, <2>5, Invisible
<1>3. CASE SyncRollover \/ SyncDeleted
    <2>1. /\ mbuf.type \in {"RollSegment", "SegmentDeleted"} /\ pc = "sync" /\ mbuf' = NoOp
          /\ Opened /\ Opened' /\ state' = Apply(state, mbuf) /\ UNCHANGED <<log, acked>>
        BY <1>3 DEF SyncRollover, SyncDeleted, Goto, Opened
    <2>2. /\ OpValid(state, mbuf, next_seg_id, to_delete)
          /\ mbuf # NoOp
        BY <2>1 DEF StructureInv, ControlOk, NoOp, OpAt
    <2>3. VoteKey \notin DOMAIN mbuf.meta
        BY <2>1, <2>2 DEF OpValid, RollSegmentOp, SegmentDeletedOp, NoMeta
    <2>4. Vote(state') = Vote(state)
        BY <2>1, <2>3, ApplyVote
    <2>5. state'.first_entry = state.first_entry
        <3>1. CASE mbuf.type = "SegmentDeleted"
            BY <2>1, <3>1, ApplySame
        <3>2. CASE mbuf.type = "RollSegment"
            <4>1. WellFormed(state) /\ mbuf.sealed_id = state.active_segment_id
                BY <2>1, <2>2, <3>2, OpenFacts DEF OpValid, RollSegmentOp
            <4> QED
                BY <2>1, <3>2, <4>1, ApplyRollSegment
        <3> QED
            BY <2>1, <3>1, <3>2
    <2>6. PendingCall' = PendingCall
        BY <2>1, PendingIs, PendingNext DEF Quiet
    <2> QED
        BY <2>1, <2>4, <2>5, <2>6, Invisible
<1> QED
    BY <1>1, <1>2, <1>3

-----------------------------------------------------------------------------
(***************************************************************************)
(* The calls.                                                              *)
(***************************************************************************)
\* The entries of an open store, and the last of them.
LEMMA OpenLog ==
    ASSUME StructureInv, FileInv, LogInv, Opened
    PROVE  /\ log \subseteq 1..MaxId /\ acked \subseteq 1..MaxId
           /\ last_entry_id \in Nat /\ state.first_entry \in Nat
           /\ \A x \in log : x <= last_entry_id /\ x >= state.first_entry
<1>1. log \subseteq 1..MaxId /\ acked \subseteq 1..MaxId
    BY DEF FileInv, HistoryTyped
<1>2. last_entry_id \in Nat
    BY BoundsAssumption DEF FileInv, MemoryTyped
<1>3. WellFormed(state) /\ Live(state) \subseteq SegIds
    BY OpenFacts
<1>4. ASSUME NEW x \in log
      PROVE  x <= last_entry_id /\ x >= state.first_entry
    <2>1. x \in LogIds(state, disk)
        BY DEF LogInv, CrashInv, LogHeld
    <2>2. PICK id \in Live(state) : x \in Ids(disk[id].frames)
        BY <2>1, InLog
    <2>3. disk[id] \in Outcomes[id]
        BY <1>3, OutcomesAre DEF FileInv
    <2> QED
        BY <2>1, <2>2, <2>3, InLog DEF LogInv, CrashInv, LogHeld
<1> QED
    BY <1>1, <1>2, <1>3, <1>4 DEF WellFormed, StateShape

\* A batch is appended as a whole.
LEMMA AppendIsAppend ==
    ASSUME StructureInv, FileInv, LogInv, StructureInv', FileInv', LogInv', AppendFrames
    PROVE  Log!Append
<1>1. /\ Opened /\ mbuf = NoOp /\ pc' = "commit"
      /\ buf \in Seq(FrameType) /\ buf # <<>>
      /\ \A i \in DOMAIN buf : buf[i].ok
      /\ \A y \in Ids(buf) : y \in Nat /\ y > last_entry_id /\ y >= state.first_entry
    BY AppendedFiles DEF LogInv
<1>2. UNCHANGED <<mbuf, state, acked>> /\ log' = log \cup Ids(buf)
    BY DEF AppendFrames, AppendAfter
<1>3. Opened'
    BY <1>1 DEF Opened
<1>4. PendingCall = [call |-> "none", arg |-> 0] /\ PendingCall' = PendingCall
    BY <1>1, <1>2, PendingIs, PendingNext DEF Quiet
<1>5. /\ EntriesOnDisk = log /\ EntriesOnDisk' = log \cup Ids(buf)
      /\ CurrentState = state /\ CurrentState' = state
    BY <1>1, <1>2, <1>3, MappedEntries, MappedEntriesNext
<1>6. Ids(buf) # {}
    <2>1. Len(buf) \in DOMAIN buf
        BY <1>1, EmptySeq
    <2> QED
        BY <2>1 DEF Ids
<1>7. \A y \in Ids(buf) : y \in state.first_entry..MaxId
    <2>1. \A i \in DOMAIN buf : buf[i].id \in 0..MaxId
        BY <1>1 DEF FrameType
    <2> QED
        BY <1>1, <2>1, OpenLog, BoundsAssumption DEF Ids
<1>8. \A x \in log, y \in Ids(buf) : x < y
    BY <1>1, OpenLog, BoundsAssumption
<1> QED
    BY <1>1, <1>2, <1>3, <1>4, <1>5, <1>6, <1>7, <1>8 DEF Log!Append, Log!NoRequest

\* The maximum, as the abstract log defines it.
LEMMA LogMax ==
    ASSUME NEW S, S \subseteq Nat, NEW m \in S, \A y \in S : y <= m
    PROVE  Log!Max(S) = m
<1>1. \A y \in S : m >= y
    OBVIOUS
<1>2. \A k \in S : (\A y \in S : k >= y) => k = m
    OBVIOUS
<1>3. Log!Max(S) \in S /\ \A y \in S : Log!Max(S) >= y
    BY <1>1 DEF Log!Max
<1> QED
    BY <1>2, <1>3, Zenon

\* An entry that was acknowledged is in the log or before its head.
LEMMA AckedInLog ==
    ASSUME StructureInv, FileInv, LogInv, Opened, NEW x \in acked
    PROVE  x \in log \/ x < state.first_entry
<1>1. x \in Nat /\ state.first_entry \in Nat /\ Live(state) \subseteq SegIds
    BY OpenLog, OpenFacts, BoundsAssumption
<1>2. PICK m \in Manifests : m.st = state
    <2>1. CASE pc = "sync"
        BY <2>1 DEF LogInv, CrashInv, CallDurable
    <2>2. CASE pc # "sync"
        BY <2>2 DEF StructureInv, MemoryOk, Manifests
    <2> QED
        BY <2>1, <2>2
<1>3. EntriesHeld(state, Outcomes, acked)
    BY <1>2 DEF LogInv, CrashInv, StatesDurable, Durable
<1>4. ASSUME x >= state.first_entry
      PROVE  x \in log
    <2>1. PICK id \in Live(state) : \A f \in Outcomes[id] : x \in Ids(f.frames)
        BY <1>3, <1>4 DEF EntriesHeld
    <2>2. disk[id] \in Outcomes[id]
        BY <1>1, OutcomesAre DEF FileInv
    <2> QED
        BY <1>4, <2>1, <2>2, InLog DEF LogInv, CrashInv, LogHeld
<1> QED
    BY <1>1, <1>4

\* Commit::sync makes the promise for all entries of the log.
LEMMA CommitIsSync ==
    ASSUME StructureInv, FileInv, LogInv, StructureInv', FileInv', LogInv', CommitSync
    PROVE  Log!Sync
<1>1. /\ pc = "commit" /\ Opened /\ pc' = "idle" /\ Opened' /\ mbuf = NoOp
      /\ UNCHANGED <<mbuf, state, log>>
      /\ acked' = acked \cup (log \cap Ids(disk[active_id].frames))
    BY DEF CommitSync, Opened, Goto, callVars, storeVars, StructureInv, ControlOk, NoOpAt
<1>2. PendingCall = [call |-> "none", arg |-> 0] /\ PendingCall' = PendingCall
    BY <1>1, PendingIs, PendingNext DEF Quiet
<1>3. /\ EntriesOnDisk = log /\ EntriesOnDisk' = log
      /\ CurrentState = state /\ CurrentState' = state
    BY <1>1, MappedEntries, MappedEntriesNext
<1>4. last_entry_id \in log /\ last_entry_id \in Ids(disk[active_id].frames)
    <2>1. last_entry_id >= state.first_entry
        BY <1>1 DEF LogInv, CommitSettled
    <2>2. active_id \in SegIds /\ active_id \in Live(state)
        BY <1>1, OpenFacts
    <2>3. disk[active_id].frames \in Seq(FrameType) /\ Ascending(disk[active_id].frames)
        BY <2>2, OutcomesAre DEF FileInv, FileType, LogInv, CrashInv, FramesDurable
    <2>4. disk[active_id].frames # <<>>
        BY <1>1 DEF LogInv, CommitSettled
    <2>5. last_entry_id \in Ids(disk[active_id].frames)
        BY <1>1, <2>3, <2>4, AscendingLast DEF LogInv, CrashInv, ActiveDurable
    <2>6. last_entry_id \in LogIds(state, disk)
        BY <2>1, <2>2, <2>5, InLog
    <2> QED
        BY <1>1, <2>5, <2>6 DEF LogInv, CrashInv, LogHeld
<1>5. log \subseteq Nat /\ acked' \subseteq Nat /\ \A x \in log : x <= last_entry_id
    BY <1>1, OpenLog, BoundsAssumption
<1>6. \A x \in acked' : x <= last_entry_id
    <2>1. \A x \in acked : x \in log \/ x < state.first_entry
        BY <1>1, AckedInLog
    <2>2. state.first_entry \in Nat /\ last_entry_id \in Nat /\ last_entry_id >= state.first_entry
        BY <1>1, OpenLog DEF LogInv, CommitSettled
    <2> QED
        BY <1>1, <1>5, <2>1, <2>2
<1>7. last_entry_id \in acked'
    BY <1>1, <1>4
<1>8. Log!Max(log) = last_entry_id
    BY <1>4, <1>5, LogMax
<1>9. Max(acked') = last_entry_id
    <2>1. acked' \subseteq Int
        BY <1>5
    <2> QED
        BY <1>6, <1>7, <2>1, MaxIs
<1> QED
    BY <1>1, <1>2, <1>3, <1>4, <1>7, <1>8, <1>9 DEF Log!Sync, Log!NoRequest

\* truncate_start begins: nothing is promised yet.
LEMMA TruncateStartIsAsk ==
    ASSUME StructureInv, FileInv, LogInv, StructureInv', FileInv', LogInv', TruncateStart
    PROVE  Log!Ask
<1>1. PICK first \in state.first_entry..(MaxId + 1) :
        mbuf' = TruncateStartOp(first, Evicted(state, first), [k \in {SnapshotKey} |-> first])
    BY DEF TruncateStart
<1>2. mbuf'.type = "TruncateStart" /\ mbuf'.first_entry = first
    BY <1>1 DEF TruncateStartOp
<1>3. /\ pc = "idle" /\ Opened /\ mbuf = NoOp /\ pc' = "flush"
      /\ UNCHANGED <<state, log, acked>>
    BY DEF TruncateStart, Opened, Goto, storeVars, StructureInv, ControlOk, NoOpAt
<1>4. Opened'
    BY <1>2, <1>3 DEF Opened, NoOp
<1>5. /\ PendingCall = [call |-> "none", arg |-> 0]
      /\ PendingCall' = [call |-> "truncate_start", arg |-> first]
    BY <1>2, <1>3, <1>4, PendingIs, PendingNext DEF Quiet
<1>6. /\ EntriesOnDisk = log /\ EntriesOnDisk' = log
      /\ CurrentState = state /\ CurrentState' = state
    BY <1>3, <1>4, MappedEntries, MappedEntriesNext
<1> QED
    BY <1>3, <1>4, <1>5, <1>6 DEF Log!Ask, Log!NoRequest, Log!Request

\* write_metadata begins.
LEMMA WriteMetadataIsAsk ==
    ASSUME StructureInv, FileInv, LogInv, StructureInv', FileInv', LogInv', WriteMetadata
    PROVE  Log!Ask
<1>1. mbuf'.type = "Metadata" /\ mbuf'.meta[VoteKey] = Vote(state) + 1 /\ Vote(state) < MaxVote
    BY DEF WriteMetadata, MetadataOp
<1>2. /\ pc = "idle" /\ Opened /\ mbuf = NoOp /\ pc' = "flush"
      /\ UNCHANGED <<state, log, acked>>
    BY DEF WriteMetadata, Opened, Goto, storeVars, StructureInv, ControlOk, NoOpAt
<1>3. Opened'
    BY <1>1, <1>2 DEF Opened, NoOp
<1>4. /\ PendingCall = [call |-> "none", arg |-> 0]
      /\ PendingCall' = [call |-> "write_metadata", arg |-> Vote(state) + 1]
    BY <1>1, <1>2, <1>3, PendingIs, PendingNext DEF Quiet
<1>5. /\ EntriesOnDisk = log /\ EntriesOnDisk' = log
      /\ CurrentState = state /\ CurrentState' = state
    BY <1>2, <1>3, MappedEntries, MappedEntriesNext
<1> QED
    BY <1>1, <1>2, <1>3, <1>4, <1>5 DEF Log!Ask, Log!NoRequest, Log!Request

\* What the manifest operation in flight does to the head, the vote and the
\* entries is what the pending call is to do.
LEMMA AppliedState ==
    ASSUME StructureInv, FileInv, LogInv, pc = "sync"
    PROVE  LET st == Apply(state, mbuf)
           IN  /\ st.first_entry = Log!HeadAfter /\ Vote(st) = Log!VoteAfter
               /\ LogIds(st, disk) = {x \in log : x >= st.first_entry}
               /\ Log!LastAfter = MaxId
               /\ mbuf.type \in {"TruncateStart", "Metadata"} => PendingCall # Log!NoRequest
<1> DEFINE st == Apply(state, mbuf)
<1> USE DEF LogInv
<1>1. Opened
    BY DEF Opened
<1>2. OpValid(state, mbuf, next_seg_id, to_delete)
    BY <1>1 DEF StructureInv, ControlOk, OpAt
<1>3. mbuf.type \in {"RollSegment", "TruncateStart", "SegmentDeleted", "Metadata"}
    BY <1>2 DEF OpValid, CrashInv, ControlDurable
<1>4. log = LogIds(state, disk) /\ CurrentState = state
    BY <1>1, MappedEntries DEF CrashInv, LogHeld
<1>5. \A x \in log : x >= state.first_entry
    BY <1>4, InLog
<1>6. CASE mbuf.type = "TruncateStart"
    <2>1. PendingCall = [call |-> "truncate_start", arg |-> mbuf.first_entry]
        BY <1>1, <1>6, PendingIs
    <2>2. st.first_entry = mbuf.first_entry
        BY <1>6, ApplyTruncateStart
    <2>3. Vote(st) = Vote(state)
        BY <1>3, <1>6, ApplyVote DEF VoteSettled
    <2>4. LogIds(st, disk) = {x \in log : x >= mbuf.first_entry}
        BY <1>6, TruncatedIds
    <2>5. /\ Log!HeadAfter = mbuf.first_entry /\ Log!VoteAfter = Vote(state)
          /\ Log!LastAfter = MaxId /\ PendingCall # Log!NoRequest
        BY <1>4, <2>1 DEF Log!HeadAfter, Log!VoteAfter, Log!LastAfter, Log!NoRequest
    <2> QED
        BY <2>2, <2>3, <2>4, <2>5
<1>7. CASE mbuf.type = "Metadata"
    <2>1. PendingCall = [call |-> "write_metadata", arg |-> mbuf.meta[VoteKey]]
        BY <1>1, <1>7, PendingIs
    <2>2. st.first_entry = state.first_entry /\ Live(st) = Live(state)
        BY <1>7, ApplySame DEF Live
    <2>3. Vote(st) = mbuf.meta[VoteKey]
        BY <1>3, <1>7, ApplyVote DEF VoteSettled
    <2>4. LogIds(st, disk) = {x \in log : x >= st.first_entry}
        <3> HIDE DEF st
        <3> QED
            BY <1>4, <1>5, <2>2 DEF LogIds
    <2>5. /\ Log!HeadAfter = state.first_entry /\ Log!VoteAfter = mbuf.meta[VoteKey]
          /\ Log!LastAfter = MaxId /\ PendingCall # Log!NoRequest
        BY <1>4, <2>1 DEF Log!HeadAfter, Log!VoteAfter, Log!LastAfter, Log!NoRequest
    <2> QED
        BY <2>2, <2>3, <2>4, <2>5
<1>8. CASE mbuf.type \in {"RollSegment", "SegmentDeleted"}
    <2>1. PendingCall = [call |-> "none", arg |-> 0]
        BY <1>8, PendingIs DEF Quiet
    <2>2. VoteKey \notin DOMAIN mbuf.meta
        BY <1>2, <1>8 DEF OpValid, RollSegmentOp, SegmentDeletedOp, NoMeta
    <2>3. Vote(st) = Vote(state)
        BY <1>3, <2>2, ApplyVote
    <2>4. st.first_entry = state.first_entry /\ LogIds(st, disk) = {x \in log : x >= state.first_entry}
        <3>1. CASE mbuf.type = "SegmentDeleted"
            <4>1. st.first_entry = state.first_entry /\ Live(st) = Live(state)
                BY <3>1, ApplySame DEF Live
            <4> HIDE DEF st
            <4> QED
                BY <1>4, <1>5, <4>1 DEF LogIds
        <3>2. CASE mbuf.type = "RollSegment"
            <4>1. WellFormed(state) /\ mbuf.sealed_id = state.active_segment_id
                  /\ mbuf.new_id = next_seg_id
                BY <1>1, <1>2, <3>2, OpenFacts DEF OpValid, RollSegmentOp
            <4>2. st.first_entry = state.first_entry /\ Live(st) = Live(state) \cup {next_seg_id}
                BY <3>2, <4>1, ApplyRollSegment
            <4>3. Ids(disk[next_seg_id].frames) = {}
                BY <3>2 DEF FileInv, NewFileOk, Ids
            <4> HIDE DEF st
            <4> QED
                BY <1>4, <1>5, <4>2, <4>3 DEF LogIds
        <3> QED
            BY <1>8, <3>1, <3>2
    <2>5. /\ Log!HeadAfter = state.first_entry /\ Log!VoteAfter = Vote(state)
          /\ Log!LastAfter = MaxId
        BY <1>4, <2>1 DEF Log!HeadAfter, Log!VoteAfter, Log!LastAfter
    <2> QED
        BY <1>8, <2>3, <2>4, <2>5
<1> QED
    BY <1>3, <1>6, <1>7, <1>8

\* The sync_all of the manifest completes truncate_start and write_metadata.
LEMMA SyncIsDone ==
    ASSUME StructureInv, FileInv, LogInv, StructureInv', FileInv', LogInv',
           SyncTruncateStart \/ SyncMetadata
    PROVE  Log!Done
<1>1. /\ pc = "sync" /\ Opened /\ pc' = "idle" /\ Opened' /\ mbuf' = NoOp
      /\ mbuf.type \in {"TruncateStart", "Metadata"}
      /\ state' = Apply(state, mbuf) /\ acked' = acked
    BY DEF SyncTruncateStart, SyncMetadata, Opened, Goto
<1>2. /\ state'.first_entry = Log!HeadAfter /\ Vote(state') = Log!VoteAfter
      /\ Log!LastAfter = MaxId /\ PendingCall # Log!NoRequest
      /\ LogIds(state', disk) = {x \in log : x >= state'.first_entry}
    BY <1>1, AppliedState
<1>3. PendingCall' = Log!NoRequest
    BY <1>1, PendingNext DEF Quiet, Log!NoRequest
<1>4. /\ EntriesOnDisk = log /\ EntriesOnDisk' = LogIds(state', disk)
      /\ CurrentState' = state'
    <2>1. disk' = disk
        BY DEF SyncTruncateStart, SyncMetadata, segmentVars
    <2> QED
        BY <1>1, <2>1, MappedEntries, MappedEntriesNext
<1>5. \A x \in log : x <= MaxId
    BY <1>1, OpenLog, BoundsAssumption
<1>6. EntriesOnDisk' = Log!UpTo(Log!From(EntriesOnDisk, CurrentState'.first_entry), Log!LastAfter)
    BY <1>2, <1>4, <1>5 DEF Log!UpTo, Log!From
<1> QED
    BY <1>1, <1>2, <1>3, <1>4, <1>6 DEF Log!Done

-----------------------------------------------------------------------------
(***************************************************************************)
(* The failures.                                                           *)
(***************************************************************************)
\* The process ends between two calls: nothing is lost.
LEMMA RestartIsKill ==
    ASSUME SyncingCaller, StructureInv, FileInv, LogInv, StructureInv', FileInv', LogInv', Restart
    PROVE  Log!Kill
<1>1. /\ pc = "idle" /\ Opened /\ mbuf = NoOp /\ pc' = "closed"
      /\ UNCHANGED <<mdisk, disk, acked>>
    BY DEF Restart, ForgetMemory, Goto, Opened, diskVars, SyncingCaller, StructureInv,
        ControlOk, NoOpAt
<1>2. Opened' = FALSE
    BY <1>1 DEF Opened
<1>3. mdisk'.st = state
    BY <1>1 DEF StructureInv, MemoryOk
<1>4. /\ EntriesOnDisk = LogIds(state, disk) /\ EntriesOnDisk' = LogIds(state, disk)
      /\ CurrentState = state /\ CurrentState' = state
      /\ EntriesOnDisk \subseteq 1..MaxId
    BY <1>1, <1>2, <1>3, MappedEntries, MappedEntriesNext
<1>5. PendingCall' = Log!NoRequest
    BY <1>2, PendingNext DEF Quiet, Log!NoRequest
<1>6. EntriesOnDisk' = Log!UpTo(Log!From(EntriesOnDisk, CurrentState'.first_entry), MaxId)
    <2>1. \A x \in EntriesOnDisk : x >= state.first_entry /\ x <= MaxId
        BY <1>4, InLog, BoundsAssumption
    <2> QED
        BY <1>4, <2>1 DEF Log!UpTo, Log!From
<1> QED
    BY <1>1, <1>2, <1>4, <1>5, <1>6 DEF Log!Kill, Log!Settle

\* Whichever manifest a power loss leaves, the pending call has happened or
\* not, as a whole.
LEMMA CrashedState ==
    ASSUME StructureInv, FileInv, LogInv, NEW m \in Manifests
    PROVE  /\ m.st.first_entry \in {CurrentState.first_entry, Log!HeadAfter}
           /\ Vote(m.st) \in {Vote(CurrentState), Log!VoteAfter}
           /\ LogIds(m.st, disk) = {x \in EntriesOnDisk : x >= m.st.first_entry}
<1> USE DEF LogInv
<1>1. EntriesOnDisk = LogIds(CurrentState, disk)
    BY MappedEntries
<1>2. ASSUME Live(m.st) = Live(CurrentState), m.st.first_entry = CurrentState.first_entry
      PROVE  LogIds(m.st, disk) = {x \in EntriesOnDisk : x >= m.st.first_entry}
    BY <1>1, <1>2 DEF LogIds
<1>3. CASE m.st = CurrentState
    BY <1>2, <1>3
<1>4. CASE pc = "fixsync"
    <2>1. ~Opened
        BY <1>4 DEF Opened
    <2>2. CurrentState = mdisk.st
        BY <2>1, MappedEntries
    <2>3. Live(m.st) = Live(CurrentState) /\ m.st.first_entry = CurrentState.first_entry
          /\ Vote(m.st) = Vote(CurrentState)
        BY <1>4, <2>2 DEF ManifestSettled, Live
    <2> QED
        BY <1>2, <2>3
<1>5. CASE pc = "sync"
    <2>1. Opened
        BY <1>5 DEF Opened
    <2>2. CurrentState = state /\ EntriesOnDisk = log /\ mdisk.st = Apply(state, mbuf)
        BY <1>5, <2>1, MappedEntries DEF StructureInv, MemoryOk
    <2>3. m.st = CurrentState \/ m.st = Apply(state, mbuf)
        BY <1>5, <2>2 DEF ManifestSettled
    <2> QED
        BY <1>3, <1>5, <2>2, <2>3, AppliedState
<1>6. CASE pc \notin {"sync", "fixsync"}
    <2>1. m = mdisk
        BY <1>6 DEF CrashInv, ManifestsDurable, Manifests
    <2>2. CurrentState = mdisk.st
        BY <1>6, MappedEntries DEF StructureInv, MemoryOk
    <2> QED
        BY <1>3, <2>1, <2>2
<1> QED
    BY <1>4, <1>5, <1>6

\* The active segment is the last one: its entries come after all others.
LEMMA BeforeActive ==
    ASSUME StructureInv, FileInv, LogInv, Opened, pc # "sync",
           NEW id \in Live(state), id # active_id,
           NEW x \in Ids(disk[id].frames), NEW y \in Ids(disk[active_id].frames)
    PROVE  x < y
<1>1. /\ WellFormed(state) /\ Live(state) \subseteq SegIds
      /\ active_id = state.active_segment_id /\ active_id \in SegIds
    BY OpenFacts
<1>2. SegmentsAscend(state, Outcomes)
    <2>1. mdisk.st = state /\ mdisk \in Manifests
        BY DEF StructureInv, MemoryOk, Manifests
    <2> QED
        BY <2>1 DEF LogInv, CrashInv, StatesDurable, Durable
<1>3. PICK p \in DOMAIN state.segments : state.segments[p].id = id
    BY DEF Live
<1>4. PICK q \in DOMAIN state.segments :
        /\ state.segments[q].id = active_id
        /\ \A r \in DOMAIN state.segments : r <= q
    BY <1>1 DEF WellFormed, ActiveIsLast
<1>5. p < q
    <2>1. p \in Nat /\ q \in Nat /\ p # q /\ p <= q
        BY <1>1, <1>3, <1>4 DEF WellFormed, StateShape
    <2> QED
        BY <2>1
<1>6. disk[id] \in Outcomes[id] /\ disk[active_id] \in Outcomes[active_id]
    BY <1>1, OutcomesAre DEF FileInv
<1> QED
    BY <1>2, <1>3, <1>4, <1>5, <1>6 DEF SegmentsAscend

\* The ids of a prefix are those below the id of the next frame.
LEMMA PrefixIds ==
    ASSUME NEW F \in Seq(FrameType), Ascending(F), NEW n \in Nat, n < Len(F)
    PROVE  /\ \A i \in DOMAIN F : F[i].id \in Nat
           /\ F[n + 1].id \in Ids(F)
           /\ Ids(SubSeq(F, 1, n)) = {x \in Ids(F) : x < F[n + 1].id}
<1> DEFINE G == SubSeq(F, 1, n)
           y == F[n + 1].id
<1>1. Len(F) \in Nat /\ DOMAIN F = 1..Len(F) /\ n + 1 \in DOMAIN F
    OBVIOUS
<1>2. \A i \in DOMAIN F : F[i].id \in Nat
    BY BoundsAssumption DEF FrameType
<1>3. DOMAIN G = 1..n /\ \A i \in 1..n : G[i] = F[i]
    BY <1>1
<1>4. y \in Ids(F)
    BY <1>1 DEF Ids
<1>5. \A i \in DOMAIN F : F[i].id < y <=> i \in 1..n
    <2> TAKE i \in DOMAIN F
    <2>1. i \in Nat /\ i >= 1 /\ F[i].id \in Nat /\ y \in Nat
        BY <1>1, <1>2
    <2>2. CASE i < n + 1
        BY <1>1, <2>1, <2>2 DEF Ascending
    <2>3. CASE i = n + 1
        BY <2>1, <2>3
    <2>4. CASE i > n + 1
        <3>1. y < F[i].id
            BY <1>1, <2>4 DEF Ascending
        <3> QED
            BY <2>1, <2>4, <3>1
    <2> QED
        BY <2>1, <2>2, <2>3, <2>4
<1> HIDE DEF G, y
<1>6. Ids(G) = {x \in Ids(F) : x < y}
    <2>1. ASSUME NEW x \in Ids(G) PROVE x \in Ids(F) /\ x < y
        <3>1. PICK i \in 1..n : x = F[i].id
            BY <1>3 DEF Ids
        <3>2. i \in DOMAIN F
            BY <1>1
        <3> QED
            BY <1>5, <3>1, <3>2 DEF Ids
    <2>2. ASSUME NEW x \in Ids(F), x < y PROVE x \in Ids(G)
        <3>1. PICK i \in DOMAIN F : x = F[i].id
            BY DEF Ids
        <3> QED
            BY <1>3, <1>5, <2>2, <3>1 DEF Ids
    <2> QED
        BY <2>1, <2>2
<1> QED
    BY <1>2, <1>4, <1>6 DEF G, y

\* What was promised lies before `bound' if every acknowledged entry does.
LEMMA DurableBelow ==
    ASSUME NEW S, S \subseteq 1..MaxId, NEW bound \in Nat, \A x \in S : x <= bound
    PROVE  LET m == IF S = {} THEN 0 ELSE Max(S) IN m \in Nat /\ m <= bound
<1>1. CASE S = {}
    BY <1>1
<1>2. CASE S # {}
    <2> DEFINE T == {n \in Nat : \E x \in S : n = MaxId - x}
    <2>1. \A x \in S : x \in Nat /\ x <= MaxId /\ MaxId - x \in Nat
        BY BoundsAssumption
    <2>2. T \subseteq Nat /\ T # {}
        BY <1>2, <2>1
    <2>3. PICK n \in T : \A k \in T : n <= k
        BY <2>2, LeastNat
    <2>4. PICK m \in S : n = MaxId - m
        BY <2>3
    <2>5. \A y \in S : MaxId - m <= MaxId - y
        BY <2>1, <2>3, <2>4
    <2>6. \A y \in S : y <= m
        BY <2>1, <2>5, BoundsAssumption
    <2>7. Max(S) = m
        <3>1. S \subseteq Int
            BY <2>1
        <3> QED
            BY <2>4, <2>6, <3>1, MaxIs
    <2> QED
        BY <1>2, <2>1, <2>4, <2>7
<1> QED
    BY <1>1, <1>2

\* Of the files of the surviving manifest, a power loss cuts off at most the
\* end of the log, and nothing that was promised.
LEMMA CrashedFiles ==
    ASSUME StructureInv, FileInv, LogInv, PowerLoss, mdisk' \in Manifests,
           LogIds(mdisk'.st, disk) \subseteq 1..MaxId
    PROVE  \E last \in 0..MaxId :
            /\ \A x \in acked : x <= last
            /\ LogIds(mdisk'.st, disk') = {x \in LogIds(mdisk'.st, disk) : x <= last}
<1> DEFINE st == mdisk'.st
<1> USE DEF LogInv
<1>1. /\ Live(st) \subseteq SegIds /\ acked \subseteq 1..MaxId
    BY ManifestFacts DEF CrashInv, FileInv, HistoryTyped
<1>2. \A id \in SegIds : disk'[id] \in Outcomes[id] /\ disk[id] \in Outcomes[id]
    <2>1. \A id \in SegIds : disk'[id] \in surv[id]
        BY DEF PowerLoss
    <2> QED
        BY <2>1, OutcomesAre DEF FileInv
<1>3. \A id \in Live(st) : disk'[id] = disk[id] \/ (pc = "commit" /\ id = active_id)
    BY <1>1, <1>2 DEF LiveSettled
<1>4. ASSUME \A id \in Live(st) : disk'[id].frames = disk[id].frames
      PROVE  \E last \in 0..MaxId :
                /\ \A x \in acked : x <= last
                /\ LogIds(st, disk') = {x \in LogIds(st, disk) : x <= last}
    <2> HIDE DEF st
    <2>1. MaxId \in 0..MaxId /\ \A x \in acked : x <= MaxId
        BY <1>1, BoundsAssumption
    <2>2. LogIds(st, disk') = LogIds(st, disk)
        BY <1>4 DEF LogIds
    <2>3. \A x \in LogIds(st, disk) : x <= MaxId
        BY BoundsAssumption DEF st
    <2> QED
        BY <2>1, <2>2, <2>3
<1>5. CASE pc # "commit"
    BY <1>3, <1>4, <1>5
<1>6. CASE pc = "commit"
    <2> DEFINE F == disk[active_id].frames
    <2>1. Opened /\ st = state
        <3>1. Opened /\ mdisk.st = state /\ msurv = {mdisk}
            BY <1>6 DEF Opened, StructureInv, MemoryOk, CrashInv, ManifestsDurable
        <3> QED
            BY <3>1 DEF PowerLoss
    <2>2. active_id \in SegIds /\ active_id \in Live(state)
        BY <2>1, OpenFacts
    <2>3. F \in Seq(FrameType) /\ Ascending(F)
        BY <2>2, OutcomesAre DEF FileInv, FileType, CrashInv, FramesDurable
    <2>4. PICK n \in 0..Len(F) :
            /\ disk'[active_id].frames = SubSeq(F, 1, n)
            /\ n < Len(F) => F[n + 1].id >= state.first_entry
        BY <1>2, <1>6, <2>2 DEF CommitSettled
    <2>5. CASE n = Len(F)
        <3>1. disk'[active_id].frames = F
            BY <2>3, <2>4, <2>5
        <3> QED
            BY <1>3, <1>4, <3>1
    <2>6. CASE n < Len(F)
        <3> DEFINE y == F[n + 1].id
        <3>1. n \in Nat /\ n + 1 \in DOMAIN F
            BY <2>3, <2>6
        <3>2. /\ \A i \in DOMAIN F : F[i].id \in Nat
              /\ y \in Ids(F) /\ y \in Nat
              /\ Ids(disk'[active_id].frames) = {x \in Ids(F) : x < y}
            BY <2>3, <2>4, <2>6, <3>1, PrefixIds
        <3>3. y \in 1..MaxId
            <4>1. F[n + 1].ok /\ F[n + 1] \in FrameType
                BY <1>2, <2>2, <2>3, <3>1 DEF CrashInv, FramesDurable
            <4> QED
                BY <4>1, BoundsAssumption DEF FrameType
        <3> HIDE DEF F, y
        <3>4. \A id \in Live(state) : id # active_id => disk'[id] = disk[id]
            BY <1>3, <2>1
        <3>5. \A id \in Live(state) : id # active_id => \A x \in Ids(disk[id].frames) : x < y
            BY <1>6, <2>1, <3>2, BeforeActive DEF F
        <3>6. \A x : x \in LogIds(state, disk') <=> x \in LogIds(state, disk) /\ x < y
            <4> TAKE x
            <4>1. \A id \in Live(state) :
                    x \in Ids(disk'[id].frames) <=> x \in Ids(disk[id].frames) /\ x < y
                BY <3>2, <3>4, <3>5 DEF F
            <4> QED
                BY <4>1, InLog
        <3>7. ASSUME NEW x \in acked
              PROVE  x < y
            <4>1. x \in Nat /\ state.first_entry \in Nat
                BY <1>1, <2>1, OpenLog, BoundsAssumption
            <4>2. CASE x < state.first_entry
                BY <2>4, <2>6, <3>2, <4>1, <4>2 DEF y
            <4>3. CASE x >= state.first_entry
                <5>1. EntriesHeld(state, Outcomes, acked)
                    BY <2>1 DEF CrashInv, StatesDurable, Durable
                <5>2. PICK id \in Live(state) : \A f \in Outcomes[id] : x \in Ids(f.frames)
                    BY <4>3, <5>1 DEF EntriesHeld
                <5>3. x \in Ids(disk'[id].frames)
                    BY <1>1, <1>2, <2>1, <5>2
                <5> QED
                    BY <3>2, <3>4, <3>5, <5>3
            <4> QED
                BY <4>1, <4>2, <4>3
        <3>8. y - 1 \in 0..MaxId
            BY <3>3, BoundsAssumption
        <3>9. \A x \in acked : x <= y - 1
            BY <1>1, <3>3, <3>7, BoundsAssumption
        <3>10. LogIds(state, disk') = {x \in LogIds(state, disk) : x <= y - 1}
            <4>1. \A x \in LogIds(state, disk) : x < y <=> x <= y - 1
                BY <2>1, <3>3, BoundsAssumption
            <4>2. \A s, f : LogIds(s, f) = {x \in LogIds(s, f) : TRUE}
                BY DEF LogIds
            <4> QED
                BY <3>6, <4>1, <4>2
        <3> QED
            BY <2>1, <3>8, <3>9, <3>10
    <2>7. n < Len(F) \/ n = Len(F)
        BY <2>3, <2>4
    <2> QED
        BY <2>5, <2>6, <2>7
<1> QED
    BY <1>5, <1>6

\* A power loss settles the pending call one way or the other, and may take
\* entries from the end of the log that were never promised.
LEMMA CrashIsPowerLoss ==
    ASSUME StructureInv, FileInv, LogInv, StructureInv', FileInv', LogInv', PowerLoss
    PROVE  Log!PowerLoss
<1>1. mdisk' \in Manifests /\ pc' = "closed" /\ acked' = acked
    BY DEF PowerLoss, ForgetMemory, Goto, Manifests
<1>2. Opened' = FALSE
    BY <1>1 DEF Opened
<1>3. /\ CurrentState' = mdisk'.st /\ EntriesOnDisk' = LogIds(mdisk'.st, disk')
      /\ EntriesOnDisk \subseteq 1..MaxId
    BY <1>2, MappedEntries, MappedEntriesNext
<1>4. PendingCall' = Log!NoRequest
    BY <1>2, PendingNext DEF Quiet, Log!NoRequest
<1>5. /\ mdisk'.st.first_entry \in {CurrentState.first_entry, Log!HeadAfter}
      /\ Vote(mdisk'.st) \in {Vote(CurrentState), Log!VoteAfter}
      /\ LogIds(mdisk'.st, disk) = {x \in EntriesOnDisk : x >= mdisk'.st.first_entry}
    BY <1>1, CrashedState
<1>6. PICK last \in 0..MaxId :
        /\ \A x \in acked : x <= last
        /\ LogIds(mdisk'.st, disk') = {x \in LogIds(mdisk'.st, disk) : x <= last}
    BY <1>1, <1>3, <1>5, CrashedFiles
<1>7. last \in (IF acked = {} THEN 0 ELSE Max(acked))..MaxId
    <2> DEFINE promised == IF acked = {} THEN 0 ELSE Max(acked)
    <2>1. last \in Nat /\ last <= MaxId /\ acked \subseteq 1..MaxId
        BY BoundsAssumption DEF FileInv, HistoryTyped
    <2>2. promised \in Nat /\ promised <= last
        BY <1>6, <2>1, DurableBelow
    <2> HIDE DEF promised
    <2>3. last \in promised..MaxId
        BY <2>1, <2>2, BoundsAssumption
    <2> QED
        BY <2>3 DEF promised
<1>8. EntriesOnDisk' = Log!UpTo(Log!From(EntriesOnDisk, CurrentState'.first_entry), last)
    BY <1>3, <1>5, <1>6 DEF Log!UpTo, Log!From
<1> QED
    BY <1>1, <1>2, <1>3, <1>4, <1>5, <1>7, <1>8 DEF Log!PowerLoss, Log!Settle

-----------------------------------------------------------------------------
\* Every step of the store is a step of the log or none.
LEMMA StepIsLogStep ==
    ASSUME SyncingCaller
    PROVE  /\ StructureInv /\ FileInv /\ LogInv /\ [Next]_vars
           /\ StructureInv' /\ FileInv' /\ LogInv'
           => [Log!Next]_(Log!vars)
<1> SUFFICES ASSUME StructureInv, FileInv, LogInv, [Next]_vars, StructureInv', FileInv', LogInv'
             PROVE  Log!Next \/ UNCHANGED Log!vars
    OBVIOUS
<1>1. CrashNext
    BY CrashSteps DEF LogInv
<1>2. CASE UNCHANGED vars
    <2>1. UNCHANGED <<Opened, EntriesOnDisk, acked, CurrentState, PendingCall>>
        BY <1>2 DEF vars, diskVars, callVars, storeVars, Opened, EntriesOnDisk, CurrentState,
            PendingCall
    <2> QED
        BY <2>1 DEF Log!vars
<1>3. CASE Recovering \/ Fixing \/ SyncFixOp
    BY <1>3, RecoveryInvisible
<1>4. CASE \/ CreateNew \/ WriteMagic \/ Flush \/ RemoveFile
           \/ SyncRollover \/ SyncDeleted \/ Write \/ DeleteDeadSegments
    BY <1>4, CallInvisible
<1>5. Loading => Log!Open
    BY LoadingIsOpen
<1>6. AppendFrames => Log!Append
    BY AppendIsAppend
<1>7. CommitSync => Log!Sync
    BY CommitIsSync
<1>8. TruncateStart \/ WriteMetadata => Log!Ask
    BY TruncateStartIsAsk, WriteMetadataIsAsk
<1>9. SyncTruncateStart \/ SyncMetadata => Log!Done
    BY SyncIsDone
<1>10. Restart => Log!Kill
    BY RestartIsKill
<1>11. PowerLoss => Log!PowerLoss
    BY CrashIsPowerLoss
<1> QED
    BY <1>1, <1>2, <1>3, <1>4, <1>5, <1>6, <1>7, <1>8, <1>9, <1>10, <1>11
       DEF CrashNext, Syncing, Beginning, Log!Next

\* In every reachable state a power loss would leave the log up to a suffix of
\* the last batch: the manifests it may leave differ by the call in flight, and
\* the live files by the commit in flight.
THEOREM LogInvTheorem == ASSUME SyncingCaller PROVE Spec => []LogInv
<1>1. Init => LogInv
    BY InitLog
<1>2. /\ StructureInv /\ FileInv /\ LogInv /\ [Next]_vars /\ StructureInv' /\ FileInv'
      => LogInv'
    BY NextLog
<1> QED
    BY <1>1, <1>2, FileTheorem, PTL DEF Spec

\* The store of a caller that syncs its commits is the abstract log: through
\* rollovers, deletions of dead segments, power losses at any step and
\* recoveries, entries appear only by an append and go only by truncate_start
\* or, beyond the last sync, by a failure; head and vote change only by a call,
\* as a whole; opening and recovery change nothing.
THEOREM RefinementTheorem == ASSUME SyncingCaller PROVE Spec => ImplementsLog
<1>1. Init => Log!Init
    BY InitMapped
<1>2. /\ StructureInv /\ FileInv /\ LogInv /\ [Next]_vars
      /\ StructureInv' /\ FileInv' /\ LogInv'
      => [Log!Next]_(Log!vars)
    BY StepIsLogStep
<1> QED
    BY <1>1, <1>2, FileTheorem, LogInvTheorem, PTL DEF Spec, ImplementsLog, Log!Spec
=============================================================================
