---------------------------- MODULE StoreProofs -----------------------------
(***************************************************************************)
(* StructureInv is an invariant of the store, for every bound, every set   *)
(* of calls and every kind of failure, and with it the properties it was   *)
(* written for; and so is SnapshotInv.                                     *)
(***************************************************************************)
EXTENDS StoreInv, StoreStateProofs, WellFoundedInduction

\* A bounded set of numbers that is not empty has a largest one.
LEMMA LargestOf ==
    ASSUME NEW b \in Nat, NEW S, S \subseteq 0..b, S # {}
    PROVE  \E m \in S : \A y \in S : y <= m
<1> DEFINE T == {b - x : x \in S}
           R == {pair \in Nat \X Nat : pair[1] < pair[2]}
<1>1. T \subseteq Nat /\ T # {}
    <2>1. \A x \in S : b - x \in Nat
        OBVIOUS
    <2> QED
        BY <2>1
<1>2. IsWellFoundedOn(R, Nat)
    BY NatLessThanWellFounded, Zenon DEF OpToRel
<1>3. PICK t \in T : \A u \in T : ~(<<u, t>> \in R)
    <2> HIDE DEF T, R
    <2> QED
        BY <1>1, <1>2, WFMin
<1>4. \A u \in T : ~(u < t)
    BY <1>1, <1>3
<1>5. PICK m \in S : t = b - m
    OBVIOUS
<1>6. ASSUME NEW y \in S PROVE y <= m
    <2>1. b - y \in T
        OBVIOUS
    <2> HIDE DEF T
    <2>2. m \in Int /\ y \in Int /\ b \in Int
        OBVIOUS
    <2> QED
        BY <1>4, <1>5, <2>1, <2>2
<1> QED
    BY <1>6

\* A set of segment ids that is not empty has a largest one.
LEMMA LargestId ==
    ASSUME NEW S, S \subseteq SegIds, S # {}
    PROVE  \E m \in S : \A y \in S : y <= m
<1>1. MaxSeg \in Nat /\ S \subseteq 0..MaxSeg
    BY MaxSegAssumption DEF SegIds
<1> QED
    BY <1>1, LargestOf

-----------------------------------------------------------------------------
\* from_scan_report starts numbering beyond every segment of the manifest.
LEMMA NextSegIdFences ==
    ASSUME NEW st, WellFormed(st), Known(st) \subseteq SegIds
    PROVE  /\ ScannedNextSegId(st) \in Nat
           /\ \A id \in Known(st) : id < ScannedNextSegId(st)
<1>1. Known(st) # {}
    BY DEF WellFormed, ActiveIsLast, Known, Live
<1>2. PICK m \in Known(st) : \A y \in Known(st) : y <= m
    BY <1>1, LargestId
<1>3. Known(st) \subseteq Int /\ Known(st) \subseteq Nat
    BY MaxSegAssumption DEF SegIds
<1>4. Max(Known(st)) = m
    BY <1>2, <1>3, MaxIs
<1>5. ScannedNextSegId(st) = m + 1
    BY <1>4 DEF ScannedNextSegId, Known
<1> QED
    BY <1>2, <1>3, <1>5

\* What the structural part of an operation may do to a state.
Keeps(st, s, more) ==
    /\ WellFormed(s)
    /\ Known(s) \subseteq Known(st) \cup more

\* An operation that the store computed from its state is accepted by
\* apply(), leaves the state well formed, adds no segment but the one a
\* rollover creates, and keeps the dead segments still to be deleted.
LEMMA ValidOp ==
    ASSUME NEW st, WellFormed(st), Known(st) \subseteq SegIds,
           NEW next \in Nat, \A id \in Known(st) : id < next,
           NEW queue, queue \subseteq st.dead,
           NEW op, OpValid(st, op, next, queue)
    PROVE  /\ ApplyOk(st, op)
           /\ Keeps(st, Apply(st, op), IF op.type = "RollSegment" THEN {next} ELSE {})
           /\ queue \subseteq Apply(st, op).dead
           /\ Apply(st, op).active_segment_id =
                CASE op.type = "RollSegment" -> next
                  [] op.type = "TruncateEnd" -> op.new_active_id
                  [] OTHER -> st.active_segment_id
           /\ op.type = "RollSegment" => op.new_id = next /\ next \in SegIds
<1> DEFINE s == ApplyStructure(st, op)
           more == IF op.type = "RollSegment" THEN {next} ELSE {}
           active == CASE op.type = "RollSegment" -> next
                       [] op.type = "TruncateEnd" -> op.new_active_id
                       [] OTHER -> st.active_segment_id
<1>1. /\ ApplyOk(st, op)
      /\ Keeps(st, s, more)
      /\ queue \subseteq s.dead
      /\ s.active_segment_id = active
      /\ op.type = "RollSegment" => op.new_id = next /\ next \in SegIds
    <2>1. CASE /\ op.type = "RollSegment"
               /\ op = RollSegmentOp(st.active_segment_id, op.seal, next, op.new_first_entry)
               /\ next \in SegIds
        <3>1. s = roll_segment(st, op)
            BY <2>1 DEF ApplyStructure
        <3>2. op.sealed_id = st.active_segment_id /\ op.new_id = next
            BY <2>1 DEF RollSegmentOp
        <3>3. op.new_id \in Nat \ {0} /\ op.new_id \notin Live(st) /\ op.new_id \notin st.dead
            BY <2>1, <3>2, MaxSegAssumption DEF SegIds, Known
        <3> HIDE DEF s
        <3>4. /\ WellFormed(s) /\ Live(s) = Live(st) \cup {next}
              /\ s.dead = st.dead /\ s.active_segment_id = next
            BY <3>1, <3>2, <3>3, RollSegmentWF
        <3> QED
            BY <2>1, <3>2, <3>4 DEF ApplyOk, Keeps, Known
    <2>2. CASE /\ op.type = "TruncateStart"
               /\ op = TruncateStartOp(op.first_entry, op.drop, op.meta)
               /\ op.first_entry \in Nat /\ op.first_entry >= st.first_entry
               /\ op.drop \subseteq DOMAIN st.seals
        <3>1. s = truncate_start(st, op)
            BY <2>2 DEF ApplyStructure
        <3> HIDE DEF s
        <3>2. /\ WellFormed(s) /\ Live(s) = Live(st) \ op.drop
              /\ s.dead = st.dead \cup op.drop
              /\ s.active_segment_id = st.active_segment_id
            BY <2>2, <3>1, TruncateStartWF
        <3>3. op.drop \subseteq Live(st)
            BY <2>2 DEF WellFormed, SealedIsRest
        <3> QED
            BY <2>2, <3>2, <3>3 DEF ApplyOk, Keeps, Known
    <2>3. CASE /\ op.type = "TruncateEnd"
               /\ \E t \in DOMAIN st.segments :
                    op = TruncateEndOp(st.segments[t].id, LaterSegments(st, t))
        <3>1. PICK t \in DOMAIN st.segments :
                    op = TruncateEndOp(st.segments[t].id, LaterSegments(st, t))
            BY <2>3
        <3> DEFINE target == st.segments[t].id
                   drop == LaterSegments(st, t)
        <3>2. op.new_active_id = target /\ op.drop = drop
            BY <3>1 DEF TruncateEndOp
        <3>3. drop \subseteq Live(st)
            BY DEF LaterSegments, Live
        <3>4. \A p \in DOMAIN st.segments : st.segments[p].id \in drop <=> p > t
            BY DEF LaterSegments, WellFormed, IdsUnique
        <3>5. target \in Live(st)
            BY DEF Live
        <3>6. s = truncate_end(st, TruncateEndOp(target, drop))
            BY <2>3, <3>1 DEF ApplyStructure
        <3> HIDE DEF s, drop
        <3>7. /\ WellFormed(s) /\ Live(s) = Live(st) \ drop
              /\ s.dead = st.dead \cup drop /\ s.active_segment_id = target
            BY <3>3, <3>4, <3>6, TruncateEndWF
        <3> QED
            BY <2>3, <3>2, <3>3, <3>5, <3>7 DEF ApplyOk, Keeps, Known
    <2>4. CASE /\ op.type = "SegmentDeleted"
               /\ op = SegmentDeletedOp(op.id)
               /\ op.id \in st.dead \ queue
        <3>1. s = WithDead(st, st.dead \ {op.id})
            BY <2>4 DEF ApplyStructure, segment_deleted
        <3>2. /\ st.dead \ {op.id} \subseteq Nat \ {0}
              /\ (st.dead \ {op.id}) \cap Live(st) = {}
            BY DEF WellFormed, StateShape, DeadNotLive
        <3> HIDE DEF s
        <3>3. /\ WellFormed(s) /\ Live(s) = Live(st)
              /\ s.dead = st.dead \ {op.id}
              /\ s.active_segment_id = st.active_segment_id
            BY <3>1, <3>2, WithDeadWF
        <3> QED
            BY <2>4, <3>3 DEF ApplyOk, Keeps, Known
    <2>5. CASE op.type = "Metadata" /\ op = MetadataOp(op.meta)
        <3>1. s = st
            BY <2>5 DEF ApplyStructure
        <3> QED
            BY <2>5, <3>1 DEF ApplyOk, Keeps, Known
    <2> QED
        BY <2>1, <2>2, <2>3, <2>4, <2>5 DEF OpValid
<1>2. Apply(st, op) = WithMeta(s, Override(s.meta, op.meta))
    BY DEF Apply
<1> HIDE DEF s
<1>3. /\ WellFormed(Apply(st, op))
      /\ Live(Apply(st, op)) = Live(s)
      /\ Apply(st, op).dead = s.dead
      /\ Apply(st, op).active_segment_id = s.active_segment_id
    BY <1>1, <1>2, WithMetaWF DEF Keeps
<1> QED
    BY <1>1, <1>3 DEF Keeps, Known

-----------------------------------------------------------------------------
\* The operation of open_or_create, on the empty manifest.
LEMMA FirstOp ==
    /\ WellFormed(FormattedState)
    /\ Known(FormattedState) \subseteq SegIds
<1> DEFINE op == CreateSegmentOp(1, 0)
           s == create_segment(EmptyState, op)
<1>1. WellFormed(s) /\ Live(s) = {1} /\ s.dead = {}
    BY CreateSegmentWF
<1>2. ApplyStructure(EmptyState, op) = s
    BY DEF ApplyStructure, CreateSegmentOp
<1>3. FormattedState = WithMeta(s, Override(s.meta, op.meta))
    BY <1>2 DEF FormattedState, Apply
<1> HIDE DEF s, op
<1>4. /\ WellFormed(FormattedState) /\ Live(FormattedState) = Live(s)
      /\ FormattedState.dead = s.dead
    BY <1>1, <1>3, WithMetaWF
<1> QED
    BY <1>1, <1>4, MaxSegAssumption DEF Known, SegIds

\* The operations of a recovery: an orphan becomes dead, a dead segment
\* without a file is forgotten.
LEMMA FixOps ==
    ASSUME NEW st, WellFormed(st), NEW id
    PROVE  /\ id \in SegIds \ Live(st) =>
                LET s == Apply(st, RecordOrphanOp(id))
                IN  WellFormed(s) /\ Live(s) = Live(st) /\ s.dead = st.dead \cup {id}
           /\ id \in st.dead =>
                LET s == Apply(st, SegmentDeletedOp(id))
                IN  WellFormed(s) /\ Live(s) = Live(st) /\ s.dead = st.dead \ {id}
<1>0. st.dead \subseteq Nat \ {0} /\ st.dead \cap Live(st) = {}
    BY DEF WellFormed, StateShape, DeadNotLive
<1>1. ASSUME id \in SegIds \ Live(st)
      PROVE  LET s == Apply(st, RecordOrphanOp(id))
             IN  WellFormed(s) /\ Live(s) = Live(st) /\ s.dead = st.dead \cup {id}
    <2> DEFINE op == RecordOrphanOp(id)
               k == ApplyStructure(st, op)
               s == Apply(st, op)
    <2>1. k = WithDead(st, st.dead \cup {id})
        BY DEF ApplyStructure, RecordOrphanOp, record_orphan
    <2>2. /\ st.dead \cup {id} \subseteq Nat \ {0}
          /\ (st.dead \cup {id}) \cap Live(st) = {}
        BY <1>0, <1>1, MaxSegAssumption DEF SegIds
    <2>3. s = WithMeta(k, Override(k.meta, op.meta))
        BY DEF Apply
    <2> HIDE DEF s, k, op
    <2>4. WellFormed(k) /\ Live(k) = Live(st) /\ k.dead = st.dead \cup {id}
        BY <2>1, <2>2, WithDeadWF
    <2>5. WellFormed(s) /\ Live(s) = Live(k) /\ s.dead = k.dead
        BY <2>3, <2>4, WithMetaWF
    <2> QED
        BY <2>4, <2>5 DEF s, op
<1>2. ASSUME id \in st.dead
      PROVE  LET s == Apply(st, SegmentDeletedOp(id))
             IN  WellFormed(s) /\ Live(s) = Live(st) /\ s.dead = st.dead \ {id}
    <2> DEFINE op == SegmentDeletedOp(id)
               k == ApplyStructure(st, op)
               s == Apply(st, op)
    <2>1. k = WithDead(st, st.dead \ {id})
        BY DEF ApplyStructure, SegmentDeletedOp, segment_deleted
    <2>2. /\ st.dead \ {id} \subseteq Nat \ {0}
          /\ (st.dead \ {id}) \cap Live(st) = {}
        BY <1>0
    <2>3. s = WithMeta(k, Override(k.meta, op.meta))
        BY DEF Apply
    <2> HIDE DEF s, k, op
    <2>4. WellFormed(k) /\ Live(k) = Live(st) /\ k.dead = st.dead \ {id}
        BY <2>1, <2>2, WithDeadWF
    <2>5. WellFormed(s) /\ Live(s) = Live(k) /\ s.dead = k.dead
        BY <2>3, <2>4, WithMetaWF
    <2> QED
        BY <2>4, <2>5 DEF s, op
<1> QED
    BY <1>1, <1>2

-----------------------------------------------------------------------------
\* The scan looks at the segments of a manifest that replays to some; of any
\* other one it reports an issue of the manifest alone.
ManifestIssues == {"ManifestNotFound", "ManifestNotReadable", "ManifestChecksumCorrupt",
                   "ManifestEmpty", "ManifestTornTail"}
LEMMA ScanIs ==
    ASSUME NEW m, ManifestOk(m), NEW files
    PROVE  \/ /\ m.kind = "ok" /\ m.tail \in {"clean", "header"} /\ ~IsEmpty(m.st)
              /\ WellFormed(m.st) /\ Known(m.st) \subseteq SegIds
              /\ scan(m, files) =
                    ManifestTail(m)
                        \cup find_orphans(m.st, files)
                        \cup find_missing_dead(m.st, files)
                        \cup UNION {scan_segment(m.st, files, id) : id \in Live(m.st)}
           \/ /\ scan(m, files) # {}
              /\ \A i \in scan(m, files) : i.issue \in ManifestIssues
<1>1. IsEmpty(EmptyState)
    BY DEF IsEmpty, EmptyState
<1>2. \A i \in ManifestTail(m) : i.issue \in ManifestIssues
    BY DEF ManifestTail, Issue, ManifestIssues
<1>3. CASE m.kind = "ok" /\ m.tail \in {"clean", "header"} /\ ~IsEmpty(m.st)
    <2>1. WellFormed(m.st) /\ Known(m.st) \subseteq SegIds
        BY <1>1, <1>3 DEF ManifestOk
    <2> QED
        BY <1>3, <2>1 DEF scan
<1>4. CASE m.kind = "absent"
    <2>1. scan(m, files) = {Issue("ManifestNotFound", 0, 0)}
        BY <1>4 DEF scan
    <2> QED
        BY <2>1 DEF Issue, ManifestIssues
<1>5. CASE m.kind = "unreadable"
    <2>1. scan(m, files) = {Issue("ManifestNotReadable", 0, 0)}
        BY <1>5 DEF scan
    <2> QED
        BY <2>1 DEF Issue, ManifestIssues
<1>6. CASE m.kind = "ok" /\ m.tail = "zeros"
    <2>1. scan(m, files) = {Issue("ManifestChecksumCorrupt", 0, 0)}
        BY <1>6 DEF scan
    <2> QED
        BY <2>1 DEF Issue, ManifestIssues
<1>7. CASE m.kind = "ok" /\ m.tail = "payload"
    <2> DEFINE blocker == Issue("ManifestNotReadable", 0, 0)
    <2>1. scan(m, files) = ManifestTail(m) \cup {blocker}
        BY <1>7 DEF scan
    <2>2. blocker.issue \in ManifestIssues
        BY DEF Issue, ManifestIssues
    <2> HIDE DEF blocker
    <2> QED
        BY <1>2, <2>1, <2>2
<1>8. CASE m.kind = "ok" /\ m.tail \in {"clean", "header"} /\ IsEmpty(m.st)
    <2> DEFINE blocker == Issue("ManifestEmpty", 0, 0)
    <2>1. scan(m, files) = ManifestTail(m) \cup {blocker}
        BY <1>8 DEF scan
    <2>2. blocker.issue \in ManifestIssues
        BY DEF Issue, ManifestIssues
    <2> HIDE DEF blocker
    <2> QED
        BY <1>2, <2>1, <2>2
<1> QED
    BY <1>3, <1>4, <1>5, <1>6, <1>7, <1>8 DEF ManifestOk

\* A scan without issues is one of a manifest with a segment, and the issues
\* that lead to a manifest operation name what they say they name.
LEMMA ScanReport ==
    ASSUME NEW m, ManifestOk(m), NEW files
    PROVE  /\ scan(m, files) = {} => WellFormed(m.st)
           /\ \A i \in scan(m, files) :
                /\ i.issue = "OrphanSegmentFound" =>
                    WellFormed(m.st) /\ i.id \in SegIds \ Live(m.st)
                /\ i.issue = "DeadSegmentNotFound" =>
                    /\ WellFormed(m.st)
                    /\ i = Issue("DeadSegmentNotFound", i.id, 0)
                    /\ i.id \in m.st.dead
<1>1. \A i \in ManifestTail(m) : i.issue \in ManifestIssues
    BY DEF ManifestTail, Issue, ManifestIssues
<1>2. \A id : \A i \in scan_segment(m.st, files, id) :
        i.issue \notin {"OrphanSegmentFound", "DeadSegmentNotFound"}
    BY DEF scan_segment, Issue
<1>3. CASE /\ WellFormed(m.st)
           /\ scan(m, files) =
                ManifestTail(m)
                    \cup find_orphans(m.st, files)
                    \cup find_missing_dead(m.st, files)
                    \cup UNION {scan_segment(m.st, files, id) : id \in Live(m.st)}
    <2>1. \A i \in find_orphans(m.st, files) :
            /\ i.issue = "OrphanSegmentFound"
            /\ i.id \in SegIds \ Live(m.st)
        BY DEF find_orphans, Issue, OnDisk
    <2>2. \A i \in find_missing_dead(m.st, files) :
            /\ i = Issue("DeadSegmentNotFound", i.id, 0)
            /\ i.issue = "DeadSegmentNotFound"
            /\ i.id \in m.st.dead
        BY DEF find_missing_dead, Issue
    <2> QED
        BY <1>1, <1>2, <1>3, <2>1, <2>2 DEF ManifestIssues
<1>4. CASE scan(m, files) # {} /\ \A i \in scan(m, files) : i.issue \in ManifestIssues
    BY <1>4 DEF ManifestIssues
<1> QED
    BY <1>3, <1>4, ScanIs

-----------------------------------------------------------------------------
\* An empty directory, and a store that was created and synced.
LEMMA InitStructure == Init => StructureInv
<1> SUFFICES ASSUME Init PROVE StructureInv
    OBVIOUS
<1>1. ManifestOk(InitialManifest)
    BY FirstOp DEF InitialManifest, ManifestFile, AbsentManifest, ManifestOk
<1>2. ~Opened /\ pc = "closed" /\ mbuf = NoOp /\ to_delete = {} /\ fix_ups = {}
    BY DEF Init, Opened
<1>3. \A m \in Manifests : m = InitialManifest
    BY DEF Init, Manifests
<1> QED
    BY <1>1, <1>2, <1>3 DEF StructureInv, MemoryOk, ControlOk, FixUpsOk, NoOpAt, OpAt

\* A step after which every manifest a failure may leave was one before.
LEMMA ManifestsKept ==
    ASSUME \A m \in Manifests : ManifestOk(m), Manifests' \subseteq Manifests
    PROVE  (\A m \in Manifests : ManifestOk(m))'
    OBVIOUS

\* A step that appends an operation to the manifest.
LEMMA ManifestAppended ==
    ASSUME NEW op, \A m \in Manifests : ManifestOk(m), AppendManifest(op),
           WellFormed(Apply(mdisk.st, op)), Known(Apply(mdisk.st, op)) \subseteq SegIds
    PROVE  /\ (\A m \in Manifests : ManifestOk(m))'
           /\ mdisk'.st = Apply(mdisk.st, op)
<1> DEFINE st == Apply(mdisk.st, op)
           new == ManifestFile(st, "clean")
<1>1. ManifestOk(new) /\ new.st = st
    BY DEF ManifestFile, ManifestOk
<1>2. \A k \in TornKinds : ManifestOk(ManifestFile(mdisk.st, k))
    BY TornKindsAssumption DEF Manifests, ManifestFile, ManifestOk
<1>3. /\ mdisk' = new
      /\ msurv' = msurv \cup {new} \cup {ManifestFile(mdisk.st, k) : k \in TornKinds}
    BY DEF AppendManifest
<1> HIDE DEF new
<1>4. \A m \in msurv : ManifestOk(m)
    BY DEF Manifests
<1>5. \A m \in msurv' \cup {mdisk'} : ManifestOk(m)
    BY <1>1, <1>2, <1>3, <1>4
<1> QED
    BY <1>1, <1>3, <1>5 DEF Manifests

\* Steps that leave manifest, memory and operation as they are and move on
\* within the same call.
Within ==
    /\ UNCHANGED <<manifestVars, mbuf, to_delete, fix_ups, state, active_id, next_seg_id>>
    /\ \/ pc = "create" /\ pc' = "magic"
       \/ pc = "magic" /\ pc' = IF mbuf = NoOp THEN "fix" ELSE "flush"
       \/ pc = "append" /\ pc' = "commit"
       \/ pc = "commit" /\ pc' = "idle"
       \/ pc = "truncated" /\ pc' = "flush"
       \/ pc' = pc

\* Steps that change segment files only keep the invariant.
LEMMA WithinStructure ==
    ASSUME StructureInv, Within
    PROVE  StructureInv'
<1>1. Manifests' \subseteq Manifests
    BY DEF Within, Manifests, manifestVars
<1>2. (\A m \in Manifests : ManifestOk(m))'
    BY <1>1, ManifestsKept DEF StructureInv
<1>3. /\ Opened' <=> Opened
      /\ (pc' = "sync") <=> (pc = "sync")
    BY DEF Within, Opened, StructureInv, ControlOk, NoOpAt, OpAt
<1>4. MemoryOk'
    BY <1>3 DEF Within, StructureInv, MemoryOk, manifestVars
<1>5. ControlOk'
    BY <1>3 DEF Within, StructureInv, ControlOk, NoOpAt, OpAt, manifestVars
<1>6. FixUpsOk'
    BY DEF Within, StructureInv, FixUpsOk, ControlOk, NoOpAt, manifestVars
<1> QED
    BY <1>2, <1>4, <1>5, <1>6 DEF StructureInv

-----------------------------------------------------------------------------
\* The store is not open: nothing is owed to its memory.
LEMMA ClosedStructure ==
    ASSUME (\A m \in Manifests : ManifestOk(m))',
           pc' = "closed", mbuf' = NoOp, to_delete' = {}, fix_ups' = {}
    PROVE  StructureInv'
<1>1. ~Opened'
    BY DEF Opened
<1> QED
    BY <1>1 DEF StructureInv, MemoryOk, ControlOk, FixUpsOk, NoOpAt, OpAt

\* A power loss leaves a manifest that could be left, a kill the one of the
\* page cache; the memory is gone.
LEMMA FailureStructure ==
    ASSUME StructureInv, PowerLoss \/ Restart
    PROVE  StructureInv'
<1>1. Manifests' \subseteq Manifests
    BY DEF PowerLoss, Restart, Manifests, diskVars
<1>2. pc' = "closed" /\ mbuf' = NoOp /\ to_delete' = {} /\ fix_ups' = {}
    BY DEF PowerLoss, Restart, ForgetMemory, Goto
<1> QED
    BY <1>1, <1>2, ManifestsKept, ClosedStructure DEF StructureInv

\* open_or_create on an empty directory, step by step.
LEMMA CreateStructure ==
    ASSUME StructureInv, CreateManifest \/ WriteManifestMagic \/ FlushCreate
    PROVE  StructureInv'
<1>1. CASE CreateManifest
    <2>1. ManifestOk(UnreadableManifest)
        BY DEF UnreadableManifest, ManifestOk
    <2>2. Manifests' \subseteq Manifests \cup {UnreadableManifest}
        BY <1>1 DEF CreateManifest, Manifests
    <2>3. (\A m \in Manifests : ManifestOk(m))'
        BY <2>1, <2>2 DEF StructureInv
    <2>4. /\ pc' = "manifest_magic" /\ pc = "closed"
          /\ mbuf' = mbuf /\ to_delete' = to_delete /\ fix_ups' = fix_ups
        BY <1>1 DEF CreateManifest, callVars, Goto
    <2>5. ~Opened /\ ~Opened'
        BY <2>4 DEF Opened
    <2> QED
        BY <2>3, <2>4, <2>5 DEF StructureInv, MemoryOk, ControlOk, FixUpsOk, NoOpAt, OpAt
<1>2. CASE WriteManifestMagic
    <2>1. ManifestOk(ManifestFile(EmptyState, "clean"))
          /\ ManifestFile(EmptyState, "clean").st = EmptyState
        BY DEF ManifestFile, ManifestOk
    <2>2. mdisk' = ManifestFile(EmptyState, "clean") /\ msurv' = {mdisk'}
        BY <1>2 DEF WriteManifestMagic
    <2>3. (\A m \in Manifests : ManifestOk(m))' /\ mdisk'.st = EmptyState
        BY <2>1, <2>2 DEF Manifests
    <2>4. /\ pc = "manifest_magic" /\ pc' = "create"
          /\ mbuf' = CreateSegmentOp(1, 0) /\ to_delete' = to_delete /\ fix_ups' = fix_ups
        BY <1>2 DEF WriteManifestMagic, Goto
    <2>5. mbuf'.type = "CreateSegment"
        BY <2>4 DEF CreateSegmentOp
    <2>6. ~Opened /\ ~Opened'
        BY <2>4, <2>5 DEF Opened
    <2>7. fix_ups = {} /\ to_delete = {}
        BY <2>4, <2>6 DEF StructureInv, ControlOk, FixUpsOk
    <2> QED
        BY <2>3, <2>4, <2>5, <2>6, <2>7
            DEF StructureInv, MemoryOk, ControlOk, FixUpsOk, NoOpAt, OpAt
<1>3. CASE FlushCreate
    <2>1. /\ pc = "flush" /\ mbuf.type = "CreateSegment" /\ AppendManifest(mbuf)
          /\ pc' = "closed" /\ mbuf' = NoOp /\ to_delete' = to_delete /\ fix_ups' = fix_ups
        BY <1>3 DEF FlushCreate, Goto
    <2>2. ~Opened /\ to_delete = {} /\ fix_ups = {}
        BY <2>1 DEF Opened, StructureInv, ControlOk, FixUpsOk
    <2>3. mbuf = CreateSegmentOp(1, 0) /\ mdisk.st = EmptyState
        BY <2>1 DEF StructureInv, ControlOk, OpAt
    <2>4. Apply(mdisk.st, mbuf) = FormattedState
        BY <2>3 DEF FormattedState
    <2>5. (\A m \in Manifests : ManifestOk(m))'
        BY <2>1, <2>4, FirstOp, ManifestAppended DEF StructureInv
    <2> QED
        BY <2>1, <2>2, <2>5, ClosedStructure
<1> QED
    BY <1>1, <1>2, <1>3

-----------------------------------------------------------------------------
\* from_scan_report of a clean scan.
LEMMA LoadedStructure ==
    ASSUME StructureInv, Loaded, scan(mdisk, disk) = {}, UNCHANGED manifestVars,
           mbuf = NoOp, mbuf' = NoOp, to_delete' = {}, fix_ups' = {}
    PROVE  StructureInv'
<1>1. Manifests' = Manifests /\ mdisk' = mdisk /\ ManifestOk(mdisk)
    BY DEF manifestVars, Manifests, StructureInv
<1>2. WellFormed(mdisk.st)
    BY <1>1, ScanReport
<1>3. mdisk.st # EmptyState
    <2>1. DOMAIN EmptyState.segments = {}
        BY DEF EmptyState
    <2> QED
        BY <1>2, <2>1 DEF WellFormed, ActiveIsLast
<1>4. Known(mdisk.st) \subseteq SegIds
    BY <1>1, <1>3 DEF ManifestOk
<1>5. /\ pc' = "idle" /\ state' = mdisk.st
      /\ active_id' = mdisk.st.active_segment_id
      /\ next_seg_id' = ScannedNextSegId(mdisk.st)
    BY DEF Loaded, Load, Goto
<1>6. MemoryOk'
    BY <1>1, <1>2, <1>4, <1>5, NextSegIdFences DEF MemoryOk
<1>7. ControlOk' /\ FixUpsOk'
    BY <1>5 DEF ControlOk, FixUpsOk, NoOpAt, OpAt, Opened
<1> QED
    BY <1>1, <1>6, <1>7 DEF StructureInv

\* The planned fix-ups are the issues of the scan.
LEMMA AttemptStructure ==
    ASSUME StructureInv, NEW approve, Attempt(approve)
    PROVE  StructureInv'
<1>1. /\ pc = "closed" /\ mbuf' = mbuf /\ to_delete' = to_delete
      /\ UNCHANGED <<mdisk, msurv>>
    BY DEF Attempt, diskVars
<1>2. mbuf = NoOp /\ to_delete = {} /\ fix_ups = {}
    BY <1>1 DEF StructureInv, ControlOk, FixUpsOk, Opened, NoOpAt
<1>3. Manifests' = Manifests /\ ManifestOk(mdisk)
    BY <1>1 DEF Manifests, StructureInv
<1>4. CASE pc' = "fix" /\ fix_ups' = scan(mdisk, disk)
    <2>1. FixUpsOk'
        BY <1>1, <1>3, <1>4, ScanReport DEF FixUpsOk
    <2>2. ~Opened'
        BY <1>4 DEF Opened
    <2>3. MemoryOk' /\ ControlOk'
        BY <1>1, <1>2, <1>4, <2>2 DEF MemoryOk, ControlOk, NoOpAt, OpAt
    <2> QED
        BY <1>3, <2>1, <2>3 DEF StructureInv
<1>5. CASE pc' = "closed" /\ fix_ups' = fix_ups
    BY <1>1, <1>2, <1>3, <1>5, ClosedStructure DEF StructureInv
<1> QED
    BY <1>4, <1>5 DEF Attempt, NotOpened, Goto

\* Store::open and Store::recover: load, plan, refuse or finish a recovery.
LEMMA OpenStructure ==
    ASSUME StructureInv, OpenClean \/ OpenWithIssues \/ Recover \/ FixedUp
    PROVE  StructureInv'
<1>1. CASE OpenClean
    <2>1. /\ pc = "closed" /\ Loaded /\ scan(mdisk, disk) = {} /\ UNCHANGED manifestVars
          /\ mbuf' = mbuf /\ to_delete' = to_delete /\ fix_ups' = fix_ups
        BY <1>1 DEF OpenClean, diskVars, manifestVars, callVars
    <2>2. mbuf = NoOp /\ to_delete = {} /\ fix_ups = {}
        BY <2>1 DEF StructureInv, ControlOk, FixUpsOk, Opened, NoOpAt
    <2> QED
        BY <2>1, <2>2, LoadedStructure
<1>2. CASE OpenWithIssues \/ Recover
    BY <1>2, AttemptStructure DEF OpenWithIssues, Recover
<1>3. CASE FixedUp
    <2>1. /\ pc = "fix" /\ fix_ups = {} /\ UNCHANGED manifestVars
          /\ mbuf' = mbuf /\ to_delete' = to_delete /\ fix_ups' = fix_ups
          /\ (scan(mdisk, disk) = {} /\ Loaded) \/ pc' = "closed"
        BY <1>3 DEF FixedUp, diskVars, manifestVars, NotOpened, Goto
    <2>2. mbuf = NoOp /\ to_delete = {}
        BY <2>1 DEF StructureInv, ControlOk, Opened, NoOpAt
    <2>3. Manifests' = Manifests
        BY <2>1 DEF manifestVars, Manifests
    <2> QED
        BY <2>1, <2>2, <2>3, LoadedStructure, ClosedStructure DEF StructureInv
<1> QED
    BY <1>1, <1>2, <1>3

-----------------------------------------------------------------------------
\* A fix-up leaves the fix-ups after it applicable: an orphan that becomes
\* dead is not live, and a dead segment is forgotten only once.
LEMMA FixUpStructure ==
    ASSUME StructureInv, FixUp
    PROVE  StructureInv'
<1>1. PICK fix \in fix_ups :
        /\ \/ TruncateManifest(fix)
           \/ TruncateSegment(fix)
           \/ AppendFixOp(fix)
           \/ CreateActiveSegment(fix)
        /\ fix_ups' = IF pc' = "closed" THEN {} ELSE fix_ups \ {fix}
    BY DEF FixUp, NextFixUps
<1>2. pc = "fix" /\ to_delete' = to_delete
    BY DEF FixUp
<1>3. mbuf = NoOp /\ to_delete = {} /\ to_delete' = {}
    BY <1>2 DEF StructureInv, ControlOk, Opened, NoOpAt
<1>4. CASE TruncateManifest(fix)
    <2>1. /\ mdisk' = ManifestFile(mdisk.st, "clean") /\ msurv' = {mdisk'}
          /\ pc' = "fix" /\ mbuf' = mbuf
        BY <1>4 DEF TruncateManifest, Goto
    <2>2. ManifestOk(mdisk') /\ mdisk'.st = mdisk.st
        BY <2>1 DEF StructureInv, Manifests, ManifestFile, ManifestOk
    <2>3. (\A m \in Manifests : ManifestOk(m))'
        BY <2>1, <2>2 DEF Manifests
    <2>4. ~Opened'
        BY <2>1 DEF Opened
    <2> QED
        BY <1>1, <1>3, <2>1, <2>2, <2>3, <2>4
            DEF StructureInv, MemoryOk, ControlOk, FixUpsOk, NoOpAt, OpAt
<1>5. CASE TruncateSegment(fix) \/ CreateActiveSegment(fix)
    <2>1. /\ UNCHANGED <<mdisk, msurv>> /\ mbuf' = mbuf
          /\ pc' \in {"fix", "create", "closed"}
        BY <1>5 DEF TruncateSegment, CreateActiveSegment, Goto, manifestVars, diskVars
    <2>2. (\A m \in Manifests : ManifestOk(m))'
        BY <2>1 DEF StructureInv, Manifests
    <2>3. ~Opened'
        BY <1>3, <2>1 DEF Opened
    <2> QED
        BY <1>1, <1>3, <2>1, <2>2, <2>3
            DEF StructureInv, MemoryOk, ControlOk, FixUpsOk, NoOpAt, OpAt
<1>6. CASE AppendFixOp(fix)
    <2> DEFINE op == IF fix.issue = "OrphanSegmentFound"
                     THEN RecordOrphanOp(fix.id) ELSE SegmentDeletedOp(fix.id)
               s == Apply(mdisk.st, op)
    <2>1. /\ mbuf' = op /\ AppendManifest(op) /\ pc' = "fixsync"
          /\ fix.issue \in {"OrphanSegmentFound", "DeadSegmentNotFound"}
        BY <1>6 DEF AppendFixOp, Goto
    <2>2. /\ WellFormed(mdisk.st)
          /\ fix.issue = "OrphanSegmentFound" => fix.id \in SegIds \ Live(mdisk.st)
          /\ fix.issue = "DeadSegmentNotFound" => fix.id \in mdisk.st.dead
        BY <2>1 DEF StructureInv, FixUpsOk
    <2>3. mdisk.st # EmptyState
        <3>1. DOMAIN EmptyState.segments = {}
            BY DEF EmptyState
        <3> QED
            BY <2>2, <3>1 DEF WellFormed, ActiveIsLast
    <2>4. Known(mdisk.st) \subseteq SegIds
        BY <2>3 DEF StructureInv, Manifests, ManifestOk
    <2>5. /\ WellFormed(s) /\ Live(s) = Live(mdisk.st)
          /\ s.dead = IF fix.issue = "OrphanSegmentFound" THEN mdisk.st.dead \cup {fix.id}
                                                          ELSE mdisk.st.dead \ {fix.id}
        BY <2>1, <2>2, FixOps
    <2> HIDE DEF s, op
    <2>6. Known(s) \subseteq SegIds
        BY <2>1, <2>2, <2>4, <2>5 DEF Known
    <2>7. (\A m \in Manifests : ManifestOk(m))' /\ mdisk'.st = s
        BY <2>1, <2>5, <2>6, ManifestAppended DEF StructureInv, s
    <2>8. ~Opened'
        BY <2>1 DEF Opened
    <2>9. FixUpsOk'
        <3>1. fix_ups' = fix_ups \ {fix}
            BY <1>1, <2>1
        <3>2. ASSUME NEW other \in fix_ups', other.issue = "OrphanSegmentFound"
              PROVE  WellFormed(mdisk'.st) /\ other.id \in SegIds \ Live(mdisk'.st)
            BY <2>5, <2>7, <3>1, <3>2 DEF StructureInv, FixUpsOk
        <3>3. ASSUME NEW other \in fix_ups', other.issue = "DeadSegmentNotFound"
              PROVE  /\ WellFormed(mdisk'.st)
                     /\ other = Issue("DeadSegmentNotFound", other.id, 0)
                     /\ other.id \in mdisk'.st.dead
            <4>1. /\ other = Issue("DeadSegmentNotFound", other.id, 0)
                  /\ other.id \in mdisk.st.dead
                BY <3>1, <3>3 DEF StructureInv, FixUpsOk
            <4>2. fix.issue = "DeadSegmentNotFound" => other.id # fix.id
                <5>1. SUFFICES ASSUME fix.issue = "DeadSegmentNotFound" PROVE other.id # fix.id
                    OBVIOUS
                <5>2. fix = Issue("DeadSegmentNotFound", fix.id, 0)
                    BY <5>1 DEF StructureInv, FixUpsOk
                <5> QED
                    BY <3>1, <4>1, <5>2
            <4> QED
                BY <2>1, <2>5, <2>7, <4>1, <4>2
        <3> QED
            BY <2>1, <3>2, <3>3 DEF FixUpsOk
    <2> QED
        BY <1>3, <2>1, <2>7, <2>8, <2>9 DEF StructureInv, MemoryOk, ControlOk, NoOpAt, OpAt
<1> QED
    BY <1>1, <1>4, <1>5, <1>6

\* sync_all of append_manifest_op keeps the rest of the fix-ups applicable.
LEMMA SyncFixOpStructure ==
    ASSUME StructureInv, SyncFixOp
    PROVE  StructureInv'
<1>1. /\ pc = "fixsync" /\ pc' = "fix" /\ mbuf' = NoOp
      /\ mdisk' = mdisk /\ msurv' = {mdisk}
      /\ to_delete' = to_delete /\ fix_ups' = fix_ups
    BY DEF SyncFixOp, SyncManifest, Goto
<1>2. (\A m \in Manifests : ManifestOk(m))'
    BY <1>1 DEF Manifests, StructureInv
<1>3. ~Opened /\ ~Opened'
    BY <1>1 DEF Opened
<1> QED
    BY <1>1, <1>2, <1>3 DEF StructureInv, MemoryOk, ControlOk, FixUpsOk, NoOpAt, OpAt

-----------------------------------------------------------------------------
\* A call of the open store computes its operation, and so far no more.
LEMMA BeginStructure ==
    ASSUME StructureInv, Opened, pc \in {"idle", "delete"},
           UNCHANGED <<mdisk, msurv, state, active_id, next_seg_id, fix_ups>>,
           to_delete' \subseteq state.dead,
           \/ pc' \in {"append", "delete"} /\ mbuf' = NoOp
           \/ /\ pc' \in {"create", "flush", "truncated"}
              /\ mbuf' # NoOp /\ mbuf'.type # "CreateSegment"
              /\ pc' = "truncated" => mbuf'.type = "TruncateEnd"
              /\ OpValid(state, mbuf', next_seg_id, to_delete')
    PROVE  StructureInv'
<1>1. (\A m \in Manifests : ManifestOk(m))'
    BY DEF Manifests, StructureInv
<1>2. Opened' /\ pc' # "sync"
    BY DEF Opened
<1>3. fix_ups = {}
    BY DEF StructureInv, FixUpsOk
<1>4. MemoryOk'
    BY <1>2 DEF StructureInv, MemoryOk
<1>5. ControlOk'
    BY <1>2 DEF ControlOk, NoOpAt, OpAt
<1> QED
    BY <1>1, <1>3, <1>4, <1>5 DEF StructureInv, FixUpsOk

\* Every call of the open store begins with an operation that is valid for its
\* state.
LEMMA CallStructure ==
    ASSUME StructureInv,
           Write \/ TruncateStart \/ TruncateEnd \/ DeleteDeadSegments
             \/ RemoveFile \/ WriteMetadata
    PROVE  StructureInv'
<1>1. /\ pc \in {"idle", "delete"}
      /\ UNCHANGED <<mdisk, msurv, state, active_id, next_seg_id, fix_ups>>
    BY DEF Write, TruncateStart, TruncateEnd, DeleteDeadSegments, RemoveFile, WriteMetadata,
           diskVars, manifestVars, storeVars, cursorVars
<1>2. Opened /\ mbuf = NoOp /\ NoOp.type = "None"
    BY <1>1 DEF Opened, StructureInv, ControlOk, NoOpAt, NoOp
<1>3. /\ WellFormed(state) /\ active_id = state.active_segment_id
      /\ to_delete \subseteq state.dead
    BY <1>2 DEF StructureInv, MemoryOk
<1>4. CASE Write
    <2>1. /\ to_delete' = to_delete
          /\ \/ pc' = "append" /\ mbuf' = mbuf
             \/ /\ pc' = "create" /\ next_seg_id \in SegIds
                /\ \E first : mbuf' = RolloverOp(first)
        BY <1>4 DEF Write, Goto
    <2>2. ASSUME NEW first, mbuf' = RolloverOp(first), next_seg_id \in SegIds
          PROVE  mbuf'.type = "RollSegment" /\ OpValid(state, mbuf', next_seg_id, to_delete')
        <3> DEFINE seal == [ first_entry |-> active_first_entry,
                             last_entry  |-> IF last_entry_id = NoEntry THEN active_first_entry
                                                                        ELSE last_entry_id,
                             entry_count |-> active_entry_count,
                             final_size  |-> position ]
        <3>1. mbuf' = RollSegmentOp(state.active_segment_id, seal, next_seg_id, first)
            BY <1>3, <2>2 DEF RolloverOp
        <3> HIDE DEF seal
        <3>2. /\ mbuf'.type = "RollSegment" /\ mbuf'.seal = seal
              /\ mbuf'.new_first_entry = first
            BY <3>1 DEF RollSegmentOp
        <3> QED
            BY <2>2, <3>1, <3>2 DEF OpValid
    <2> QED
        BY <1>1, <1>2, <1>3, <2>1, <2>2, BeginStructure
<1>5. CASE TruncateStart
    <2>1. PICK first \in state.first_entry..(MaxId + 1) :
            mbuf' = TruncateStartOp(first, Evicted(state, first),
                                    [k \in {SnapshotKey} |-> first])
        BY <1>5 DEF TruncateStart
    <2> DEFINE drop == Evicted(state, first)
               meta == [k \in {SnapshotKey} |-> first]
    <2>2. first \in Nat /\ first >= state.first_entry
        BY <1>3, BoundsAssumption DEF WellFormed, StateShape
    <2>3. drop \subseteq DOMAIN state.seals
        BY DEF Evicted
    <2>4. mbuf' = TruncateStartOp(first, drop, meta)
        BY <2>1
    <2> HIDE DEF drop, meta
    <2>5. /\ mbuf'.type = "TruncateStart" /\ mbuf'.first_entry = first
          /\ mbuf'.drop = drop /\ mbuf'.meta = meta
        BY <2>4 DEF TruncateStartOp
    <2>6. OpValid(state, mbuf', next_seg_id, to_delete')
        BY <2>2, <2>3, <2>4, <2>5 DEF OpValid
    <2>7. pc' = "flush" /\ to_delete' = to_delete
        BY <1>5 DEF TruncateStart, Goto
    <2> QED
        BY <1>1, <1>2, <1>3, <2>5, <2>6, <2>7, BeginStructure
<1>6. CASE TruncateEnd
    <2>1. PICK t \in DOMAIN state.segments :
            mbuf' = TruncateEndOp(state.segments[t].id, LaterSegments(state, t))
        BY <1>6 DEF TruncateEnd
    <2>2. mbuf'.type = "TruncateEnd"
        BY <2>1 DEF TruncateEndOp
    <2>3. OpValid(state, mbuf', next_seg_id, to_delete')
        BY <2>1, <2>2 DEF OpValid
    <2>4. pc' = "truncated" /\ to_delete' = to_delete
        BY <1>6 DEF TruncateEnd, Goto
    <2> QED
        BY <1>1, <1>2, <1>3, <2>2, <2>3, <2>4, BeginStructure
<1>7. CASE DeleteDeadSegments
    <2>1. pc' = "delete" /\ to_delete' = state.dead /\ mbuf' = mbuf
        BY <1>7 DEF DeleteDeadSegments, Goto
    <2> QED
        BY <1>1, <1>2, <2>1, BeginStructure
<1>8. CASE RemoveFile
    <2>1. PICK id \in to_delete :
            mbuf' = SegmentDeletedOp(id) /\ to_delete' = to_delete \ {id}
        BY <1>8 DEF RemoveFile
    <2>2. mbuf'.type = "SegmentDeleted" /\ mbuf'.id = id
        BY <2>1 DEF SegmentDeletedOp
    <2>3. OpValid(state, mbuf', next_seg_id, to_delete')
        BY <1>3, <2>1, <2>2 DEF OpValid
    <2>4. pc' = "flush"
        BY <1>8 DEF RemoveFile, Goto
    <2> QED
        BY <1>1, <1>2, <1>3, <2>1, <2>2, <2>3, <2>4, BeginStructure
<1>9. CASE WriteMetadata
    <2>1. mbuf' = MetadataOp([k \in {VoteKey} |-> Vote(state) + 1])
        BY <1>9 DEF WriteMetadata
    <2> DEFINE meta == [k \in {VoteKey} |-> Vote(state) + 1]
    <2> HIDE DEF meta
    <2>2. mbuf' = MetadataOp(meta) /\ mbuf'.type = "Metadata" /\ mbuf'.meta = meta
        BY <2>1 DEF MetadataOp, meta
    <2>3. OpValid(state, mbuf', next_seg_id, to_delete')
        BY <2>2 DEF OpValid
    <2>4. pc' = "flush" /\ to_delete' = to_delete
        BY <1>9 DEF WriteMetadata, Goto
    <2> QED
        BY <1>1, <1>2, <1>3, <2>2, <2>3, <2>4, BeginStructure
<1> QED
    BY <1>4, <1>5, <1>6, <1>7, <1>8, <1>9

-----------------------------------------------------------------------------
\* The manifest step of an open store: the operation in flight is valid.
LEMMA InFlight ==
    ASSUME StructureInv, Opened, pc \in {"flush", "sync"}
    PROVE  LET s == Apply(state, mbuf)
           IN  /\ ApplyOk(state, mbuf)
               /\ WellFormed(s)
               /\ Known(s) \subseteq SegIds
               /\ Known(s) \subseteq Known(state) \cup
                    (IF mbuf.type = "RollSegment" THEN {next_seg_id} ELSE {})
               /\ to_delete \subseteq s.dead
               /\ s.active_segment_id =
                    CASE mbuf.type = "RollSegment" -> next_seg_id
                      [] mbuf.type = "TruncateEnd" -> mbuf.new_active_id
                      [] OTHER -> state.active_segment_id
               /\ mbuf.type = "RollSegment" => mbuf.new_id = next_seg_id
<1>1. OpValid(state, mbuf, next_seg_id, to_delete)
    BY DEF StructureInv, ControlOk, Opened, OpAt
<1>2. /\ WellFormed(state) /\ Known(state) \subseteq SegIds
      /\ next_seg_id \in Nat /\ \A id \in Known(state) : id < next_seg_id
      /\ to_delete \subseteq state.dead
    BY DEF StructureInv, MemoryOk
<1> QED
    BY <1>1, <1>2, ValidOp DEF Keeps

\* The operation reaches the manifest, and not yet the memory.
LEMMA FlushStructure ==
    ASSUME StructureInv, Flush
    PROVE  StructureInv'
<1>1. /\ pc = "flush" /\ mbuf.type # "CreateSegment" /\ AppendManifest(mbuf) /\ pc' = "sync"
      /\ UNCHANGED <<mbuf, to_delete, fix_ups, state, active_id, next_seg_id>>
    BY DEF Flush, Goto, callVars, storeVars, cursorVars
<1>2. mbuf # NoOp /\ Opened /\ Opened'
    BY <1>1 DEF Opened, StructureInv, ControlOk, OpAt
<1>3. mdisk.st = state
    BY <1>1, <1>2 DEF StructureInv, MemoryOk
<1>4. (\A m \in Manifests : ManifestOk(m))' /\ mdisk'.st = Apply(state, mbuf)
    BY <1>1, <1>2, <1>3, InFlight, ManifestAppended DEF StructureInv
<1>5. MemoryOk'
    BY <1>1, <1>2, <1>4 DEF StructureInv, MemoryOk
<1>6. ControlOk'
    BY <1>1, <1>2 DEF StructureInv, ControlOk, NoOpAt, OpAt
<1>7. FixUpsOk'
    BY <1>1, <1>2 DEF StructureInv, FixUpsOk
<1> QED
    BY <1>4, <1>5, <1>6, <1>7 DEF StructureInv

\* After sync_all the memory applies the operation and agrees again.
LEMMA SyncStructure ==
    ASSUME StructureInv,
           SyncRollover \/ SyncTruncateStart \/ SyncTruncateEnd \/ SyncDeleted \/ SyncMetadata
    PROVE  StructureInv'
<1>1. /\ pc = "sync" /\ pc' \in {"append", "idle", "delete"}
      /\ mdisk' = mdisk /\ msurv' = {mdisk}
      /\ state' = Apply(state, mbuf) /\ mbuf' = NoOp
      /\ to_delete' = to_delete /\ fix_ups' = fix_ups
    BY DEF SyncRollover, SyncTruncateStart, SyncTruncateEnd, SyncDeleted, SyncMetadata,
           SyncManifest, Goto
<1>2. /\ active_id' = CASE mbuf.type = "RollSegment" -> mbuf.new_id
                        [] mbuf.type = "TruncateEnd" -> mbuf.new_active_id
                        [] OTHER -> active_id
      /\ next_seg_id' = IF mbuf.type = "RollSegment" THEN mbuf.new_id + 1 ELSE next_seg_id
    BY DEF SyncRollover, SyncTruncateStart, SyncTruncateEnd, SyncDeleted, SyncMetadata,
           cursorVars
<1>3. Opened /\ Opened'
    BY <1>1 DEF Opened
<1>4. /\ next_seg_id \in Nat /\ \A id \in Known(state) : id < next_seg_id
      /\ Known(state) \subseteq SegIds
      /\ active_id = state.active_segment_id
      /\ mdisk.st = Apply(state, mbuf)
    BY <1>1, <1>3 DEF StructureInv, MemoryOk
<1>5. (\A m \in Manifests : ManifestOk(m))'
    BY <1>1 DEF Manifests, StructureInv
<1>6. /\ WellFormed(state') /\ Known(state') \subseteq SegIds
      /\ Known(state') \subseteq Known(state) \cup
            (IF mbuf.type = "RollSegment" THEN {next_seg_id} ELSE {})
      /\ to_delete' \subseteq state'.dead
      /\ active_id' = state'.active_segment_id
      /\ mbuf.type = "RollSegment" => mbuf.new_id = next_seg_id
    BY <1>1, <1>2, <1>3, <1>4, InFlight
<1>7. next_seg_id' \in Nat /\ \A id \in Known(state') : id < next_seg_id'
    <2>1. \A id \in Known(state') : id \in Known(state) \/ (mbuf.type = "RollSegment" /\ id = next_seg_id)
        BY <1>6
    <2>2. Known(state) \subseteq Nat
        BY <1>4, MaxSegAssumption DEF SegIds
    <2> QED
        BY <1>2, <1>4, <1>6, <2>1, <2>2
<1>8. MemoryOk'
    BY <1>1, <1>4, <1>6, <1>7 DEF MemoryOk
<1>9. ControlOk' /\ FixUpsOk'
    BY <1>1, <1>3 DEF StructureInv, ControlOk, FixUpsOk, NoOpAt, OpAt
<1> QED
    BY <1>5, <1>8, <1>9 DEF StructureInv

-----------------------------------------------------------------------------
\* Every step of the store and every failure keeps the invariant.
LEMMA NextStructure == StructureInv /\ [Next]_vars => StructureInv'
<1> SUFFICES ASSUME StructureInv, [Next]_vars PROVE StructureInv'
    OBVIOUS
<1>1. CASE UNCHANGED vars
    <2>1. Within
        BY <1>1 DEF vars, Within, diskVars, manifestVars, callVars, storeVars, cursorVars
    <2> QED
        BY <2>1, WithinStructure
<1>2. CASE CreateNew \/ WriteMagic
    <2>1. Within
        BY <1>2 DEF CreateNew, WriteMagic, Within, Goto, callVars, storeVars, cursorVars
    <2> QED
        BY <2>1, WithinStructure
<1>3. CASE AppendFrames \/ CommitSync \/ CommitDrop
    <2>1. Within
        BY <1>3 DEF AppendFrames, AppendAfter, CommitSync, CommitDrop, Within, Goto,
                    diskVars, manifestVars, callVars, storeVars, cursorVars
    <2> QED
        BY <2>1, WithinStructure
<1>4. CASE SyncTruncated \/ Corrupt
    <2>1. Within
        BY <1>4 DEF SyncTruncated, Corrupt, Within, Goto, callVars, storeVars, cursorVars
    <2> QED
        BY <2>1, WithinStructure
<1>5. CASE PowerLoss \/ Restart
    BY <1>5, FailureStructure
<1>6. CASE CreateManifest \/ WriteManifestMagic \/ FlushCreate
    BY <1>6, CreateStructure
<1>7. CASE OpenClean \/ OpenWithIssues \/ Recover \/ FixedUp
    BY <1>7, OpenStructure
<1>8. CASE FixUp \/ SyncFixOp
    BY <1>8, FixUpStructure, SyncFixOpStructure
<1>9. CASE Write \/ TruncateStart \/ TruncateEnd \/ DeleteDeadSegments
             \/ RemoveFile \/ WriteMetadata
    BY <1>9, CallStructure
<1>10. CASE Flush
    BY <1>10, FlushStructure
<1>11. CASE SyncRollover \/ SyncTruncateStart \/ SyncTruncateEnd \/ SyncDeleted \/ SyncMetadata
    BY <1>11, SyncStructure
<1> QED
    BY <1>1, <1>2, <1>3, <1>4, <1>5, <1>6, <1>7, <1>8, <1>9, <1>10, <1>11
        DEF Next, OpenSteps, CallSteps, Calls, Failures

-----------------------------------------------------------------------------
(***************************************************************************)
(* The theorems.  They hold for any number of segments and entries, any    *)
(* mix of calls, and power losses, kills and bit rot in any number and at  *)
(* any point.                                                              *)
(***************************************************************************)
\* Manifest, memory and the operation in flight (the store's pending
\* manifest operation, or the rest of a recovery's fix-ups) always agree.
THEOREM StructureTheorem == Spec => []StructureInv
<1> QED
    BY InitStructure, NextStructure, PTL DEF Spec

\* Whatever a failure leaves of the manifest replays to a well-formed state:
\* one active segment, the last; all others sealed; none both live and dead.
THEOREM ManifestTheorem == Spec => []ManifestsWellFormed
<1>1. StructureInv => ManifestsWellFormed
    BY DEF StructureInv, ManifestOk, ManifestsWellFormed
<1> QED
    BY <1>1, StructureTheorem, PTL

\* The state that an open store keeps in memory is the one its manifest
\* replays to, up to the operation between flush and sync_all.
THEOREM MemoryTheorem == Spec => []MemoryFollowsManifest
<1>1. StructureInv => MemoryFollowsManifest
    BY DEF StructureInv, MemoryOk, MemoryFollowsManifest
<1> QED
    BY <1>1, StructureTheorem, PTL

\* next_seg_id never names a segment that is live or waits for deletion, also
\* after a reopen, so a rollover cannot reuse such a segment's file.
THEOREM FenceTheorem == Spec => []SegmentIdsFenced
<1>1. StructureInv => SegmentIdsFenced
    BY DEF StructureInv, MemoryOk, SegmentIdsFenced, Known
<1> QED
    BY <1>1, StructureTheorem, PTL

\* apply() accepts every operation that the store or a recovery appends, so
\* the expect() on it cannot fail, and neither can the replay at the next open.
THEOREM NoPanicTheorem == Spec => []NoPanic
<1>1. StructureInv => NoPanic
    <2> SUFFICES ASSUME StructureInv PROVE NoPanic
        OBVIOUS
    <2>1. ASSUME pc = "flush" PROVE ApplyOk(mdisk.st, mbuf)
        <3>1. CASE mbuf.type = "CreateSegment"
            <4>1. mdisk.st = EmptyState
                BY <2>1, <3>1 DEF StructureInv, ControlOk, OpAt
            <4>2. IsEmpty(EmptyState)
                BY DEF IsEmpty, EmptyState
            <4> QED
                BY <3>1, <4>1, <4>2 DEF ApplyOk
        <3>2. CASE mbuf.type # "CreateSegment"
            <4>1. mbuf # NoOp /\ Opened
                BY <2>1, <3>2 DEF Opened, StructureInv, ControlOk, OpAt
            <4>2. mdisk.st = state
                BY <2>1, <4>1 DEF StructureInv, MemoryOk
            <4> QED
                BY <2>1, <4>1, <4>2, InFlight
        <3> QED
            BY <3>1, <3>2
    <2>2. ASSUME pc = "sync" PROVE ApplyOk(state, mbuf)
        <3>1. Opened
            BY <2>2 DEF Opened
        <3> QED
            BY <2>2, <3>1, InFlight
    <2>3. ASSUME NEW fix \in fix_ups, fix.issue = "DeadSegmentNotFound"
          PROVE  ApplyOk(mdisk.st, SegmentDeletedOp(fix.id))
        <3>1. fix.id \in mdisk.st.dead
            BY <2>3 DEF StructureInv, FixUpsOk
        <3> QED
            BY <3>1 DEF ApplyOk, SegmentDeletedOp
    <2> QED
        BY <2>1, <2>2, <2>3 DEF NoPanic
<1> QED
    BY <1>1, StructureTheorem, PTL

-----------------------------------------------------------------------------
(***************************************************************************)
(* The metadata given to truncate_start and the head it sets are durable   *)
(* together: SnapshotInv is an invariant of the store.                     *)
(***************************************************************************)
\* The operations the store and a recovery append.
OpTypesOf == {"CreateSegment", "RollSegment", "TruncateStart", "TruncateEnd",
              "SegmentDeleted", "RecordOrphan", "Metadata"}

\* apply() upserts an operation's metadata into the structure's.
LEMMA ApplyFields ==
    ASSUME NEW st, NEW op
    PROVE  LET k == ApplyStructure(st, op)
               s == Apply(st, op)
           IN  /\ s.first_entry = k.first_entry
               /\ DOMAIN s.meta = DOMAIN k.meta \cup DOMAIN op.meta
               /\ \A x \in DOMAIN s.meta :
                    s.meta[x] = IF x \in DOMAIN op.meta THEN op.meta[x] ELSE k.meta[x]
    BY DEF Apply, WithMeta, Override

\* Only truncate_start and the creation of the store set the head; no
\* operation touches the metadata in its structural part.
LEMMA StructureFields ==
    ASSUME NEW st, NEW op, op.type \in OpTypesOf
    PROVE  LET k == ApplyStructure(st, op)
           IN  /\ k.meta = st.meta
               /\ k.first_entry = IF op.type \in {"CreateSegment", "TruncateStart"}
                                  THEN op.first_entry ELSE st.first_entry
<1>1. CASE op.type \in {"CreateSegment", "RollSegment"}
    BY <1>1 DEF ApplyStructure, create_segment, roll_segment
<1>2. CASE op.type \in {"TruncateStart", "TruncateEnd"}
    BY <1>2 DEF ApplyStructure, truncate_start, truncate_end, kill_segments
<1>3. CASE op.type \in {"SegmentDeleted", "RecordOrphan", "Metadata"}
    BY <1>3 DEF ApplyStructure, segment_deleted, record_orphan, WithDead
<1> QED
    BY <1>1, <1>2, <1>3 DEF OpTypesOf

\* apply() keeps the pointer at the head.
LEMMA ApplyPointer ==
    ASSUME NEW st, PointerIsHead(st), NEW op, op.type \in OpTypesOf,
           OpMovesPointer(op), op.type = "CreateSegment" => op.first_entry = 0
    PROVE  PointerIsHead(Apply(st, op))
<1> DEFINE k == ApplyStructure(st, op)
           s == Apply(st, op)
<1>1. /\ s.first_entry = k.first_entry
      /\ DOMAIN s.meta = DOMAIN k.meta \cup DOMAIN op.meta
      /\ \A x \in DOMAIN s.meta :
            s.meta[x] = IF x \in DOMAIN op.meta THEN op.meta[x] ELSE k.meta[x]
    BY ApplyFields
<1>2. /\ k.meta = st.meta
      /\ k.first_entry = IF op.type \in {"CreateSegment", "TruncateStart"}
                         THEN op.first_entry ELSE st.first_entry
    BY StructureFields
<1> HIDE DEF k, s
<1>3. CASE op.type = "TruncateStart"
    <2>1. /\ op.meta = [x \in {SnapshotKey} |-> op.first_entry]
          /\ DOMAIN op.meta = {SnapshotKey} /\ op.meta[SnapshotKey] = op.first_entry
        BY <1>3 DEF OpMovesPointer
    <2> QED
        BY <1>1, <1>2, <1>3, <2>1 DEF PointerIsHead, s
<1>4. CASE op.type # "TruncateStart"
    <2>1. SnapshotKey \notin DOMAIN op.meta
        BY <1>4 DEF OpMovesPointer
    <2>2. CASE op.type = "CreateSegment"
        BY <1>1, <1>2, <2>2 DEF PointerIsHead, s
    <2>3. CASE op.type # "CreateSegment"
        <3>1. s.first_entry = st.first_entry
            BY <1>1, <1>2, <1>4, <2>3
        <3>2. ASSUME SnapshotKey \in DOMAIN st.meta
              PROVE  SnapshotKey \in DOMAIN s.meta
                     /\ s.meta[SnapshotKey] = st.meta[SnapshotKey]
            BY <1>1, <1>2, <2>1, <3>2
        <3> QED
            BY <3>1, <3>2 DEF PointerIsHead, s
    <2> QED
        BY <2>2, <2>3
<1> QED
    BY <1>3, <1>4

-----------------------------------------------------------------------------
\* A step after which every manifest a failure may leave was one before.
LEMMA PointersKept ==
    ASSUME SnapshotInv, Manifests' \subseteq Manifests, mbuf' \in {mbuf, NoOp}
    PROVE  SnapshotInv'
    BY DEF SnapshotInv

\* A step that appends an operation to the manifest.
LEMMA PointersAppended ==
    ASSUME SnapshotInv, NEW op, AppendManifest(op), op.type \in OpTypesOf,
           OpMovesPointer(op), op.type = "CreateSegment" => op.first_entry = 0
    PROVE  (\A m \in Manifests : PointerIsHead(m.st))'
<1> DEFINE st == Apply(mdisk.st, op)
           new == ManifestFile(st, "clean")
<1>1. PointerIsHead(mdisk.st) /\ \A m \in msurv : PointerIsHead(m.st)
    BY DEF SnapshotInv, Manifests
<1>2. PointerIsHead(new.st)
    BY <1>1, ApplyPointer DEF ManifestFile
<1>3. \A kind \in TornKinds : PointerIsHead(ManifestFile(mdisk.st, kind).st)
    BY <1>1 DEF ManifestFile
<1>4. /\ mdisk' = new
      /\ msurv' = msurv \cup {new} \cup {ManifestFile(mdisk.st, kind) : kind \in TornKinds}
    BY DEF AppendManifest
<1> HIDE DEF new
<1>5. \A m \in msurv' \cup {mdisk'} : PointerIsHead(m.st)
    BY <1>1, <1>2, <1>3, <1>4
<1> QED
    BY <1>5 DEF Manifests

\* The operation in flight is one that apply() knows.
LEMMA InFlightType ==
    ASSUME StructureInv, pc = "flush"
    PROVE  /\ mbuf # NoOp /\ mbuf.type \in OpTypesOf
           /\ mbuf.type = "CreateSegment" => mbuf.first_entry = 0
<1>1. /\ mbuf # NoOp
      /\ IF mbuf.type = "CreateSegment" THEN mbuf = CreateSegmentOp(1, 0)
         ELSE OpValid(state, mbuf, next_seg_id, to_delete)
    BY DEF StructureInv, ControlOk, OpAt
<1> QED
    BY <1>1 DEF OpValid, OpTypesOf, CreateSegmentOp

-----------------------------------------------------------------------------
\* A new directory and a store that was created have head 0.
LEMMA InitSnapshot == Init => SnapshotInv
<1> SUFFICES ASSUME Init PROVE SnapshotInv
    OBVIOUS
<1>1. PointerIsHead(EmptyState)
    BY DEF PointerIsHead, EmptyState
<1> DEFINE op == CreateSegmentOp(1, 0)
<1>2. op.type = "CreateSegment" /\ op.first_entry = 0 /\ SnapshotKey \notin DOMAIN op.meta
    BY DEF CreateSegmentOp, NoMeta
<1>3. PointerIsHead(FormattedState)
    <2>1. FormattedState = Apply(EmptyState, op)
        BY DEF FormattedState
    <2> HIDE DEF op
    <2>2. OpMovesPointer(op) /\ op.type \in OpTypesOf
        BY <1>2 DEF OpMovesPointer, OpTypesOf
    <2> QED
        BY <1>1, <1>2, <2>1, <2>2, ApplyPointer
<1>4. PointerIsHead(InitialManifest.st)
    BY <1>1, <1>3 DEF InitialManifest, ManifestFile, AbsentManifest
<1>5. \A m \in Manifests : m = InitialManifest
    BY DEF Init, Manifests
<1> QED
    BY <1>4, <1>5 DEF SnapshotInv, Init

\* Every call computes an operation that moves head and pointer or neither.
LEMMA CallSnapshot ==
    ASSUME SnapshotInv,
           Write \/ TruncateStart \/ TruncateEnd \/ DeleteDeadSegments
             \/ RemoveFile \/ WriteMetadata
    PROVE  SnapshotInv'
<1>1. Manifests' = Manifests
    BY DEF Write, TruncateStart, TruncateEnd, DeleteDeadSegments, RemoveFile, WriteMetadata,
           diskVars, manifestVars, Manifests
<1>2. mbuf' = mbuf \/ OpMovesPointer(mbuf')
    <2>1. CASE Write
        BY <2>1 DEF Write, RolloverOp, RollSegmentOp, NoMeta, OpMovesPointer
    <2>2. CASE TruncateStart
        <3>1. PICK first \in state.first_entry..(MaxId + 1) :
                mbuf' = TruncateStartOp(first, Evicted(state, first),
                                        [k \in {SnapshotKey} |-> first])
            BY <2>2 DEF TruncateStart
        <3>2. /\ mbuf'.type = "TruncateStart" /\ mbuf'.first_entry = first
              /\ mbuf'.meta = [k \in {SnapshotKey} |-> first]
            BY <3>1 DEF TruncateStartOp
        <3> QED
            BY <3>2 DEF OpMovesPointer
    <2>3. CASE TruncateEnd
        <3>1. \E target, drop : mbuf' = TruncateEndOp(target, drop)
            BY <2>3 DEF TruncateEnd
        <3> QED
            BY <3>1 DEF TruncateEndOp, NoMeta, OpMovesPointer
    <2>4. CASE DeleteDeadSegments
        BY <2>4 DEF DeleteDeadSegments
    <2>5. CASE RemoveFile
        <3>1. \E id : mbuf' = SegmentDeletedOp(id)
            BY <2>5 DEF RemoveFile
        <3> QED
            BY <3>1 DEF SegmentDeletedOp, NoMeta, OpMovesPointer
    <2>6. CASE WriteMetadata
        <3> DEFINE meta == [k \in {VoteKey} |-> Vote(state) + 1]
        <3>1. mbuf' = MetadataOp(meta) /\ DOMAIN meta = {VoteKey}
            BY <2>6 DEF WriteMetadata
        <3> HIDE DEF meta
        <3>2. mbuf'.type = "Metadata" /\ mbuf'.meta = meta
            BY <3>1 DEF MetadataOp
        <3> QED
            BY <3>1, <3>2 DEF OpMovesPointer, SnapshotKey, VoteKey
    <2> QED
        BY <2>1, <2>2, <2>3, <2>4, <2>5, <2>6
<1> QED
    BY <1>1, <1>2 DEF SnapshotInv

\* The fix-ups append operations without metadata.
LEMMA FixUpSnapshot ==
    ASSUME SnapshotInv, FixUp
    PROVE  SnapshotInv'
<1>1. PICK fix \in fix_ups :
        \/ TruncateManifest(fix)
        \/ TruncateSegment(fix)
        \/ AppendFixOp(fix)
        \/ CreateActiveSegment(fix)
    BY DEF FixUp, NextFixUps
<1>2. CASE TruncateManifest(fix)
    <2>1. /\ mdisk' = ManifestFile(mdisk.st, "clean") /\ msurv' = {mdisk'} /\ mbuf' = mbuf
        BY <1>2 DEF TruncateManifest
    <2>2. \A m \in Manifests' : m.st = mdisk.st
        BY <2>1 DEF Manifests, ManifestFile
    <2> QED
        BY <2>1, <2>2 DEF SnapshotInv, Manifests
<1>3. CASE TruncateSegment(fix) \/ CreateActiveSegment(fix)
    <2>1. Manifests' = Manifests /\ mbuf' = mbuf
        BY <1>3 DEF TruncateSegment, CreateActiveSegment, manifestVars, diskVars, Manifests
    <2> QED
        BY <2>1, PointersKept
<1>4. CASE AppendFixOp(fix)
    <2> DEFINE op == IF fix.issue = "OrphanSegmentFound"
                     THEN RecordOrphanOp(fix.id) ELSE SegmentDeletedOp(fix.id)
    <2>1. mbuf' = op /\ AppendManifest(op)
        BY <1>4 DEF AppendFixOp
    <2>2. op.type \in {"RecordOrphan", "SegmentDeleted"} /\ SnapshotKey \notin DOMAIN op.meta
        BY DEF RecordOrphanOp, SegmentDeletedOp, NoMeta
    <2> HIDE DEF op
    <2>3. OpMovesPointer(op) /\ op.type \in OpTypesOf
        BY <2>2 DEF OpMovesPointer, OpTypesOf
    <2>4. (\A m \in Manifests : PointerIsHead(m.st))'
        BY <2>1, <2>2, <2>3, PointersAppended
    <2> QED
        BY <2>1, <2>3, <2>4 DEF SnapshotInv
<1> QED
    BY <1>1, <1>2, <1>3, <1>4

\* open_or_create and the manifest step of every call.
LEMMA AppendSnapshot ==
    ASSUME StructureInv, SnapshotInv,
           CreateManifest \/ WriteManifestMagic \/ FlushCreate \/ Flush
    PROVE  SnapshotInv'
<1>1. CASE CreateManifest
    <2>1. Manifests' \subseteq Manifests \cup {UnreadableManifest} /\ mbuf' = mbuf
        BY <1>1 DEF CreateManifest, Manifests, callVars
    <2>2. PointerIsHead(UnreadableManifest.st)
        BY DEF UnreadableManifest, EmptyState, PointerIsHead
    <2> QED
        BY <2>1, <2>2 DEF SnapshotInv
<1>2. CASE WriteManifestMagic
    <2>1. /\ mdisk' = ManifestFile(EmptyState, "clean") /\ msurv' = {mdisk'}
          /\ mbuf' = CreateSegmentOp(1, 0)
        BY <1>2 DEF WriteManifestMagic
    <2>2. OpMovesPointer(mbuf')
        BY <2>1 DEF CreateSegmentOp, NoMeta, OpMovesPointer
    <2>3. \A m \in Manifests' : m.st = EmptyState
        BY <2>1 DEF Manifests, ManifestFile
    <2>4. PointerIsHead(EmptyState)
        BY DEF PointerIsHead, EmptyState
    <2> QED
        BY <2>2, <2>3, <2>4 DEF SnapshotInv
<1>3. CASE FlushCreate \/ Flush
    <2>1. pc = "flush" /\ AppendManifest(mbuf) /\ mbuf' \in {mbuf, NoOp}
        BY <1>3 DEF FlushCreate, Flush, callVars
    <2>2. /\ mbuf # NoOp /\ mbuf.type \in OpTypesOf
          /\ mbuf.type = "CreateSegment" => mbuf.first_entry = 0
        BY <2>1, InFlightType
    <2>3. OpMovesPointer(mbuf)
        BY <2>2 DEF SnapshotInv
    <2>4. (\A m \in Manifests : PointerIsHead(m.st))'
        BY <2>1, <2>2, <2>3, PointersAppended
    <2> QED
        BY <2>1, <2>3, <2>4 DEF SnapshotInv
<1> QED
    BY <1>1, <1>2, <1>3

\* Every step keeps pointer and head together.
LEMMA NextSnapshot == StructureInv /\ SnapshotInv /\ [Next]_vars => SnapshotInv'
<1> SUFFICES ASSUME StructureInv, SnapshotInv, [Next]_vars PROVE SnapshotInv'
    OBVIOUS
<1>1. CASE UNCHANGED vars
    BY <1>1, PointersKept DEF vars, diskVars, callVars, Manifests
<1>2. CASE CreateNew \/ WriteMagic \/ AppendFrames \/ CommitSync \/ CommitDrop
             \/ SyncTruncated \/ Corrupt
    <2>1. UNCHANGED <<mdisk, msurv, mbuf>>
        BY <1>2 DEF CreateNew, WriteMagic, AppendFrames, AppendAfter, CommitSync, CommitDrop,
                    SyncTruncated, Corrupt, diskVars, manifestVars, callVars
    <2> QED
        BY <2>1, PointersKept DEF Manifests
<1>3. CASE PowerLoss \/ Restart
    BY <1>3, PointersKept DEF PowerLoss, Restart, ForgetMemory, diskVars, Manifests
<1>4. CASE CreateManifest \/ WriteManifestMagic \/ FlushCreate \/ Flush
    BY <1>4, AppendSnapshot
<1>5. CASE OpenClean \/ OpenWithIssues \/ Recover \/ FixedUp
    <2>1. UNCHANGED <<mdisk, msurv, mbuf>>
        BY <1>5 DEF OpenClean, OpenWithIssues, Recover, Attempt, FixedUp, diskVars, callVars
    <2> QED
        BY <2>1, PointersKept DEF Manifests
<1>6. CASE FixUp
    BY <1>6, FixUpSnapshot
<1>7. CASE Write \/ TruncateStart \/ TruncateEnd \/ DeleteDeadSegments
             \/ RemoveFile \/ WriteMetadata
    BY <1>7, CallSnapshot
<1>8. CASE SyncFixOp \/ SyncRollover \/ SyncTruncateStart \/ SyncTruncateEnd
             \/ SyncDeleted \/ SyncMetadata
    <2>1. mdisk' = mdisk /\ msurv' = {mdisk} /\ mbuf' = NoOp
        BY <1>8 DEF SyncFixOp, SyncRollover, SyncTruncateStart, SyncTruncateEnd,
                    SyncDeleted, SyncMetadata, SyncManifest
    <2> QED
        BY <2>1, PointersKept DEF Manifests
<1> QED
    BY <1>1, <1>2, <1>3, <1>4, <1>5, <1>6, <1>7, <1>8
        DEF Next, OpenSteps, CallSteps, Calls, Failures

-----------------------------------------------------------------------------
\* In whatever manifest a failure leaves, at whatever point of whatever call
\* or recovery, the snapshot pointer given to truncate_start is the log head.
THEOREM SnapshotTheorem == Spec => []SnapshotAtomic
<1>1. SnapshotInv => SnapshotAtomic
    BY DEF SnapshotInv, PointerIsHead, SnapshotAtomic
<1>2. Spec => []SnapshotInv
    BY InitSnapshot, NextSnapshot, StructureTheorem, PTL DEF Spec
<1> QED
    BY <1>1, <1>2, PTL
=============================================================================
