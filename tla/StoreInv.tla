------------------------------ MODULE StoreInv ------------------------------
(***************************************************************************)
(* The inductive invariants behind the theorems about the store:           *)
(* StructureInv for ManifestsWellFormed, MemoryFollowsManifest,            *)
(* SegmentIdsFenced and NoPanic, SnapshotInv for SnapshotAtomic, FileInv   *)
(* for TypeOK, RolloverFileIsNew and CursorAtEnd, LiveFramesOk for         *)
(* NoCorruptFrameServed.                                                   *)
(***************************************************************************)
EXTENDS StoreProps

Known(st) == Live(st) \cup st.dead

\* A manifest that a failure may leave.
ManifestOk(m) ==
    /\ m.kind \in {"ok", "absent", "unreadable"}
    /\ m.tail \in {"clean", "header", "payload", "zeros"}
    /\ m.st = EmptyState \/ (WellFormed(m.st) /\ Known(m.st) \subseteq SegIds)

\* An operation that the store computed from its state `st', still to be
\* applied, where `next' is next_seg_id and `queue' the segments that
\* delete_dead_segments has yet to remove.
OpValid(st, op, next, queue) ==
    \/ /\ op.type = "RollSegment"
       /\ op = RollSegmentOp(st.active_segment_id, op.seal, next, op.new_first_entry)
       /\ next \in SegIds
    \/ /\ op.type = "TruncateStart"
       /\ op = TruncateStartOp(op.first_entry, op.drop, op.meta)
       /\ op.first_entry \in Nat /\ op.first_entry >= st.first_entry
       /\ op.drop \subseteq DOMAIN st.seals
    \/ /\ op.type = "TruncateEnd"
       /\ \E t \in DOMAIN st.segments :
            op = TruncateEndOp(st.segments[t].id, LaterSegments(st, t))
    \/ /\ op.type = "SegmentDeleted"
       /\ op = SegmentDeletedOp(op.id)
       /\ op.id \in st.dead \ queue
    \/ /\ op.type = "Metadata"
       /\ op = MetadataOp(op.meta)

MemoryOk ==
    Opened =>
        /\ WellFormed(state)
        /\ Known(state) \subseteq SegIds
        /\ next_seg_id \in Nat
        /\ \A id \in Known(state) : id < next_seg_id
        /\ active_id = state.active_segment_id
        /\ to_delete \subseteq state.dead
        /\ mdisk.st = IF pc = "sync" THEN Apply(state, mbuf) ELSE state

\* Where no operation is in flight, and where one is.
NoOpAt == {"closed", "manifest_magic", "fix", "idle", "append", "commit", "delete"}
OpAt == {"flush", "sync", "truncated"}

\* The operation in flight, by program point.
ControlOk ==
    /\ pc \in NoOpAt \cup OpAt \cup {"create", "magic", "fixsync"}
    /\ pc \in NoOpAt => mbuf = NoOp
    /\ pc \in OpAt => mbuf # NoOp
    /\ pc \in {"sync", "truncated"} => mbuf.type # "CreateSegment"
    /\ pc = "truncated" => mbuf.type = "TruncateEnd"
    /\ (pc # "fixsync" /\ mbuf # NoOp) =>
            IF mbuf.type = "CreateSegment"
            THEN mbuf = CreateSegmentOp(1, 0) /\ mdisk.st = EmptyState
            ELSE OpValid(state, mbuf, next_seg_id, to_delete)
    /\ ~Opened => to_delete = {}

\* The manifest operations a recovery has yet to append.
FixUpsOk ==
    /\ fix_ups # {} =>
        \/ pc \in {"fix", "fixsync"}
        \/ (pc \in {"create", "magic"} /\ mbuf = NoOp)
    /\ \A fix \in fix_ups :
        /\ fix.issue = "OrphanSegmentFound" =>
            WellFormed(mdisk.st) /\ fix.id \in SegIds \ Live(mdisk.st)
        /\ fix.issue = "DeadSegmentNotFound" =>
            /\ WellFormed(mdisk.st)
            /\ fix = Issue("DeadSegmentNotFound", fix.id, 0)
            /\ fix.id \in mdisk.st.dead

\* Manifest, memory and the operation between them agree, whatever fails.
StructureInv ==
    /\ \A m \in Manifests : ManifestOk(m)
    /\ MemoryOk
    /\ ControlOk
    /\ FixUpsOk

-----------------------------------------------------------------------------
\* The snapshot pointer of a state is its head, once it has one.
PointerIsHead(st) ==
    st.first_entry > 0 =>
        SnapshotKey \in DOMAIN st.meta /\ st.meta[SnapshotKey] = st.first_entry

\* An operation that moves the head carries the pointer, no other one does.
OpMovesPointer(op) ==
    IF op.type = "TruncateStart"
    THEN op.meta = [k \in {SnapshotKey} |-> op.first_entry]
    ELSE SnapshotKey \notin DOMAIN op.meta

\* Head and pointer agree in every manifest, and the operation in flight
\* moves both or neither.
SnapshotInv ==
    /\ \A m \in Manifests : PointerIsHead(m.st)
    /\ mbuf # NoOp => OpMovesPointer(mbuf)

-----------------------------------------------------------------------------
\* Segment files: a frame whose checksum matches is one the caller wrote.
FrameType == {f \in [id : 0..MaxId, ok : BOOLEAN] : f.ok => f.id > 0}
FileType ==
    [kind : {"ok", "absent", "nomagic"}, frames : Seq(FrameType), torn : BOOLEAN]

\* The records of a state name entries the caller may write.
EntriesOk(st) ==
    /\ \A p \in DOMAIN st.segments :
        st.segments[p] \in [id : Nat \ {0}, first_entry : 0..MaxId]
    /\ \A id \in DOMAIN st.seals :
        st.seals[id] \in SealInfo /\ st.seals[id].last_entry <= MaxId

\* The type of every variable, with the bounds behind the ones TypeOK states.
ManifestsTyped ==
    \A m \in Manifests : m.tail \in {"clean"} \cup TornKinds /\ EntriesOk(m.st)
DiskTyped ==
    /\ disk \in [SegIds -> FileType]
    /\ surv \in [SegIds -> SUBSET FileType]
MemoryTyped ==
    /\ EntriesOk(state) /\ (~Opened => state = EmptyState)
    /\ index \in Seq(SegmentIndex)
    /\ active_id \in SegIds \cup {NoSeg} /\ next_seg_id \in Nat
    /\ position \in Nat /\ active_entry_count \in Nat
    /\ active_first_entry \in 0..MaxId /\ last_entry_id \in 0..MaxId
CallTyped ==
    /\ last_valid \in 0..MaxId
    /\ buf \in Seq({f \in FrameType : f.ok})
    /\ (pc = "append" \/ mbuf.type = "RollSegment") => buf # <<>>
    /\ mbuf.type = "RollSegment" =>
        /\ mbuf.seal \in SealInfo /\ mbuf.seal.last_entry <= MaxId
        /\ mbuf.new_first_entry \in 0..MaxId
    /\ \A fix \in fix_ups :
        fix.issue \in {"ActiveSegmentTornTail", "SealedSegmentChecksumCorrupt",
                       "ActiveSegmentMissing"} =>
            fix.id \in SegIds /\ fix.at \in Nat
HistoryTyped == log \subseteq 1..MaxId /\ acked \subseteq 1..MaxId

\* The cursor is at the end of the active segment's file, but while
\* truncate_end has cut a file and not yet moved the cursor there.
CursorOk ==
    (Opened /\ mbuf.type # "TruncateEnd") => position = Len(disk[active_id].frames)

\* No file has the number of a segment still to come, but the one that a
\* rollover is making.
NewFileOk ==
    /\ Opened => \A id \in SegIds :
        (id >= next_seg_id /\ disk[id].kind # "absent") =>
            /\ id = next_seg_id
            /\ mbuf.type = "RollSegment" /\ pc \in {"magic", "flush", "sync"}
    /\ pc \in {"create", "magic"} =>
        /\ creating \in SegIds
        /\ mbuf = NoOp \/ mbuf.type \in {"CreateSegment", "RollSegment"}
    /\ pc = "create" => disk[creating].kind = "absent"
    /\ (pc \in {"create", "magic"} /\ mbuf.type = "RollSegment") => creating = next_seg_id
    /\ (pc \in {"flush", "sync"} /\ mbuf.type = "RollSegment") =>
            disk[next_seg_id].frames = <<>>

\* As long as a failure may leave no manifest, there is no segment file.
NoManifest == \E m \in Manifests : m.kind = "absent"
EmptyDirectoryOk ==
    /\ NoManifest =>
        mdisk.kind \in {"absent", "unreadable"} /\ pc \in {"closed", "manifest_magic"}
    /\ (NoManifest \/ pc = "manifest_magic") =>
        \A id \in SegIds : disk[id] = AbsentFile /\ surv[id] = {AbsentFile}

\* Files, cursor and the numbering of segments agree, whatever fails.
FileInv ==
    /\ ManifestsTyped /\ DiskTyped /\ MemoryTyped /\ CallTyped /\ HistoryTyped
    /\ CursorOk
    /\ NewFileOk
    /\ EmptyDirectoryOk

-----------------------------------------------------------------------------
\* Every frame of an open store matches its checksum, within a call too.
LiveFramesOk ==
    Opened => \A id \in Live(state) :
        \A i \in DOMAIN disk[id].frames : disk[id].frames[i].ok
=============================================================================
