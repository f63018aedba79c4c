------------------------------- MODULE Store --------------------------------
(***************************************************************************)
(* A woodshed store (store.rs) on a disk with a page cache.                *)
(*                                                                         *)
(* The Store value is owned by one caller, so its operations never overlap *)
(* each other; what interleaves with them is the failure of the machine.   *)
(* Every operation is therefore split at each call that changes a file     *)
(* (create, write, set_len, sync_all, remove), and a power loss or the end *)
(* of the process may come between any two of those calls.                 *)
(***************************************************************************)
EXTENDS Recovery

CONSTANTS
    MaxId,       \* largest entry id the caller writes
    MaxBatch,    \* largest number of entries in one write
    MaxGap,      \* largest number of ids the caller skips
    MaxVote,     \* number of write_metadata calls
    Trigger,     \* segment_rollover_trigger_bytes, in frames
    TornKinds,   \* how an unsynced manifest append may be cut by a power loss
    FsyncEntry,  \* does fsync of a new file also persist its directory entry?
    Formatted,   \* start from a store on disk, or from an empty directory?
    Ops,         \* the calls the caller makes
    KillMidCall, \* may the process die within a call, or only between calls?
    MaxCrash, MaxRestart, MaxCorrupt    \* bounds on power losses, restarts, bit rot

ASSUME BoundsAssumption ==
    /\ MaxId \in Nat /\ MaxBatch \in Nat /\ MaxGap \in Nat /\ MaxVote \in Nat
    /\ Trigger \in Nat
    /\ MaxCrash \in Nat /\ MaxRestart \in Nat /\ MaxCorrupt \in Nat
ASSUME TornKindsAssumption == TornKinds \subseteq {"header", "payload", "zeros"}
ASSUME SwitchAssumption == {FsyncEntry, Formatted, KillMidCall} \subseteq BOOLEAN

VARIABLES
    \* the disk: what the page cache shows, and what a power loss may leave
    mdisk, msurv, disk, surv,
    \* the call in progress
    pc, mbuf, buf, creating, last_valid, to_delete, fix_ups, approved, result,
    \* fields of Store
    state, index, active_id, position, active_first_entry, active_entry_count,
    last_entry_id, next_seg_id, rollover_pending,
    \* history: entries written, entries the caller was told are durable
    log, acked,
    crashes, restarts, corrupts

diskVars == <<mdisk, msurv, disk, surv>>
manifestVars == <<mdisk, msurv>>
segmentVars == <<disk, surv>>
callVars == <<mbuf, buf, creating, last_valid, to_delete, fix_ups, approved>>
cursorVars == <<active_id, position, active_first_entry, active_entry_count,
                rollover_pending>>
storeVars == <<state, index, last_entry_id, next_seg_id, cursorVars>>
faultVars == <<crashes, restarts, corrupts>>
vars == <<diskVars, pc, callVars, result, storeVars, log, acked, faultVars>>

NoOp == [type |-> "None"]
SnapshotKey == 1    \* the metadata key the caller writes with truncate_start
VoteKey == 2        \* the one it writes with write_metadata

FormattedState == Apply(EmptyState, CreateSegmentOp(1, 0))
InitialManifest ==
    IF Formatted THEN ManifestFile(FormattedState, "clean") ELSE AbsentManifest
InitialSegment(id) ==
    IF Formatted /\ id = 1 THEN SegmentFile(<<>>, FALSE) ELSE AbsentFile

Init ==
    /\ mdisk = InitialManifest /\ msurv = {InitialManifest}
    /\ disk = [id \in SegIds |-> InitialSegment(id)]
    /\ surv = [id \in SegIds |-> {InitialSegment(id)}]
    /\ pc = "closed" /\ result = "none"
    /\ mbuf = NoOp /\ buf = <<>> /\ creating = 0 /\ last_valid = NoEntry
    /\ to_delete = {} /\ fix_ups = {} /\ approved = FALSE
    /\ state = EmptyState /\ index = <<>> /\ active_id = NoSeg /\ position = 0
    /\ active_first_entry = 0 /\ active_entry_count = 0
    /\ last_entry_id = NoEntry /\ next_seg_id = 0 /\ rollover_pending = FALSE
    /\ log = {} /\ acked = {}
    /\ crashes = 0 /\ restarts = 0 /\ corrupts = 0

Goto(label) == pc' = label

-----------------------------------------------------------------------------
(***************************************************************************)
(* The disk.  A change shows at once in the page cache and may or may not  *)
(* survive a power loss; sync_all leaves one outcome for the contents.     *)
(***************************************************************************)
\* sync_all on a segment: the directory entry of a new file may still be lost
Synced(file, outcomes) ==
    {file} \cup (IF FsyncEntry THEN {} ELSE outcomes \cap {AbsentFile})

SetSegment(id, file, outcomes) ==
    /\ disk' = [disk EXCEPT ![id] = file]
    /\ surv' = [surv EXCEPT ![id] = outcomes]

\* Fault: sync_all is left out.
SyncSegment_Skipped(id) == UNCHANGED segmentVars

SyncSegment(id) == SetSegment(id, disk[id], Synced(disk[id], surv[id]))

\* what a power loss may leave of an append of `new' at `pos'
AppendOutcomes(file, pos, new) ==
    {SegmentFile(WriteAt(file.frames, pos, SubSeq(new, 1, n)), torn) :
        n \in 0..(Len(new) - 1), torn \in BOOLEAN}
    \cup {SegmentFile(WriteAt(file.frames, pos, new), FALSE)}

\* Fault: the frame carries no metadata.
AppendManifest_NoMeta(op) ==
    LET m == ManifestFile(ApplyStructure(mdisk.st, op), "clean")
    IN  mdisk' = m /\ msurv' = msurv \cup {m}

\* manifest_cursor.write and flush: a frame reaches the page cache
AppendManifest(op) ==
    LET m == ManifestFile(Apply(mdisk.st, op), "clean")
    IN  /\ mdisk' = m
        /\ msurv' = msurv \cup {m} \cup {ManifestFile(mdisk.st, k) : k \in TornKinds}

\* Fault: sync_all is left out.
SyncManifest_Skipped == UNCHANGED manifestVars

SyncManifest == mdisk' = mdisk /\ msurv' = {mdisk}

-----------------------------------------------------------------------------
(***************************************************************************)
(* files::create_segment, from open_or_create, do_rollover and the         *)
(* CreateActiveSegment fix-up: create_new fails on a file that exists.     *)
(***************************************************************************)
CreateNew ==
    /\ pc = "create"
    /\ disk[creating].kind = "absent"
    /\ SetSegment(creating, NoMagicFile, surv[creating] \cup {NoMagicFile})
    /\ Goto("magic")
    /\ UNCHANGED <<manifestVars, callVars, result, storeVars, log, acked, faultVars>>

WriteMagic ==
    /\ pc = "magic"
    /\ LET file == SegmentFile(<<>>, FALSE)
       IN  SetSegment(creating, file, Synced(file, surv[creating]))
    /\ creating' = 0
    /\ Goto(IF mbuf = NoOp THEN "fix" ELSE "flush")
    /\ UNCHANGED <<manifestVars, mbuf, buf, last_valid, to_delete, fix_ups, approved,
                   result, storeVars, log, acked, faultVars>>

-----------------------------------------------------------------------------
(***************************************************************************)
(* open_or_create on an empty directory.  The CreateSegment operation is   *)
(* flushed and not synced.                                                 *)
(***************************************************************************)
CreateManifest ==
    /\ pc = "closed" /\ mdisk.kind = "absent"
    /\ mdisk' = UnreadableManifest /\ msurv' = msurv \cup {UnreadableManifest}
    /\ Goto("manifest_magic")
    /\ UNCHANGED <<segmentVars, callVars, result, storeVars, log, acked, faultVars>>

WriteManifestMagic ==
    /\ pc = "manifest_magic"
    /\ mdisk' = ManifestFile(EmptyState, "clean") /\ msurv' = {mdisk'}
    /\ creating' = 1
    /\ mbuf' = CreateSegmentOp(1, 0)
    /\ Goto("create")
    /\ UNCHANGED <<segmentVars, buf, last_valid, to_delete, fix_ups, approved,
                   result, storeVars, log, acked, faultVars>>

FlushCreate ==
    /\ pc = "flush" /\ mbuf.type = "CreateSegment"
    /\ AppendManifest(mbuf)
    /\ mbuf' = NoOp
    /\ Goto("closed")
    /\ UNCHANGED <<segmentVars, buf, creating, last_valid, to_delete, fix_ups, approved,
                   result, storeVars, log, acked, faultVars>>

-----------------------------------------------------------------------------
(***************************************************************************)
(* Store::open and Store::recover.                                         *)
(***************************************************************************)
\* entries a reader can reach
LogIds(st, files) ==
    {x \in UNION {Ids(files[id].frames) : id \in Live(st)} : x >= st.first_entry}

\* from_scan_report
Load ==
    LET st == mdisk.st
    IN  /\ state' = st
        /\ index' = BuildIndex(st, disk)
        /\ active_id' = st.active_segment_id
        /\ position' = Len(disk[st.active_segment_id].frames)
        /\ active_first_entry' = FirstOf(st, st.active_segment_id)
        /\ active_entry_count' = Len(disk[st.active_segment_id].frames)
        /\ last_entry_id' = ScannedLastEntry(st, disk)
        /\ next_seg_id' = ScannedNextSegId(st)
        /\ rollover_pending' = FALSE
        /\ log' = LogIds(st, disk)

Loaded ==
    /\ Load
    /\ result' = "none"
    /\ Goto("idle")

NotOpened(why) ==
    /\ result' = why
    /\ Goto("closed")
    /\ UNCHANGED <<storeVars, log>>

\* open: a clean scan
OpenClean ==
    /\ pc = "closed" /\ mdisk.kind # "absent"
    /\ scan(mdisk, disk) = {}
    /\ Loaded
    /\ UNCHANGED <<diskVars, callVars, acked, faultVars>>

\* open or recover: the scan found issues; attempt_recovery plans or refuses
Attempt(approve) ==
    LET issues == scan(mdisk, disk)
        verdict == create_fix_up(mdisk.st, issues, approve)
    IN  /\ pc = "closed" /\ mdisk.kind # "absent"
        /\ issues # {}
        /\ IF verdict = "proceed"
           THEN /\ fix_ups' = issues
                /\ approved' = approve
                /\ Goto("fix")
                /\ UNCHANGED <<result, storeVars, log>>
           ELSE /\ UNCHANGED <<fix_ups, approved>>
                /\ NotOpened(verdict)
        /\ UNCHANGED <<diskVars, mbuf, buf, creating, last_valid, to_delete,
                       acked, faultVars>>

OpenWithIssues == Attempt(FALSE)

\* the caller approves only what open asked approval for
Recover == result = "ApprovalRequired" /\ Attempt(TRUE)

-----------------------------------------------------------------------------
(***************************************************************************)
(* The fix-ups, in phase order.  set_len directly followed by sync_all is  *)
(* one step: a failure between them leaves what one before or after does.  *)
(***************************************************************************)
TruncateManifest(fix) ==
    /\ fix.issue = "ManifestTornTail"
    /\ mdisk' = ManifestFile(mdisk.st, "clean") /\ msurv' = {mdisk'}
    /\ Goto("fix")
    /\ UNCHANGED <<segmentVars, mbuf, creating, result>>

TruncateSegment(fix) ==
    /\ fix.issue \in {"ActiveSegmentTornTail", "SealedSegmentChecksumCorrupt"}
    /\ LET file == SegmentFile(SetLen(disk[fix.id].frames, fix.at), FALSE)
       IN  SetSegment(fix.id, file, Synced(file, surv[fix.id]))
    /\ Goto("fix")
    /\ UNCHANGED <<manifestVars, mbuf, creating, result>>

\* append_manifest_op up to its flush
AppendFixOp(fix) ==
    /\ fix.issue \in {"OrphanSegmentFound", "DeadSegmentNotFound"}
    /\ mbuf' = IF fix.issue = "OrphanSegmentFound"
               THEN RecordOrphanOp(fix.id) ELSE SegmentDeletedOp(fix.id)
    /\ AppendManifest(mbuf')
    /\ Goto("fixsync")
    /\ UNCHANGED <<segmentVars, creating, result>>

CreateActiveSegment(fix) ==
    /\ fix.issue = "ActiveSegmentMissing"
    /\ IF disk[fix.id].kind = "absent"
       THEN Goto("create") /\ creating' = fix.id /\ UNCHANGED result
       ELSE Goto("closed") /\ result' = "RecoveryFailed" /\ UNCHANGED creating
    /\ UNCHANGED <<diskVars, mbuf>>

FixUp ==
    /\ pc = "fix"
    /\ \E fix \in NextFixUps(fix_ups) :
        /\ \/ TruncateManifest(fix)
           \/ TruncateSegment(fix)
           \/ AppendFixOp(fix)
           \/ CreateActiveSegment(fix)
        /\ fix_ups' = IF pc' = "closed" THEN {} ELSE fix_ups \ {fix}
        /\ approved' = (approved /\ pc' # "closed")
    /\ UNCHANGED <<buf, last_valid, to_delete, storeVars, log, acked, faultVars>>

SyncFixOp ==
    /\ pc = "fixsync"
    /\ SyncManifest
    /\ mbuf' = NoOp
    /\ Goto("fix")
    /\ UNCHANGED <<segmentVars, buf, creating, last_valid, to_delete, fix_ups, approved,
                   result, storeVars, log, acked, faultVars>>

\* all fix-ups applied: open scans again, recover returns
FixedUp ==
    /\ pc = "fix" /\ fix_ups = {}
    /\ IF approved THEN NotOpened("none")
       ELSE IF scan(mdisk, disk) = {} THEN Loaded
       ELSE NotOpened("RecoveryFailed")
    /\ approved' = FALSE
    /\ UNCHANGED <<diskVars, mbuf, buf, creating, last_valid, to_delete, fix_ups,
                   acked, faultVars>>

-----------------------------------------------------------------------------
(***************************************************************************)
(* StoreWriter: push and write, with do_rollover when one is pending.      *)
(***************************************************************************)
\* Fault: one frame counted per flush.
CursorAfter_One(pos, new) == pos + 1

\* FrameCursor::flush moves the cursor past what it wrote
CursorAfter(pos, new) == pos + Len(new)

NextIds == Max({last_entry_id + 1, state.first_entry})

Batches ==
    {[i \in 1..n |-> Frame(first + i - 1)] :
        n \in 1..MaxBatch, first \in NextIds..(NextIds + MaxGap)}

\* Faults: the segment before next_seg_id is sealed; the new segment is
\* recorded with the old one's first entry.
RolloverOp_Previous(newFirst) ==
    RollSegmentOp(next_seg_id - 1,
        [ first_entry |-> active_first_entry, last_entry |-> last_entry_id,
          entry_count |-> active_entry_count, final_size |-> position ],
        next_seg_id, newFirst)
RolloverOp_OldFirst(newFirst) ==
    RollSegmentOp(active_id,
        [ first_entry |-> active_first_entry, last_entry |-> last_entry_id,
          entry_count |-> active_entry_count, final_size |-> position ],
        next_seg_id, active_first_entry)

RolloverOp(newFirst) ==
    RollSegmentOp(active_id,
        [ first_entry |-> active_first_entry,
          last_entry  |-> IF last_entry_id = NoEntry THEN active_first_entry
                                                     ELSE last_entry_id,
          entry_count |-> active_entry_count,
          final_size  |-> position ],
        next_seg_id, newFirst)

Write ==
    /\ pc = "idle" /\ "write" \in Ops
    /\ \E batch \in Batches :
        /\ Last(batch).id <= MaxId
        /\ buf' = batch
        /\ IF rollover_pending
           THEN /\ next_seg_id \in SegIds
                /\ creating' = next_seg_id
                /\ mbuf' = RolloverOp(batch[1].id)
                /\ Goto("create")
           ELSE /\ UNCHANGED <<creating, mbuf>>
                /\ Goto("append")
    /\ UNCHANGED <<diskVars, last_valid, to_delete, fix_ups, approved, result,
                   storeVars, log, acked, faultVars>>

SyncRollover ==
    /\ pc = "sync" /\ mbuf.type = "RollSegment"
    /\ SyncManifest
    /\ state' = Apply(state, mbuf)
    /\ next_seg_id' = mbuf.new_id + 1
    /\ active_id' = mbuf.new_id
    /\ position' = 0
    /\ active_first_entry' = mbuf.new_first_entry
    /\ active_entry_count' = 0
    /\ rollover_pending' = FALSE
    /\ mbuf' = NoOp
    /\ Goto("append")
    /\ UNCHANGED <<segmentVars, buf, creating, last_valid, to_delete, fix_ups, approved,
                   result, index, last_entry_id, log, acked, faultVars>>

\* `held' are frames that were in the cursor's buffer before the batch
AppendAfter(held) ==
    /\ pc = "append"
    /\ LET file == disk[active_id]
           new == held \o buf
       IN  /\ SetSegment(active_id,
                         SegmentFile(WriteAt(file.frames, position, new), FALSE),
                         surv[active_id] \cup AppendOutcomes(file, position, new))
           /\ position' = CursorAfter(position, new)
    /\ last_entry_id' = Last(buf).id
    /\ active_entry_count' = active_entry_count + Len(buf)
    /\ rollover_pending' = (rollover_pending \/ position' > Trigger)
    /\ log' = log \cup Ids(buf)
    /\ buf' = <<>>
    /\ Goto("commit")
    /\ UNCHANGED <<manifestVars, mbuf, creating, last_valid, to_delete, fix_ups, approved,
                   result, state, index, active_id, active_first_entry, next_seg_id,
                   acked, faultVars>>

AppendFrames == AppendAfter(<<>>)

CommitSync ==
    /\ pc = "commit"
    /\ SyncSegment(active_id)
    /\ acked' = acked \cup (log \cap Ids(disk[active_id].frames))
    /\ Goto("idle")
    /\ UNCHANGED <<manifestVars, callVars, result, storeVars, log, faultVars>>

CommitDrop ==
    /\ pc = "commit" /\ "drop" \in Ops
    /\ Goto("idle")
    /\ UNCHANGED <<diskVars, callVars, result, storeVars, log, acked, faultVars>>

-----------------------------------------------------------------------------
(***************************************************************************)
(* The manifest step of rollover, truncate_start, truncate_end,            *)
(* delete_dead_segments and write_metadata: flush, then sync_all.          *)
(***************************************************************************)
Flush ==
    /\ pc = "flush" /\ mbuf.type # "CreateSegment"
    /\ AppendManifest(mbuf)
    /\ Goto("sync")
    /\ UNCHANGED <<segmentVars, callVars, result, storeVars, log, acked, faultVars>>

-----------------------------------------------------------------------------
(***************************************************************************)
(* truncate_start                                                          *)
(***************************************************************************)
\* Fault: a segment that ends at the new head is evicted.
Evicted_AtHead(st, first) ==
    {id \in DOMAIN st.seals \cap Live(st) : st.seals[id].last_entry <= first}

Evicted(st, first) == {id \in DOMAIN st.seals \cap Live(st) : st.seals[id].last_entry < first}

TruncateStart ==
    /\ pc = "idle" /\ "truncate_start" \in Ops
    /\ \E first \in state.first_entry..(MaxId + 1) :
        mbuf' = TruncateStartOp(first, Evicted(state, first),
                                [k \in {SnapshotKey} |-> first])
    /\ Goto("flush")
    /\ UNCHANGED <<diskVars, buf, creating, last_valid, to_delete, fix_ups, approved,
                   result, storeVars, log, acked, faultVars>>

SyncTruncateStart ==
    /\ pc = "sync" /\ mbuf.type = "TruncateStart"
    /\ SyncManifest
    /\ state' = Apply(state, mbuf)
    /\ index' = IndexTruncateStart(index, mbuf.first_entry)
    /\ log' = {x \in log : x >= mbuf.first_entry}
    /\ mbuf' = NoOp
    /\ Goto("idle")
    /\ UNCHANGED <<segmentVars, buf, creating, last_valid, to_delete, fix_ups, approved,
                   result, last_entry_id, next_seg_id, cursorVars, acked, faultVars>>

-----------------------------------------------------------------------------
(***************************************************************************)
(* truncate_end                                                            *)
(***************************************************************************)
\* Fault: a segment that starts at `last' is passed over.
IsTarget_Before(st, p, last) ==
    \/ /\ st.segments[p].first_entry < last
       /\ \A q \in DOMAIN st.segments : q > p => st.segments[q].first_entry >= last
    \/ /\ \A q \in DOMAIN st.segments : st.segments[q].first_entry >= last
       /\ \A q \in DOMAIN st.segments : q >= p

\* partition_point over the segments' first entries: the last segment that
\* starts at or before `last', or the first segment if there is none
IsTarget(st, p, last) ==
    \/ /\ st.segments[p].first_entry <= last
       /\ \A q \in DOMAIN st.segments : q > p => st.segments[q].first_entry > last
    \/ /\ \A q \in DOMAIN st.segments : st.segments[q].first_entry > last
       /\ \A q \in DOMAIN st.segments : q >= p

\* Fault: the target is dropped with the segments after it.
LaterSegments_AndTarget(st, p) ==
    {st.segments[q].id : q \in {q \in DOMAIN st.segments : q >= p}}

LaterSegments(st, p) ==
    {st.segments[q].id : q \in {q \in DOMAIN st.segments : q > p}}

\* Fault: the offset of the frame, not the one after it.
ScanToAfter_Before(frames, start, last) ==
    start + Min({i \in DOMAIN frames : frames[i].id = last}) - 1

\* FrameScanner::new keeps the offset it is given and reads from the start of
\* the file; scan_to_after counts on from that offset.
ScanToAfter(frames, start, last) ==
    start + Min({i \in DOMAIN frames : frames[i].id = last})

TruncateEnd ==
    /\ pc = "idle" /\ "truncate_end" \in Ops
    /\ \E last \in 1..(last_entry_id - 1), p \in DOMAIN state.segments :
        LET target == state.segments[p].id
            found == Find(index, last)
            start == IF found.segment = target THEN found.byte_offset ELSE 0
            frames == disk[target].frames
            file == SegmentFile(SetLen(frames, ScanToAfter(frames, start, last)), FALSE)
        IN  /\ IsTarget(state, p, last)
            /\ last \in Ids(frames)      \* otherwise the call returns an error
            /\ SetSegment(target, file, surv[target] \cup {file})
            /\ mbuf' = TruncateEndOp(target, LaterSegments(state, p))
            /\ last_valid' = last
            /\ acked' = {x \in acked : x <= last}
    /\ Goto("truncated")
    /\ UNCHANGED <<manifestVars, buf, creating, to_delete, fix_ups, approved, result,
                   storeVars, log, faultVars>>

SyncTruncated ==
    /\ pc = "truncated"
    /\ SyncSegment(mbuf.new_active_id)
    /\ Goto("flush")
    /\ UNCHANGED <<manifestVars, callVars, result, storeVars, log, acked, faultVars>>

SyncTruncateEnd ==
    /\ pc = "sync" /\ mbuf.type = "TruncateEnd"
    /\ SyncManifest
    /\ state' = Apply(state, mbuf)
    /\ active_id' = mbuf.new_active_id
    /\ position' = Len(disk[mbuf.new_active_id].frames)
    /\ last_entry_id' = last_valid
    /\ rollover_pending' = FALSE
    /\ index' = IndexTruncateEnd(index, last_valid)
    \* apply has removed the target's seal, so the manifest record is used
    /\ active_first_entry' = FirstOf(state', mbuf.new_active_id)
    /\ active_entry_count' = 0
    /\ log' = {x \in log : x <= last_valid}
    /\ mbuf' = NoOp
    /\ last_valid' = NoEntry
    /\ Goto("idle")
    /\ UNCHANGED <<segmentVars, buf, creating, to_delete, fix_ups, approved, result,
                   next_seg_id, acked, faultVars>>

-----------------------------------------------------------------------------
(***************************************************************************)
(* delete_dead_segments: per dead segment, remove the file, then record it *)
(***************************************************************************)
DeleteDeadSegments ==
    /\ pc = "idle" /\ "delete" \in Ops
    /\ state.dead # {}
    /\ to_delete' = state.dead
    /\ Goto("delete")
    /\ UNCHANGED <<diskVars, mbuf, buf, creating, last_valid, fix_ups, approved,
                   result, storeVars, log, acked, faultVars>>

RemoveFile ==
    /\ pc = "delete"
    /\ \E id \in to_delete :
        /\ SetSegment(id, AbsentFile, surv[id] \cup {AbsentFile})
        /\ mbuf' = SegmentDeletedOp(id)
        /\ to_delete' = to_delete \ {id}
    /\ Goto("flush")
    /\ UNCHANGED <<manifestVars, buf, creating, last_valid, fix_ups, approved,
                   result, storeVars, log, acked, faultVars>>

SyncDeleted ==
    /\ pc = "sync" /\ mbuf.type = "SegmentDeleted"
    /\ SyncManifest
    /\ state' = Apply(state, mbuf)
    /\ mbuf' = NoOp
    /\ Goto(IF to_delete = {} THEN "idle" ELSE "delete")
    /\ UNCHANGED <<segmentVars, buf, creating, last_valid, to_delete, fix_ups, approved,
                   result, index, last_entry_id, next_seg_id, cursorVars, log, acked, faultVars>>

-----------------------------------------------------------------------------
(***************************************************************************)
(* write_metadata: the caller stores a vote that only grows                *)
(***************************************************************************)
Vote(st) == IF VoteKey \in DOMAIN st.meta THEN st.meta[VoteKey] ELSE 0

WriteMetadata ==
    /\ pc = "idle" /\ "write_metadata" \in Ops
    /\ Vote(state) < MaxVote
    /\ mbuf' = MetadataOp([k \in {VoteKey} |-> Vote(state) + 1])
    /\ Goto("flush")
    /\ UNCHANGED <<diskVars, buf, creating, last_valid, to_delete, fix_ups, approved,
                   result, storeVars, log, acked, faultVars>>

SyncMetadata ==
    /\ pc = "sync" /\ mbuf.type = "Metadata"
    /\ SyncManifest
    /\ state' = Apply(state, mbuf)
    /\ mbuf' = NoOp
    /\ Goto("idle")
    /\ UNCHANGED <<segmentVars, buf, creating, last_valid, to_delete, fix_ups, approved,
                   result, index, last_entry_id, next_seg_id, cursorVars, log, acked, faultVars>>

-----------------------------------------------------------------------------
(***************************************************************************)
(* Failures.  The memory of the process is lost in both; a power loss also *)
(* settles what the disk holds.                                            *)
(***************************************************************************)
ForgetMemory ==
    /\ Goto("closed") /\ result' = "none"
    /\ mbuf' = NoOp /\ buf' = <<>> /\ creating' = 0 /\ last_valid' = NoEntry
    /\ to_delete' = {} /\ fix_ups' = {} /\ approved' = FALSE
    /\ state' = EmptyState /\ index' = <<>> /\ active_id' = NoSeg /\ position' = 0
    /\ active_first_entry' = 0 /\ active_entry_count' = 0
    /\ last_entry_id' = NoEntry /\ next_seg_id' = 0 /\ rollover_pending' = FALSE

PowerLoss ==
    /\ crashes < MaxCrash
    /\ crashes' = crashes + 1
    /\ \E m \in msurv : mdisk' = m /\ msurv' = {m}
    /\ disk' \in [SegIds -> UNION {surv[id] : id \in SegIds}]
    /\ \A id \in SegIds : disk'[id] \in surv[id]
    /\ surv' = [id \in SegIds |-> {disk'[id]}]
    /\ ForgetMemory
    /\ UNCHANGED <<log, acked, restarts, corrupts>>

\* the process ends, with the store closed or within a call; the page cache stays
Restart ==
    /\ restarts < MaxRestart
    /\ restarts' = restarts + 1
    /\ pc = "idle" \/ (KillMidCall /\ pc # "closed")
    /\ ForgetMemory
    /\ UNCHANGED <<diskVars, log, acked, crashes, corrupts>>

\* bit rot in a frame of a closed store; nothing is promised from there on
Corrupt ==
    /\ corrupts < MaxCorrupt /\ pc = "closed"
    /\ corrupts' = corrupts + 1
    /\ \E id \in SegIds : \E i \in DOMAIN disk[id].frames :
        /\ surv[id] = {disk[id]}
        /\ LET file == [disk[id] EXCEPT !.frames[i].ok = FALSE]
           IN  SetSegment(id, file, {file})
        /\ acked' = {x \in acked : x < disk[id].frames[i].id}
    /\ UNCHANGED <<manifestVars, pc, callVars, result, storeVars, log, crashes, restarts>>

-----------------------------------------------------------------------------
OpenSteps ==
    \/ CreateManifest \/ WriteManifestMagic \/ FlushCreate
    \/ OpenClean \/ OpenWithIssues \/ Recover
    \/ FixUp \/ SyncFixOp \/ FixedUp

CallSteps ==
    \/ CreateNew \/ WriteMagic \/ Flush
    \/ SyncRollover \/ AppendFrames \/ CommitSync
    \/ SyncTruncateStart \/ SyncTruncated \/ SyncTruncateEnd
    \/ RemoveFile \/ SyncDeleted \/ SyncMetadata

Calls ==
    \/ Write \/ CommitDrop \/ TruncateStart \/ TruncateEnd
    \/ DeleteDeadSegments \/ WriteMetadata

Failures == PowerLoss \/ Restart \/ Corrupt

Next == OpenSteps \/ CallSteps \/ Calls \/ Failures

Spec == Init /\ [][Next]_vars

\* A call that has begun runs to its end, and the operator who is asked to
\* opens the store and approves a recovery; calls and failures need not happen.
FairSpec ==
    /\ Spec
    /\ WF_vars(OpenSteps)
    /\ WF_vars(CallSteps)

-----------------------------------------------------------------------------
(***************************************************************************)
(* Reading: last_entry_id(), scan and StoreReader::next.  The reader       *)
(* starts in the segment of the checkpoint, skips the frames before `from' *)
(* there (from the start of the file: FrameScanner::new does not seek) and *)
(* then yields the following segments whole.                               *)
(***************************************************************************)
LastEntryId == IF last_entry_id < state.first_entry THEN NoEntry ELSE last_entry_id

ScanStart(from) ==
    LET found == Find(index, from)
    IN  IF found = NoPosition THEN SegmentIdsInOrder(state)[1] ELSE found.segment

Scan(requested) ==
    LET from == Max({requested, state.first_entry})
        start == ScanStart(from)
        order == SegmentIdsInOrder(state)
        at == {i \in DOMAIN order : order[i] = start}
        later == IF at = {} THEN <<>> ELSE SubSeq(order, Min(at) + 1, Len(order))
        ids(id) == [j \in DOMAIN disk[id].frames |-> disk[id].frames[j].id]
        seek(s) == LET ge == {j \in DOMAIN s : s[j] >= from}
                   IN  IF ge = {} THEN <<>> ELSE SubSeq(s, Min(ge), Len(s))
    IN  IF LastEntryId = NoEntry \/ from > LastEntryId THEN <<>>
        ELSE seek(ids(start)) \o FlattenSeq([i \in DOMAIN later |-> ids(later[i])])

-----------------------------------------------------------------------------
\* the process holds an open Store
Opened == pc \in {"idle", "append", "commit", "truncated", "delete", "sync"}
             \/ (pc \in {"create", "magic", "flush"} /\ mbuf # NoOp
                    /\ mbuf.type # "CreateSegment")
=============================================================================
