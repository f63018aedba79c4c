----------------------------- MODULE StoreProps -----------------------------
(***************************************************************************)
(* What a store promises.  The runs check these properties on small        *)
(* instances; the proof modules establish most of them for all instances.  *)
(***************************************************************************)
EXTENDS Store

Manifests == msurv \cup {mdisk}

\* The type of every variable.
TypeOK ==
    /\ \A m \in Manifests :
        /\ m.kind \in {"ok", "absent", "unreadable"}
        /\ m.tail \in {"clean"} \cup TornKinds
        /\ StateType(m.st)
    /\ \A id \in SegIds : \A f \in surv[id] \cup {disk[id]} :
        /\ f.kind \in {"ok", "absent", "nomagic"}
        /\ f.torn \in BOOLEAN
        /\ \A i \in DOMAIN f.frames : f.frames[i].id \in 0..MaxId
    /\ StateType(state)
    /\ active_id \in SegIds \cup {NoSeg}
    /\ position \in Nat /\ next_seg_id \in Nat
    /\ last_entry_id \in 0..MaxId
    /\ log \subseteq 1..MaxId /\ acked \subseteq 1..MaxId

-----------------------------------------------------------------------------
(***************************************************************************)
(* The manifest and the memory of the store.                               *)
(***************************************************************************)
\* Every manifest that a failure may leave replays to a well-formed state.
ManifestsWellFormed ==
    \A m \in Manifests : m.st = EmptyState \/ WellFormed(m.st)

\* Memory agrees with the manifest in the page cache: with the operation in
\* flight applied between flush and sync_all, as it stands otherwise.
MemoryFollowsManifest ==
    Opened => /\ mdisk.st = IF pc = "sync" THEN Apply(state, mbuf) ELSE state
              /\ active_id = state.active_segment_id

\* next_seg_id is beyond every segment the manifest knows of.
SegmentIdsFenced ==
    Opened => \A id \in Live(state) \cup state.dead : id < next_seg_id

\* No expect() on apply() fails, in the store and in a later replay: the
\* manifest accepts the operation about to be flushed, also by a fix-up.
NoPanic ==
    /\ pc = "flush" => ApplyOk(mdisk.st, mbuf)
    /\ pc = "sync" => ApplyOk(state, mbuf)
    /\ \A fix \in fix_ups : fix.issue = "DeadSegmentNotFound" =>
            ApplyOk(mdisk.st, SegmentDeletedOp(fix.id))

\* A rollover never meets a file of the new segment's name.
RolloverFileIsNew ==
    pc = "create" => disk[creating].kind = "absent"

\* The write cursor is at the end of the active segment, so a write neither
\* overwrites frames nor leaves a hole.
CursorAtEnd ==
    (Opened /\ pc \notin {"truncated", "sync", "flush"}) =>
        position = Len(disk[active_id].frames)

-----------------------------------------------------------------------------
(***************************************************************************)
(* Crash safety.                                                           *)
(***************************************************************************)
\* Whichever manifest and whichever file contents survive a power loss, every
\* sealed segment has the size, the count and the last entry its seal records.
SealsMatchFiles ==
    \A m \in Manifests : \A id \in DOMAIN m.st.seals : \A f \in surv[id] \cup {disk[id]} :
        /\ f.kind = "ok" /\ IsClean(f)
        /\ Len(f.frames) = m.st.seals[id].final_size
        /\ Len(f.frames) = m.st.seals[id].entry_count
        /\ Last(f.frames).id = m.st.seals[id].last_entry

\* A store that lost nothing but unsynced writes opens without approval and is
\* never refused.  Bit rot is more than that (CutsNeedApproval).
OpensUnattended == corrupts = 0 => result = "none"

\* The store is never refused for good; approval may be asked for.
NeverRefused == result \notin {"NotPossible", "RecoveryFailed"}

\* What no recovery repairs once directory entries are lost: the file of a
\* sealed segment has no name any more, or the active segment was recreated and
\* a failure came before its magic.
Unrepairable ==
    \E id \in Live(mdisk.st) :
        disk[id].kind = IF IsSealed(mdisk.st, id) THEN "absent" ELSE "nomagic"

\* A store that is refused for good is in one of those two states: any other
\* lost name is made good by recovery, approved where entries are lost.
RefusedOnlyUnrepairable == ~NeverRefused => Unrepairable

\* Intact frames are cut off only with approval: recovery cuts a segment at its
\* first bad frame, which may have intact ones behind it.
CutsNeedApproval ==
    pc = "fix" => \A fix \in fix_ups :
        (/\ fix.issue \in {"ActiveSegmentTornTail", "SealedSegmentChecksumCorrupt"}
         /\ \E i \in DOMAIN disk[fix.id].frames : i > fix.at /\ disk[fix.id].frames[i].ok)
        => approved

\* An entry whose Commit::sync returned is readable whenever the store is
\* open, unless the caller truncated it away or it rotted.
AckedReadable ==
    pc = "idle" =>
        \A x \in acked : x >= state.first_entry => x \in LogIds(state, disk)

\* The metadata given to truncate_start is durable exactly when the new head is.
SnapshotAtomic ==
    \A m \in Manifests : m.st.first_entry > 0 =>
        SnapshotKey \in DOMAIN m.st.meta /\ m.st.meta[SnapshotKey] = m.st.first_entry

-----------------------------------------------------------------------------
(***************************************************************************)
(* Reading.                                                                *)
(***************************************************************************)
\* last_entry_id() is the largest readable entry, None if there is none.
LastEntryIsLast ==
    pc = "idle" => LastEntryId = IF log = {} THEN NoEntry ELSE Max(log)

\* What the segments hold is the log the caller wrote: no entry is missing
\* and none that was truncated away is left.
SegmentsHoldLog ==
    pc = "idle" => LogIds(state, disk) = log

\* A scan from any id yields all entries from that id on, in ascending order.
ScanComplete ==
    pc = "idle" => \A from \in 0..MaxId :
        LET found == Scan(from)
        IN  /\ \A i, j \in DOMAIN found : i < j => found[i] < found[j]
            /\ {x \in ToSet(found) : x >= from /\ x >= state.first_entry}
                    = {x \in log : x >= from}

\* A scan yields nothing before the id it was asked for.
ScanFromOnly ==
    pc = "idle" => \A from \in 0..MaxId : \A x \in ToSet(Scan(from)) : x >= from

\* The caller can roll back to any entry it can read.
RollbackPossible ==
    pc = "idle" => \A x \in log :
        \E p \in DOMAIN state.segments :
            /\ IsTarget(state, p, x)
            /\ x \in Ids(disk[state.segments[p].id].frames)

\* The segments are in the order of their first entries, which the binary
\* searches of truncate_end and of the index rely on.
SegmentsSorted ==
    Opened => \A p, q \in DOMAIN state.segments :
        p < q => state.segments[p].first_entry < state.segments[q].first_entry

-----------------------------------------------------------------------------
(***************************************************************************)
(* Bit rot.                                                                *)
(***************************************************************************)
\* An open store holds no frame whose checksum does not match.
NoCorruptFrameServed ==
    pc = "idle" => \A id \in Live(state) :
        \A i \in DOMAIN disk[id].frames : disk[id].frames[i].ok

-----------------------------------------------------------------------------
\* Whatever fails, the store comes back to serving calls.
ServesAgain == []<>(pc = "idle")

\* The same where directory entries may be lost, unless the store ends in a
\* state that no recovery repairs.
ServesUnlessUnrepairable == ServesAgain \/ <>[]Unrepairable
=============================================================================
