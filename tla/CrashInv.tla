------------------------------ MODULE CrashInv ------------------------------
(***************************************************************************)
(* The inductive invariants behind what survives a power loss, for a       *)
(* caller that syncs every commit: CrashInv for SealsMatchFiles,           *)
(* OpensUnattended, AckedReadable, SegmentsHoldLog and LastEntryIsLast,    *)
(* LogInv for the refinement of the abstract log, OrderInv for             *)
(* SegmentsSorted and RollbackPossible, IndexHeld for ScanComplete.        *)
(***************************************************************************)
EXTENDS StoreInv

\* A caller that syncs what it writes and rolls nothing back, on a store that
\* was created before; a power loss cuts an unsynced manifest append at most in
\* its header, fsync of a new file also keeps its name, the process ends only
\* between calls, and no bit rots.
SyncingCaller ==
    /\ Ops \cap {"drop", "truncate_end"} = {}
    /\ Formatted /\ FsyncEntry /\ TornKinds \subseteq {"header"}
    /\ ~KillMidCall /\ MaxCorrupt = 0

\* What a power loss may leave of each segment file, or the page cache shows.
Outcomes == [id \in SegIds |-> surv[id] \cup {disk[id]}]

\* The entries are in the order of their ids.
Ascending(frames) == \A i, j \in DOMAIN frames : i < j => frames[i].id < frames[j].id

\* A file that is what a seal says of it, and not empty.
MatchesSeal(f, seal) ==
    /\ f.kind = "ok" /\ ~f.torn /\ f.frames # <<>>
    /\ Len(f.frames) = seal.final_size
    /\ Len(f.frames) = seal.entry_count
    /\ Last(f.frames).id = seal.last_entry

-----------------------------------------------------------------------------
(***************************************************************************)
(* A manifest state `st' and the outcomes `out' of the files.              *)
(***************************************************************************)
\* The sealed segments are what their seals say, and the active one is there.
FilesPresent(st, out) ==
    /\ \A id \in DOMAIN st.seals : \A f \in out[id] : MatchesSeal(f, st.seals[id])
    /\ \A f \in out[st.active_segment_id] : f.kind = "ok"

\* The entries of a segment come before those of the next.
SegmentsAscend(st, out) ==
    \A p, q \in DOMAIN st.segments : p < q =>
        \A f \in out[st.segments[p].id], g \in out[st.segments[q].id] :
            \A x \in Ids(f.frames), y \in Ids(g.frames) : x < y

\* Every entry of `ack' from the head on is in all outcomes of a live segment.
EntriesHeld(st, out, ack) ==
    \A x \in ack : x >= st.first_entry =>
        \E id \in Live(st) : \A f \in out[id] : x \in Ids(f.frames)

Durable(st, out, ack) ==
    FilesPresent(st, out) /\ SegmentsAscend(st, out) /\ EntriesHeld(st, out, ack)

-----------------------------------------------------------------------------
\* Every manifest can be opened, and only an append in flight is in doubt.
ManifestsDurable ==
    /\ \A m \in Manifests :
        m.kind = "ok" /\ m.tail \in {"clean", "header"} /\ m.st # EmptyState
    /\ pc \notin {"sync", "fixsync"} => msurv = {mdisk}

\* Only a rollover creates a file, and a recovery has exactly the issues that
\* the disk has left to fix.
ControlDurable ==
    /\ result = "none" /\ approved = FALSE /\ pc # "manifest_magic" /\ corrupts = 0
    /\ mbuf.type \notin {"CreateSegment", "TruncateEnd"}
    /\ pc \in {"create", "magic"} => mbuf.type = "RollSegment"
    /\ pc \in {"fix", "fixsync"} => fix_ups = scan(mdisk, disk)

\* No outcome holds a frame that is not ok or out of order.
FramesDurable ==
    \A id \in SegIds : \A f \in Outcomes[id] :
        (\A i \in DOMAIN f.frames : f.frames[i].ok) /\ Ascending(f.frames)

\* Whichever manifest and whichever files survive, they fit and hold what was
\* acknowledged.
StatesDurable == \A m \in Manifests : Durable(m.st, Outcomes, acked)

\* But for a commit in progress the active file is synced, and memory
\* describes it: a rollover seals what a power loss cannot change.
ActiveDurable ==
    /\ ~Opened => Outcomes[mdisk.st.active_segment_id] = {disk[mdisk.st.active_segment_id]}
    /\ Opened =>
        /\ disk[active_id].torn = FALSE
        /\ pc # "commit" => Outcomes[active_id] = {disk[active_id]}
        /\ active_entry_count = Len(disk[active_id].frames)
        /\ disk[active_id].frames # <<>> => last_entry_id = Last(disk[active_id].frames).id
        /\ rollover_pending => disk[active_id].frames # <<>>

\* What the operation and the batch in flight will do; up to its sync_all a
\* power loss may take the operation back.
CallDurable ==
    /\ pc = "sync" => \E m \in Manifests : m.st = state
    /\ mbuf.type = "RollSegment" =>
        /\ MatchesSeal(disk[active_id], mbuf.seal)
        /\ pc \in {"flush", "sync"} => Outcomes[next_seg_id] = {SegmentFile(<<>>, FALSE)}
    /\ mbuf.type = "TruncateStart" =>
        \A id \in mbuf.drop : state.seals[id].last_entry < mbuf.first_entry
    /\ (pc = "append" \/ mbuf.type = "RollSegment") =>
        /\ Ascending(buf)
        /\ buf[1].id > last_entry_id /\ buf[1].id >= state.first_entry

\* The log is what the live segments hold, and last_entry_id is its last one.
LogHeld ==
    Opened =>
        /\ log = LogIds(state, disk)
        /\ last_entry_id \in log \/ last_entry_id < state.first_entry \/ last_entry_id = NoEntry
        /\ \A id \in Live(state) : \A f \in Outcomes[id] :
            \A x \in Ids(f.frames) : x <= last_entry_id

\* A power loss at any moment leaves a store that opens and has lost nothing
\* that was acknowledged.
CrashInv ==
    /\ ManifestsDurable /\ ControlDurable /\ FramesDurable /\ StatesDurable
    /\ ActiveDurable /\ CallDurable /\ LogHeld
-----------------------------------------------------------------------------
\* The manifest before the operation in flight and the one after it are all
\* that a power loss may leave; those of a recovery differ in dead segments.
ManifestSettled ==
    /\ pc = "sync" => \A m \in Manifests : m.st \in {state, mdisk.st}
    /\ pc = "fixsync" => \A m \in Manifests :
        /\ m.st.segments = mdisk.st.segments
        /\ m.st.first_entry = mdisk.st.first_entry
        /\ Vote(m.st) = Vote(mdisk.st)

\* But for a commit in progress nothing that a live segment shows may be lost.
LiveSettled ==
    \A m \in Manifests : \A id \in Live(m.st) :
        Outcomes[id] = {disk[id]} \/ (pc = "commit" /\ id = active_id)

\* A commit in progress may lose a suffix of its batch.
CommitSettled ==
    pc = "commit" =>
        /\ last_entry_id >= state.first_entry /\ disk[active_id].frames # <<>>
        /\ \A f \in Outcomes[active_id] : \E n \in 0..Len(disk[active_id].frames) :
            /\ f.frames = SubSeq(disk[active_id].frames, 1, n)
            /\ n < Len(disk[active_id].frames) =>
                    disk[active_id].frames[n + 1].id >= state.first_entry

\* Of the operations only write_metadata writes the vote.
VoteSettled ==
    /\ mbuf.type = "TruncateStart" => VoteKey \notin DOMAIN mbuf.meta
    /\ mbuf.type = "Metadata" => VoteKey \in DOMAIN mbuf.meta

\* What a power loss leaves is the log, up to a suffix of the last batch.
LogInv ==
    /\ CrashInv /\ last_valid = NoEntry
    /\ ManifestSettled /\ LiveSettled /\ CommitSettled /\ VoteSettled

-----------------------------------------------------------------------------
\* The entries of a segment start at its first_entry and end before that of
\* any later segment, whichever outcome of the files survives.
SegmentsBounded(st, out) ==
    \A p \in DOMAIN st.segments : \A f \in out[st.segments[p].id] : \A x \in Ids(f.frames) :
        /\ st.segments[p].first_entry <= x
        /\ \A q \in DOMAIN st.segments : p < q => x < st.segments[q].first_entry

\* The next id of a caller that leaves no gap is in the active segment, should
\* that be empty: it starts at the head or right after a sealed segment.
ActiveInReach(st) ==
    \A p \in DOMAIN st.segments : st.segments[p].id = st.active_segment_id =>
        \/ st.segments[p].first_entry <= st.first_entry
        \/ \E id \in DOMAIN st.seals :
            st.segments[p].first_entry <= st.seals[id].last_entry + 1

\* Without a power loss only the first segment of all is ever empty.
ActiveFilled(st) ==
    \A p \in DOMAIN st.segments : st.segments[p].id = st.active_segment_id =>
        st.segments[p].first_entry = 0 \/ disk[st.active_segment_id].frames # <<>>

\* A batch starts at the active segment's first_entry or after it.
BatchBounded ==
    /\ mbuf.type = "RollSegment" => mbuf.new_first_entry = buf[1].id
    /\ pc = "append" => \A p \in DOMAIN state.segments :
        state.segments[p].id = active_id => state.segments[p].first_entry <= buf[1].id

\* With no gap, or without a power loss, the first entry of an empty active
\* segment is not beyond the next id.
ActiveBounded ==
    /\ MaxGap = 0 =>
        /\ \A m \in Manifests : ActiveInReach(m.st)
        /\ mbuf.type = "RollSegment" =>
            \/ mbuf.new_first_entry <= last_entry_id + 1
            \/ mbuf.new_first_entry <= state.first_entry
    /\ MaxCrash = 0 =>
        /\ crashes = 0
        /\ ~Opened => ActiveFilled(mdisk.st)
        /\ Opened /\ pc # "append" => ActiveFilled(state)

\* Ids and first entries ascend from segment to segment.
OrderInv ==
    /\ LogInv
    /\ \A m \in Manifests : SegmentsBounded(m.st, Outcomes)
    /\ BatchBounded /\ ActiveBounded

\* A caller that leaves a gap after a power loss has taken a batch may write
\* before the first entry of the segment that was made for it.
NoLostGap == MaxGap = 0 \/ MaxCrash = 0
-----------------------------------------------------------------------------
\* The index is in order, and its checkpoints are entries of live segments.
IndexHeld ==
    Opened =>
        /\ IndexOrdered(index)
        /\ \A i \in DOMAIN index : \A c \in DOMAIN index[i].checkpoints :
            /\ index[i].segment \in Live(state)
            /\ index[i].checkpoints[c].id \in Ids(disk[index[i].segment].frames)

=============================================================================
