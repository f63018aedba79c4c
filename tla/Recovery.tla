------------------------------ MODULE Recovery ------------------------------
(***************************************************************************)
(* The files of a store, the scan that Store::open makes of them (scan.rs, *)
(* with frame.rs's scan_all and manifest.rs's replay) and the plan that    *)
(* attempt_recovery makes of the issues found (recovery.rs).               *)
(*                                                                         *)
(* Sizes and offsets count frames after the magic: all frames have one     *)
(* size, MAGIC_LEN is 0, and a partial frame at the end of a file is its   *)
(* `torn' flag.                                                            *)
(***************************************************************************)
EXTENDS StoreState, EntryIndex, SequencesExt

CONSTANTS
    MaxSeg,     \* the largest segment id a store may use
    Stride      \* INDEX_STRIDE

ASSUME StrideAssumption == Stride \in Nat \ {0}
ASSUME MaxSegAssumption == MaxSeg \in Nat \ {0}

SegIds == 1..MaxSeg

(***************************************************************************)
(* Files.  "nomagic" is a segment file without complete magic, which       *)
(* check_magic refuses; "unreadable" is a manifest without it, or with a   *)
(* frame that replay refuses.                                              *)
(***************************************************************************)
Frame(id) == [id |-> id, ok |-> TRUE]
ZeroFrame == [id |-> 0, ok |-> FALSE]    \* what set_len past the end adds

SegmentFile(frames, torn) == [kind |-> "ok", frames |-> frames, torn |-> torn]
AbsentFile == [kind |-> "absent", frames |-> <<>>, torn |-> FALSE]
NoMagicFile == [kind |-> "nomagic", frames |-> <<>>, torn |-> FALSE]

\* tail: "clean", or a partial last frame cut in its "header" or in its
\* "payload", or one of full length whose bytes never reached the disk
ManifestFile(st, tail) == [kind |-> "ok", st |-> st, tail |-> tail]
AbsentManifest == [kind |-> "absent", st |-> EmptyState, tail |-> "clean"]
UnreadableManifest == [kind |-> "unreadable", st |-> EmptyState, tail |-> "clean"]

Ids(frames) == {frames[i].id : i \in DOMAIN frames}

\* File::set_len, in frames: cuts, or extends with zeros
SetLen(frames, n) ==
    [i \in 1..n |-> IF i <= Len(frames) THEN frames[i] ELSE ZeroFrame]

\* write_all_at: overwrites from `pos' on, after zeros if the file is shorter
WriteAt(frames, pos, new) ==
    SetLen(frames, pos) \o new \o SubSeq(frames, pos + Len(new) + 1, Len(frames))

(***************************************************************************)
(* FrameScanner::scan_all: the length of the clean prefix, the status and  *)
(* the checkpoints.                                                        *)
(***************************************************************************)
CleanLen(frames) ==
    LET bad == {i \in DOMAIN frames : ~frames[i].ok}
    IN  IF bad = {} THEN Len(frames) ELSE Min(bad) - 1

\* Fault: checksums are not looked at.
IsClean_TornOnly(file) == ~file.torn

IsClean(file) == CleanLen(file.frames) = Len(file.frames) /\ ~file.torn

Checkpoints(frames) ==
    [i \in 1..((CleanLen(frames) + Stride - 1) \div Stride) |->
        [id |-> frames[(i - 1) * Stride + 1].id, byte_offset |-> (i - 1) * Stride]]

(***************************************************************************)
(* scan_segment, find_orphans, find_missing_dead and scan: the issues.     *)
(***************************************************************************)
Issue(name, id, at) == [issue |-> name, id |-> id, at |-> at]

scan_segment(st, disk, id) ==
    LET file == disk[id]
        bad == CleanLen(file.frames)
    IN  IF IsSealed(st, id)
        THEN CASE file.kind = "absent" ->
                    {Issue("SealedSegmentMissing", id, 0)}
               [] file.kind = "nomagic" \/ file.torn
                    \/ Len(file.frames) # st.seals[id].final_size ->
                    {Issue("SealedSegmentSizeMismatch", id, 0)}
               [] bad < Len(file.frames) ->
                    {Issue("SealedSegmentChecksumCorrupt", id, bad)}
               [] OTHER -> {}
        ELSE CASE file.kind # "ok" -> {Issue("ActiveSegmentMissing", id, 0)}
               [] file.kind = "ok" /\ ~IsClean(file) ->
                    {Issue("ActiveSegmentTornTail", id, bad)}
               [] OTHER -> {}

OnDisk(disk) == {id \in SegIds : disk[id].kind # "absent"}

find_orphans(st, disk) ==
    {Issue("OrphanSegmentFound", id, 0) : id \in OnDisk(disk) \ (Live(st) \cup st.dead)}
find_missing_dead(st, disk) ==
    {Issue("DeadSegmentNotFound", id, 0) : id \in st.dead \ OnDisk(disk)}

ManifestTail(m) ==
    IF m.tail = "clean" THEN {} ELSE {Issue("ManifestTornTail", 0, 0)}

scan(m, disk) ==
    CASE m.kind = "absent"  -> {Issue("ManifestNotFound", 0, 0)}
      [] m.kind = "unreadable" -> {Issue("ManifestNotReadable", 0, 0)}
      [] m.kind = "ok" /\ m.tail = "zeros" -> {Issue("ManifestChecksumCorrupt", 0, 0)}
      \* the tail is reported, then replay's read_to_end fails on it
      [] m.kind = "ok" /\ m.tail = "payload" ->
            ManifestTail(m) \cup {Issue("ManifestNotReadable", 0, 0)}
      [] m.kind = "ok" /\ m.tail \in {"clean", "header"} /\ IsEmpty(m.st) ->
            ManifestTail(m) \cup {Issue("ManifestEmpty", 0, 0)}
      [] OTHER ->
            ManifestTail(m)
                \cup find_orphans(m.st, disk)
                \cup find_missing_dead(m.st, disk)
                \cup UNION {scan_segment(m.st, disk, id) : id \in Live(m.st)}

(***************************************************************************)
(* create_fix_up and attempt_recovery: which issues are fixed, in which    *)
(* phase, and whether the attempt stops before it changes anything.        *)
(***************************************************************************)
\* Faults: an issue without its fix-up.
AutoFixed_NoDead == {"OrphanSegmentFound", "ManifestTornTail", "ActiveSegmentTornTail"}
AutoFixed_NoOrphan == {"DeadSegmentNotFound", "ManifestTornTail", "ActiveSegmentTornTail"}
AutoFixed_NoTorn == {"DeadSegmentNotFound", "OrphanSegmentFound", "ManifestTornTail"}
NeedsApproval_NoMissing == {"SealedSegmentChecksumCorrupt"}

AutoFixed == {"DeadSegmentNotFound", "OrphanSegmentFound", "ManifestTornTail",
              "ActiveSegmentTornTail"}
NeedsApproval == {"ActiveSegmentMissing", "SealedSegmentChecksumCorrupt"}

FixUpPhase(issue) ==
    CASE issue.issue = "ManifestTornTail" -> 1
      [] issue.issue \in {"DeadSegmentNotFound", "OrphanSegmentFound"} -> 2
      [] OTHER -> 3

\* place of an issue in the report, as far as blocking issues go: one for
\* the manifest comes alone, the others in segment order
ReportOrder(st, issue) ==
    IF issue.id \in Live(st)
    THEN CHOOSE p \in DOMAIN st.segments : st.segments[p].id = issue.id
    ELSE 0

create_fix_up(st, issues, approved) ==
    LET blocking == {i \in issues : /\ i.issue \notin AutoFixed
                                    /\ ~(approved /\ i.issue \in NeedsApproval)}
        first == CHOOSE i \in blocking :
                    \A j \in blocking : ReportOrder(st, i) <= ReportOrder(st, j)
    IN  IF blocking = {} THEN "proceed"
        ELSE IF first.issue \in NeedsApproval THEN "ApprovalRequired"
        ELSE "NotPossible"

\* the fix-ups that sort_by(phase) may put next
NextFixUps(issues) ==
    {i \in issues : \A j \in issues : FixUpPhase(i) <= FixUpPhase(j)}

(***************************************************************************)
(* from_scan_report: what a store knows after a scan without issues.       *)
(***************************************************************************)
InOrder(st) ==    \* positions of the Vec
    CHOOSE order \in [1..Cardinality(DOMAIN st.segments) -> DOMAIN st.segments] :
        \A i, j \in DOMAIN order : i < j => order[i] < order[j]
SegmentIdsInOrder(st) == [i \in DOMAIN InOrder(st) |-> st.segments[InOrder(st)[i]].id]

\* index.add_segment for every segment report
BuildIndex(st, disk) ==
    [i \in DOMAIN SegmentIdsInOrder(st) |->
        LET id == SegmentIdsInOrder(st)[i]
        IN  [segment |-> id, checkpoints |-> Checkpoints(disk[id].frames)]]

\* Faults: the id after the last frame; no look at the seals.
ScannedLastEntry_Next(st, disk) ==
    LET frames == disk[st.active_segment_id].frames
    IN  IF frames # <<>> THEN Last(frames).id + 1 ELSE NoEntry
ScannedLastEntry_ActiveOnly(st, disk) ==
    LET frames == disk[st.active_segment_id].frames
    IN  IF frames # <<>> THEN Last(frames).id ELSE NoEntry

\* the active segment's last frame, or else the newest seal's last_entry
ScannedLastEntry(st, disk) ==
    LET frames == disk[st.active_segment_id].frames
        sealed == {p \in DOMAIN st.segments : IsSealed(st, st.segments[p].id)}
    IN  IF frames # <<>> THEN Last(frames).id
        ELSE IF sealed = {} THEN NoEntry
        ELSE st.seals[st.segments[Max(sealed)].id].last_entry

\* Fault: dead segments do not fence their ids.
ScannedNextSegId_LiveOnly(st) == Max(Live(st)) + 1

ScannedNextSegId(st) == Max(Live(st) \cup st.dead) + 1
=============================================================================
