----------------------------- MODULE ManifestLog ----------------------------
(***************************************************************************)
(* The manifest as a file: operations encoded to fields (state.rs), framed *)
(* (manifest.rs, frame.rs), and read back by the first two phases of a     *)
(* scan (scan.rs): an integrity pass with checksums, then a replay that    *)
(* decodes and applies without them.                                       *)
(*                                                                         *)
(* yatlv is external: a frame of it is a sequence of fields, a field one   *)
(* cell with a tag and a value, a sub-frame one cell with its two values.  *)
(***************************************************************************)
EXTENDS Frames

CONSTANTS
    MaxOps,      \* operations in the manifest
    MaxEntryId,  \* largest entry id they carry
    MetaPairs    \* the metadata a call may pass: sequences of <<key, value>>

ASSUME ManifestBoundsAssumption == MaxOps \in Nat /\ MaxEntryId \in Nat

-----------------------------------------------------------------------------
(***************************************************************************)
(* ManifestOp::encode and decode.                                          *)
(***************************************************************************)
OpTypes == <<"CreateSegment", "RollSegment", "TruncateStart", "TruncateEnd",
             "SegmentDeleted", "RecordOrphan", "Metadata">>
OpCode(type) == CHOOSE c \in DOMAIN OpTypes : OpTypes[c] = type

\* apply() does not use a TruncateEnd's byte_offset, and it is kept at 0 here
Field(tag, value) == <<3, tag, value>>
DropFields(drop) == [i \in 1..Cardinality(drop) |->
                        Field("DROP_ID", SetToSortSeq(drop, <)[i])]

OpFields(op) ==
    CASE op.type = "CreateSegment" ->
            <<Field("SEGMENT_ID", op.id), Field("FIRST_ENTRY", op.first_entry)>>
      [] op.type = "RollSegment" ->
            << Field("SEGMENT_ID", op.sealed_id),
               Field("FIRST_ENTRY", op.seal.first_entry),
               Field("LAST_ENTRY", op.seal.last_entry),
               Field("ENTRY_COUNT", op.seal.entry_count),
               Field("FINAL_SIZE", op.seal.final_size),
               Field("NEW_SEGMENT_ID", op.new_id),
               Field("NEW_FIRST_ENTRY", op.new_first_entry) >>
      [] op.type = "TruncateStart" ->
            <<Field("FIRST_ENTRY", op.first_entry)>> \o DropFields(op.drop)
      [] op.type = "TruncateEnd" ->
            <<Field("NEW_SEGMENT_ID", op.new_active_id), Field("BYTE_OFFSET", 0)>>
                \o DropFields(op.drop)
      [] op.type \in {"SegmentDeleted", "RecordOrphan"} -> <<Field("SEGMENT_ID", op.id)>>
      [] OTHER -> <<>>

encode(op, meta) ==
    <<Field("OP_TYPE", OpCode(op.type))>> \o OpFields(op)
        \o [i \in DOMAIN meta |-> Field("META", meta[i])]

Values(fields, tag) ==
    LET of == SelectSeq(fields, LAMBDA f : f[1] = 3 /\ f[2] = tag)
    IN  [i \in DOMAIN of |-> of[i][3]]
Has(fields, tags) == \A tag \in tags : Values(fields, tag) # <<>>
Get(fields, tag) == Values(fields, tag)[1]

Required(type) ==
    CASE type = "CreateSegment" -> {"SEGMENT_ID", "FIRST_ENTRY"}
      [] type = "RollSegment" -> {"SEGMENT_ID", "FIRST_ENTRY", "LAST_ENTRY",
                                  "ENTRY_COUNT", "FINAL_SIZE", "NEW_SEGMENT_ID",
                                  "NEW_FIRST_ENTRY"}
      [] type = "TruncateStart" -> {"FIRST_ENTRY"}
      [] type = "TruncateEnd" -> {"NEW_SEGMENT_ID", "BYTE_OFFSET"}
      [] type \in {"SegmentDeleted", "RecordOrphan"} -> {"SEGMENT_ID"}
      [] OTHER -> {}

\* a frame without an op type, of an unknown one, or short of a field
Decodable(fields) ==
    /\ Has(fields, {"OP_TYPE"})
    /\ Get(fields, "OP_TYPE") \in DOMAIN OpTypes
    /\ Has(fields, Required(OpTypes[Get(fields, "OP_TYPE")]))

\* the pairs are upserted in order by apply()
MetaOf(pairs) ==
    FoldLeft(LAMBDA m, pair : Insert(m, pair[1], pair[2]), NoMeta, pairs)

\* Fault: one drop id is read back.
DropIds_First(fields) == {Values(fields, "DROP_ID")[i] :
                            i \in 1..Min({1, Len(Values(fields, "DROP_ID"))})}

DropIds(fields) == ToSet(Values(fields, "DROP_ID"))

decode(fields) ==
    LET type == OpTypes[Get(fields, "OP_TYPE")]
        get(tag) == Get(fields, tag)
        op == CASE type = "CreateSegment" ->
                    CreateSegmentOp(get("SEGMENT_ID"), get("FIRST_ENTRY"))
                [] type = "RollSegment" ->
                    RollSegmentOp(get("SEGMENT_ID"),
                        [ first_entry |-> get("FIRST_ENTRY"), last_entry |-> get("LAST_ENTRY"),
                          entry_count |-> get("ENTRY_COUNT"), final_size |-> get("FINAL_SIZE") ],
                        get("NEW_SEGMENT_ID"), get("NEW_FIRST_ENTRY"))
                [] type = "TruncateStart" ->
                    TruncateStartOp(get("FIRST_ENTRY"), DropIds(fields), NoMeta)
                [] type = "TruncateEnd" ->
                    TruncateEndOp(get("NEW_SEGMENT_ID"), DropIds(fields))
                [] type = "SegmentDeleted" -> SegmentDeletedOp(get("SEGMENT_ID"))
                [] type = "RecordOrphan" -> RecordOrphanOp(get("SEGMENT_ID"))
                [] type = "Metadata" -> MetadataOp(NoMeta)
    IN  [op EXCEPT !.meta = MetaOf(Values(fields, "META"))]

-----------------------------------------------------------------------------
(***************************************************************************)
(* manifest::replay and the manifest part of scan::scan.                   *)
(***************************************************************************)
\* the frames that read() finds, checksums unseen, and how it ends
ReadFrames(cells) ==
    LET readFrom[pos \in 0..Len(cells)] ==
            CASE PeekHeader(cells, pos) # "header" -> [starts |-> <<>>, end |-> "eof"]
              [] PeekHeader(cells, pos) = "header" /\ EndsEarly(cells, pos) ->
                    [starts |-> <<>>, end |-> "io"]
              [] OTHER -> [readFrom[FrameEnd(cells, pos)] EXCEPT !.starts = <<pos>> \o @]
    IN  readFrom[0]

ReplayFrame(cells, acc, pos) ==
    LET fields == PayloadAt(cells, pos)
    IN  IF acc.result # "ok" THEN acc
        ELSE IF Decodable(fields) /\ ApplyOk(acc.st, decode(fields))
        THEN [result |-> "ok", st |-> Apply(acc.st, decode(fields)),
              next_offset |-> FrameEnd(cells, pos)]
        ELSE [acc EXCEPT !.result = "invalid"]

\* Fault: read_to_end's error is taken for the end of the file.
Unread_Ignored(frames) == FALSE

Unread(frames) == frames.end = "io"

\* the state, and the offset the next operation is written at
replay(cells) ==
    LET frames == ReadFrames(cells)
        last == FoldLeft(LAMBDA acc, pos : ReplayFrame(cells, acc, pos),
                         [result |-> "ok", st |-> EmptyState, next_offset |-> 0],
                         frames.starts)
    IN  IF last.result = "ok" /\ Unread(frames) THEN [last EXCEPT !.result = "io"] ELSE last

ManifestIssues(cells) ==
    LET status == scan_all(cells, 1).status
        r == replay(cells)
        torn == IF status = "TornTail" THEN {"ManifestTornTail"} ELSE {}
    IN  CASE status = "ChecksumCorrupt" -> {"ManifestChecksumCorrupt"}
          [] status # "ChecksumCorrupt" /\ r.result = "invalid" ->
                torn \cup {"ManifestChecksumCorrupt"}
          [] status # "ChecksumCorrupt" /\ r.result = "io" -> torn \cup {"ManifestNotReadable"}
          [] OTHER -> torn \cup (IF IsEmpty(r.st) THEN {"ManifestEmpty"} ELSE {})

-----------------------------------------------------------------------------
(***************************************************************************)
(* A manifest is written, and then cut by a power loss or damaged.         *)
(***************************************************************************)
VARIABLES
    mcells,     \* the file
    history,    \* after each operation: the state in memory, the cursor's position
    mtail       \* what happened to the file: "clean", how it was cut, or "damaged"

logVars == <<mcells, history, mtail>>

After(n) == IF n = 0 THEN [st |-> EmptyState, end |-> 0] ELSE history[n]
Now == After(Len(history))

LInit == mcells = <<>> /\ history = <<>> /\ mtail = "clean"

\* the operations a store or a recovery may append in state `st'
PossibleOps(st) ==
    IF IsEmpty(st) THEN {CreateSegmentOp(1, 0)}
    ELSE LET first == FirstOf(st, st.active_segment_id)
             known == Live(st) \cup st.dead
         IN  {RollSegmentOp(st.active_segment_id,
                 [first_entry |-> first, last_entry |-> next - 1,
                  entry_count |-> next - first, final_size |-> 4 * (next - first)],
                 Max(known) + 1, next) :
                 next \in {n \in (first + 1)..MaxEntryId : Max(known) < MaxSeg}}
             \cup {TruncateStartOp(head,
                     {id \in DOMAIN st.seals : st.seals[id].last_entry < head}, NoMeta) :
                     head \in st.first_entry..MaxEntryId}
             \cup {TruncateEndOp(st.segments[p].id,
                     {st.segments[q].id : q \in {q \in DOMAIN st.segments : q > p}}) :
                     p \in DOMAIN st.segments}
             \cup {SegmentDeletedOp(id) : id \in st.dead}
             \cup {RecordOrphanOp(id) : id \in SegIds \ known}
             \cup {MetadataOp(NoMeta)}

\* ManifestOp::bare, or with_meta
MetaFor(op) == IF op.type \in {"TruncateStart", "Metadata"} THEN MetaPairs ELSE {<<>>}

\* write_op: encode, frame, flush at the cursor's position
WriteOp ==
    /\ mtail = "clean" /\ Len(history) < MaxOps
    /\ \E op \in PossibleOps(Now.st) : \E meta \in MetaFor(op) :
        /\ mcells' = mcells \o EncodeFrame(0, encode(op, meta))
        /\ history' = Append(history,
                [st  |-> Apply(Now.st, [op EXCEPT !.meta = MetaOf(meta)]),
                 end |-> Len(mcells')])
    /\ UNCHANGED mtail

\* a power loss before the sync_all of the last operation
CutLast ==
    /\ mtail = "clean" /\ history # <<>>
    /\ LET start == After(Len(history) - 1).end
       IN  \/ \E n \in start..(Len(mcells) - 1) :
                /\ mcells' = SubSeq(mcells, 1, n)
                /\ mtail' = CASE n = start -> "none"
                              [] n > start /\ n < start + HeaderLen -> "header"
                              [] OTHER -> "payload"
          \/ /\ mcells' = [i \in DOMAIN mcells |-> IF i > start THEN Num(0) ELSE mcells[i]]
             /\ mtail' = "zeros"
    /\ UNCHANGED history

Damage ==
    /\ mtail = "clean" /\ history # <<>>
    /\ mcells' \in Flips(mcells)
    /\ mtail' = "damaged"
    /\ UNCHANGED history

LNext == WriteOp \/ CutLast \/ Damage

LSpec == LInit /\ [][LNext]_logVars

-----------------------------------------------------------------------------
(***************************************************************************)
(* Properties.                                                             *)
(***************************************************************************)
\* the manifest in the terms of Recovery
WholeOps == IF mtail = "clean" THEN Len(history) ELSE Len(history) - 1
AsManifest ==
    ManifestFile(After(WholeOps).st, IF mtail = "none" THEN "clean" ELSE mtail)
NoFiles == [id \in SegIds |-> AbsentFile]
ManifestIssueNames == {"ManifestTornTail", "ManifestChecksumCorrupt",
                       "ManifestNotReadable", "ManifestEmpty"}

\* Whatever was written and wherever it was cut, the scan reports what
\* Recovery says of the whole frames and the tail, replay restores the state
\* that the store had in memory after them, and the next operation is written
\* right behind them.
ManifestAgrees ==
    mtail # "damaged" =>
        /\ ManifestIssues(mcells)
            = {i.issue : i \in scan(AsManifest, NoFiles)} \cap ManifestIssueNames
        /\ mtail # "zeros" =>
            /\ replay(mcells).st = AsManifest.st
            /\ replay(mcells).next_offset = After(WholeOps).end

\* No single damaged cell is repaired away: a length that points beyond the
\* end looks like a torn tail to the checksum pass, and cutting there would
\* drop operations that were durable, but replay then fails and open refuses.
DamageRefused ==
    mtail = "damaged" =>
        ManifestIssues(mcells) \ (AutoFixed \cup NeedsApproval) # {}
=============================================================================
