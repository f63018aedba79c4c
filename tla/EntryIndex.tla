----------------------------- MODULE EntryIndex -----------------------------
(***************************************************************************)
(* The in-memory index built when a store is opened (index.rs): for each   *)
(* segment, in order, the checkpoints (id, byte_offset) its scan recorded. *)
(* An EntryIndex is a sequence of [segment, checkpoints] records.          *)
(***************************************************************************)
EXTENDS Integers, Sequences

(***************************************************************************)
(* slice::partition_point over positions 1..n, `holds' being the positions *)
(* where the predicate is true: the standard library's binary search.  On  *)
(* a partitioned slice it is the number of positions in `holds'; the index *)
(* also applies it to a list whose first element has lost its checkpoints. *)
(***************************************************************************)
PartitionPoint(holds, n) ==
    LET search[size \in 0..n] ==
            [base \in Nat |->
                IF size <= 1 THEN IF base + 1 \in holds THEN base + 1 ELSE base
                ELSE LET half == size \div 2
                     IN  IF base + half + 1 \in holds
                         THEN search[size - half][base + half]
                         ELSE search[size - half][base]]
    IN  IF n = 0 THEN 0 ELSE search[n][0]

\* first_id().is_some_and(|id| id <= target), as positions of the index
CoveringSegments(index, target) ==
    {i \in DOMAIN index : /\ index[i].checkpoints # <<>>
                          /\ index[i].checkpoints[1].id <= target}

\* the same for the checkpoints of one segment
CheckpointsUpTo(cps, target) == {i \in DOMAIN cps : cps[i].id <= target}

SegmentCount(index, target) ==
    PartitionPoint(CoveringSegments(index, target), Len(index))

\* SegmentIndex and its checkpoints
Checkpoint == [id : Nat, byte_offset : Nat]
SegmentIndex == [segment : Nat, checkpoints : Seq(Checkpoint)]

NoPosition == [segment |-> 0, byte_offset |-> 0]

\* EntryIndex::find, with SegmentIndex::find inlined
Find(index, target) ==
    LET pos == SegmentCount(index, target)
    IN  IF pos = 0 THEN NoPosition
        ELSE LET cps == index[pos].checkpoints
                 cp == PartitionPoint(CheckpointsUpTo(cps, target), Len(cps))
             IN  IF cp = 0 THEN NoPosition
                 ELSE [segment |-> index[pos].segment, byte_offset |-> cps[cp].byte_offset]

\* Fault: truncate_start leaves the index alone.
IndexTruncateStart_Skipped(index, first) == index

\* EntryIndex::truncate_start, with SegmentIndex::truncate_start inlined
IndexTruncateStart(index, first) ==
    LET pos == SegmentCount(index, first)
    IN  IF pos = 0 THEN index
        ELSE LET cps == index[pos].checkpoints
                 n == PartitionPoint(CheckpointsUpTo(cps, first - 1), Len(cps))
             IN  <<[index[pos] EXCEPT !.checkpoints = SubSeq(@, n + 1, Len(@))]>>
                     \o SubSeq(index, pos + 1, Len(index))

\* EntryIndex::truncate_end, with SegmentIndex::truncate_end inlined
IndexTruncateEnd(index, last) ==
    LET pos == SegmentCount(index, last)
    IN  IF pos = 0 THEN <<>>
        ELSE LET cps == index[pos].checkpoints
                 keep == PartitionPoint(CheckpointsUpTo(cps, last), Len(cps))
             IN  Append(SubSeq(index, 1, pos - 1),
                        [index[pos] EXCEPT !.checkpoints = SubSeq(@, 1, keep)])

-----------------------------------------------------------------------------
\* What the searches rely on.  After truncate_start the first segment may have
\* lost its checkpoints, and the active one has none if it is empty.
IndexOrdered(index) ==
    /\ \A i \in DOMAIN index : \A c, d \in DOMAIN index[i].checkpoints :
        c < d => index[i].checkpoints[c].id < index[i].checkpoints[d].id
    /\ \A i, j \in DOMAIN index : i < j =>
        \A c \in DOMAIN index[i].checkpoints, d \in DOMAIN index[j].checkpoints :
            index[i].checkpoints[c].id < index[j].checkpoints[d].id
    /\ \A i \in DOMAIN index : index[i].checkpoints = <<>> => i = 1 \/ i = Len(index)
=============================================================================
