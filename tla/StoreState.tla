----------------------------- MODULE StoreState -----------------------------
(***************************************************************************)
(* The state machine behind the manifest (state.rs): a StoreState value    *)
(* and one operator per manifest operation.  The same operators serve the  *)
(* replay at open and the apply() calls of a running store.                *)
(*                                                                         *)
(* `segments' is a Vec that is only ever pushed to and retain()ed, so it   *)
(* is a partial function from positions to entries: push takes the         *)
(* position after the largest one, retain removes positions, and the order *)
(* of the Vec is the order of the positions.                               *)
(***************************************************************************)
EXTENDS Integers, FiniteSetsExt, Functions

NoSeg == 0      \* active_segment_id = None; segment ids start at 1
NoEntry == 0    \* Option<EntryId>::None; callers' entry ids start at 1

(***************************************************************************)
(* StoreState::empty and the queries.                                      *)
(***************************************************************************)
EmptyState ==
    [ segments          |-> <<>>,
      seals             |-> <<>>,
      active_segment_id |-> NoSeg,
      dead              |-> {},
      first_entry       |-> 0,
      meta              |-> <<>> ]

Live(st) == {st.segments[p].id : p \in DOMAIN st.segments}
IsEmpty(st) == DOMAIN st.segments = {}
IsSealed(st, id) == id \in DOMAIN st.seals

\* first_entry of a live segment, from its manifest record
FirstOf(st, id) ==
    (CHOOSE s \in Range(st.segments) : s.id = id).first_entry

(***************************************************************************)
(* Partial functions: HashMap/Vec updates.                                 *)
(***************************************************************************)
Insert(f, k, v) == [x \in DOMAIN f \cup {k} |-> IF x = k THEN v ELSE f[x]]
Override(f, g) ==
    [x \in DOMAIN f \cup DOMAIN g |-> IF x \in DOMAIN g THEN g[x] ELSE f[x]]
Without(f, S) == [x \in DOMAIN f \ S |-> f[x]]

Push(segs, e) ==
    Insert(segs, IF DOMAIN segs = {} THEN 1 ELSE Max(DOMAIN segs) + 1, e)
Retain(segs, drop) == Without(segs, {p \in DOMAIN segs : segs[p].id \in drop})

(***************************************************************************)
(* Manifest operations (Op, ManifestOp).  byte_offset of TruncateEnd is    *)
(* recorded and never read back, so the operation does not carry it.       *)
(***************************************************************************)
NoMeta == <<>>

CreateSegmentOp(id, first) ==
    [type |-> "CreateSegment", id |-> id, first_entry |-> first, meta |-> NoMeta]
RollSegmentOp(sealed, seal, new, newFirst) ==
    [type |-> "RollSegment", sealed_id |-> sealed, seal |-> seal,
     new_id |-> new, new_first_entry |-> newFirst, meta |-> NoMeta]
TruncateStartOp(first, drop, meta) ==
    [type |-> "TruncateStart", first_entry |-> first, drop |-> drop, meta |-> meta]
TruncateEndOp(target, drop) ==
    [type |-> "TruncateEnd", new_active_id |-> target, drop |-> drop, meta |-> NoMeta]
SegmentDeletedOp(id) == [type |-> "SegmentDeleted", id |-> id, meta |-> NoMeta]
RecordOrphanOp(id) == [type |-> "RecordOrphan", id |-> id, meta |-> NoMeta]
MetadataOp(pairs) == [type |-> "Metadata", meta |-> pairs]

(***************************************************************************)
(* apply(): which operations are accepted, and what each one does.         *)
(***************************************************************************)
ApplyOk(st, op) ==
    CASE op.type = "CreateSegment"  -> IsEmpty(st)
      [] op.type = "RollSegment"    -> st.active_segment_id = op.sealed_id
      [] op.type = "TruncateStart"  -> op.first_entry >= st.first_entry
      [] op.type = "TruncateEnd"    -> /\ op.drop \subseteq Live(st)
                                       /\ op.new_active_id \in Live(st)
      [] op.type = "SegmentDeleted" -> op.id \in st.dead
      [] OTHER                      -> TRUE

create_segment(st, op) ==
    [ segments |-> Push(st.segments, [id |-> op.id, first_entry |-> op.first_entry]),
      seals |-> st.seals, active_segment_id |-> op.id, dead |-> st.dead,
      first_entry |-> op.first_entry, meta |-> st.meta ]

roll_segment(st, op) ==
    [ segments |-> Push(st.segments, [id |-> op.new_id, first_entry |-> op.new_first_entry]),
      seals |-> Insert(st.seals, op.sealed_id, op.seal),
      active_segment_id |-> op.new_id, dead |-> st.dead,
      first_entry |-> st.first_entry, meta |-> st.meta ]

\* Fault: kill_segment leaves the seal behind.
kill_segments_KeepSeals(st, drop) ==
    [ segments |-> Retain(st.segments, drop),
      seals |-> st.seals, active_segment_id |-> st.active_segment_id,
      dead |-> st.dead \cup drop, first_entry |-> st.first_entry, meta |-> st.meta ]

\* kill_segment for every id of `drop'
kill_segments(st, drop) ==
    [ segments |-> Retain(st.segments, drop),
      seals |-> Without(st.seals, drop), active_segment_id |-> st.active_segment_id,
      dead |-> st.dead \cup drop, first_entry |-> st.first_entry, meta |-> st.meta ]

truncate_start(st, op) ==
    LET k == kill_segments(st, op.drop)
    IN  [ segments |-> k.segments, seals |-> k.seals,
          active_segment_id |-> k.active_segment_id, dead |-> k.dead,
          first_entry |-> op.first_entry, meta |-> k.meta ]

truncate_end(st, op) ==
    LET k == kill_segments(st, op.drop)
    IN  [ segments |-> k.segments, seals |-> Without(k.seals, {op.new_active_id}),
          active_segment_id |-> op.new_active_id, dead |-> k.dead,
          first_entry |-> k.first_entry, meta |-> k.meta ]

WithDead(st, dead) ==
    [ segments |-> st.segments, seals |-> st.seals,
      active_segment_id |-> st.active_segment_id, dead |-> dead,
      first_entry |-> st.first_entry, meta |-> st.meta ]

segment_deleted(st, op) == WithDead(st, st.dead \ {op.id})
record_orphan(st, op) == WithDead(st, st.dead \cup {op.id})

ApplyStructure(st, op) ==
    CASE op.type = "CreateSegment"  -> create_segment(st, op)
      [] op.type = "RollSegment"    -> roll_segment(st, op)
      [] op.type = "TruncateStart"  -> truncate_start(st, op)
      [] op.type = "TruncateEnd"    -> truncate_end(st, op)
      [] op.type = "SegmentDeleted" -> segment_deleted(st, op)
      [] op.type = "RecordOrphan"   -> record_orphan(st, op)
      [] op.type = "Metadata"       -> st

WithMeta(st, meta) ==
    [ segments |-> st.segments, seals |-> st.seals,
      active_segment_id |-> st.active_segment_id, dead |-> st.dead,
      first_entry |-> st.first_entry, meta |-> meta ]

\* Fault: the first write of a metadata key wins.
Apply_FirstWriteWins(st, op) ==
    WithMeta(ApplyStructure(st, op), Override(op.meta, ApplyStructure(st, op).meta))

Apply(st, op) ==
    WithMeta(ApplyStructure(st, op), Override(ApplyStructure(st, op).meta, op.meta))

(***************************************************************************)
(* What every replayed manifest satisfies once a segment exists.           *)
(***************************************************************************)
SegmentEntry == [id : Nat \ {0}, first_entry : Nat]
SealInfo == [first_entry : Nat, last_entry : Nat, entry_count : Nat, final_size : Nat]

StateShape(st) ==
    /\ st = [segments |-> st.segments, seals |-> st.seals,
             active_segment_id |-> st.active_segment_id, dead |-> st.dead,
             first_entry |-> st.first_entry, meta |-> st.meta]
    /\ st.segments = [p \in DOMAIN st.segments |-> st.segments[p]]
    /\ DOMAIN st.segments \subseteq Nat
    /\ \A p \in DOMAIN st.segments : st.segments[p].id \in Nat \ {0}
    /\ st.seals = [i \in DOMAIN st.seals |-> st.seals[i]]
    /\ st.dead \subseteq Nat \ {0}
    /\ st.first_entry \in Nat
    /\ st.meta = [k \in DOMAIN st.meta |-> st.meta[k]]

StateType(st) ==
    /\ StateShape(st)
    /\ Range(st.segments) \subseteq SegmentEntry
    /\ Range(st.seals) \subseteq SealInfo

\* No segment id is listed twice.
IdsUnique(st) ==
    \A p, q \in DOMAIN st.segments : st.segments[p].id = st.segments[q].id => p = q

\* The active segment is the last one of the Vec.
ActiveIsLast(st) ==
    \E p \in DOMAIN st.segments :
        /\ st.segments[p].id = st.active_segment_id
        /\ \A q \in DOMAIN st.segments : q <= p

\* Exactly the live segments other than the active one are sealed.
SealedIsRest(st) == DOMAIN st.seals = Live(st) \ {st.active_segment_id}

\* No segment is both live and dead.
DeadNotLive(st) == st.dead \cap Live(st) = {}

WellFormed(st) ==
    /\ StateShape(st)
    /\ IdsUnique(st)
    /\ ActiveIsLast(st)
    /\ SealedIsRest(st)
    /\ DeadNotLive(st)
=============================================================================
