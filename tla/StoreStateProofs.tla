-------------------------- MODULE StoreStateProofs --------------------------
(***************************************************************************)
(* What the operators of StoreState do to a well-formed state.             *)
(***************************************************************************)
EXTENDS StoreState, TLAPS

\* CHOOSE picks the one element that bounds its set.
LEMMA MaxIs ==
    ASSUME NEW S, S \subseteq Int, NEW m \in S, \A y \in S : y <= m
    PROVE  Max(S) = m
<1>1. m \in S /\ \A y \in S : m >= y
    OBVIOUS
<1>2. Max(S) \in S /\ \A y \in S : Max(S) >= y
    BY <1>1, Zenon DEF Max
<1>3. Max(S) \in Int /\ m \in Int /\ Max(S) <= m /\ Max(S) >= m
    BY <1>1, <1>2
<1> QED
    BY <1>3

-----------------------------------------------------------------------------
\* RollSegment of the active segment to a segment id the state does not know:
\* the result is well formed, with the new id live and active.
LEMMA RollSegmentWF ==
    ASSUME NEW st, WellFormed(st), NEW op,
           op.sealed_id = st.active_segment_id,
           op.new_id \in Nat \ {0}, op.new_id \notin Live(st), op.new_id \notin st.dead
    PROVE  LET s == roll_segment(st, op)
           IN  /\ WellFormed(s)
               /\ Live(s) = Live(st) \cup {op.new_id}
               /\ s.dead = st.dead
               /\ s.active_segment_id = op.new_id
<1> DEFINE s == roll_segment(st, op)
           new == op.new_id
           first == op.new_first_entry
           seal == op.seal
           e == [id |-> new, first_entry |-> first]
<1>1. PICK m \in DOMAIN st.segments :
            /\ st.segments[m].id = st.active_segment_id
            /\ \A q \in DOMAIN st.segments : q <= m
    BY DEF WellFormed, ActiveIsLast
<1>2. DOMAIN st.segments \subseteq Nat /\ m \in Nat
    BY DEF WellFormed, StateShape
<1>3. /\ DOMAIN Push(st.segments, e) = DOMAIN st.segments \cup {m + 1}
      /\ Push(st.segments, e) = [p \in DOMAIN st.segments \cup {m + 1} |->
                                    IF p = m + 1 THEN e ELSE st.segments[p]]
    <2>1. Max(DOMAIN st.segments) = m
        BY <1>1, <1>2, MaxIs
    <2> QED
        BY <2>1 DEF Push, Insert
<1>4. s = [segments |-> Push(st.segments, e),
           seals |-> Insert(st.seals, st.active_segment_id, seal),
           active_segment_id |-> new, dead |-> st.dead,
           first_entry |-> st.first_entry, meta |-> st.meta]
    BY DEF roll_segment
<1>n. new \in Nat \ {0} /\ new \notin Live(st) /\ new \notin st.dead
    OBVIOUS
<1> HIDE DEF s, new
<1>5. m + 1 \notin DOMAIN st.segments
    BY <1>1, <1>2
<1>6. Live(s) = Live(st) \cup {new}
    BY <1>3, <1>4, <1>5 DEF Live
<1>7. StateShape(s)
    <2>1. \A p \in DOMAIN s.segments : s.segments[p].id \in Nat \ {0}
        BY <1>3, <1>4, <1>n DEF WellFormed, StateShape
    <2>2. DOMAIN s.segments \subseteq Nat
        BY <1>2, <1>3, <1>4
    <2> QED
        BY <1>3, <1>4, <2>1, <2>2 DEF WellFormed, StateShape, Insert
<1>8. IdsUnique(s)
    BY <1>3, <1>4, <1>5, <1>n DEF WellFormed, IdsUnique, Live
<1>9. ActiveIsLast(s)
    BY <1>1, <1>2, <1>3, <1>4 DEF ActiveIsLast
<1>10. SealedIsRest(s)
    <2>1. st.active_segment_id \in Live(st)
        BY <1>1 DEF Live
    <2>2. DOMAIN s.seals = DOMAIN st.seals \cup {st.active_segment_id}
        BY <1>4 DEF Insert
    <2> QED
        BY <1>4, <1>6, <1>n, <2>1, <2>2 DEF WellFormed, SealedIsRest
<1>11. DeadNotLive(s)
    BY <1>4, <1>6, <1>n DEF WellFormed, DeadNotLive
<1> QED
    BY <1>4, <1>6, <1>7, <1>8, <1>9, <1>10, <1>11 DEF WellFormed, s, new

-----------------------------------------------------------------------------
\* CreateSegment on the empty state makes a well-formed one.
LEMMA CreateSegmentWF ==
    ASSUME NEW id \in Nat \ {0}, NEW first \in Nat,
           NEW s, s = create_segment(EmptyState, CreateSegmentOp(id, first))
    PROVE  /\ WellFormed(s)
           /\ Live(s) = {id}
           /\ s.dead = {}
<1> DEFINE e == [id |-> id, first_entry |-> first]
<1>1. DOMAIN EmptyState.segments = {} /\ DOMAIN EmptyState.seals = {}
    BY DEF EmptyState
<1>2. Push(EmptyState.segments, e) = [p \in {1} |-> e]
    BY <1>1 DEF Push, Insert
<1>3. s = [segments |-> [p \in {1} |-> e], seals |-> EmptyState.seals,
           active_segment_id |-> id, dead |-> {}, first_entry |-> first,
           meta |-> EmptyState.meta]
    BY <1>2 DEF create_segment, CreateSegmentOp, EmptyState
<1>4. Live(s) = {id}
    BY <1>3 DEF Live
<1>5. StateShape(s)
    <2>1. \A p \in DOMAIN s.segments : s.segments[p].id \in Nat \ {0}
        BY <1>3
    <2>2. /\ EmptyState.seals = [i \in DOMAIN EmptyState.seals |-> EmptyState.seals[i]]
          /\ EmptyState.meta = [i \in DOMAIN EmptyState.meta |-> EmptyState.meta[i]]
        BY DEF EmptyState
    <2> QED
        BY <1>1, <1>3, <2>1, <2>2 DEF StateShape
<1>6. IdsUnique(s) /\ ActiveIsLast(s)
    BY <1>3 DEF IdsUnique, ActiveIsLast
<1>7. SealedIsRest(s) /\ DeadNotLive(s)
    BY <1>1, <1>3, <1>4 DEF SealedIsRest, DeadNotLive
<1> QED
    BY <1>3, <1>4, <1>5, <1>6, <1>7 DEF WellFormed

-----------------------------------------------------------------------------
\* TruncateStart that drops sealed segments only: they become dead.
LEMMA TruncateStartWF ==
    ASSUME NEW st, WellFormed(st), NEW op,
           op.first_entry \in Nat, op.drop \subseteq DOMAIN st.seals
    PROVE  LET s == truncate_start(st, op)
           IN  /\ WellFormed(s)
               /\ Live(s) = Live(st) \ op.drop
               /\ s.dead = st.dead \cup op.drop
               /\ s.active_segment_id = st.active_segment_id
<1> DEFINE s == truncate_start(st, op)
           first == op.first_entry
           drop == op.drop
<1>1. s = [segments |-> Retain(st.segments, drop), seals |-> Without(st.seals, drop),
           active_segment_id |-> st.active_segment_id, dead |-> st.dead \cup drop,
           first_entry |-> first, meta |-> st.meta]
    BY DEF truncate_start, kill_segments
<1>0. first \in Nat /\ drop \subseteq DOMAIN st.seals
    OBVIOUS
<1> HIDE DEF s, first, drop
<1>2. /\ DOMAIN s.segments = {p \in DOMAIN st.segments : st.segments[p].id \notin drop}
      /\ s.segments = [p \in DOMAIN s.segments |-> st.segments[p]]
    BY <1>1 DEF Retain, Without
<1>3. Live(s) = Live(st) \ drop
    BY <1>2 DEF Live
<1>4. drop \subseteq Live(st) \ {st.active_segment_id}
    BY <1>0 DEF WellFormed, SealedIsRest
<1>5. StateShape(s)
    <2>1. \A p \in DOMAIN s.segments : s.segments[p].id \in Nat \ {0}
        BY <1>2 DEF WellFormed, StateShape
    <2>2. drop \subseteq Nat \ {0}
        BY <1>4 DEF WellFormed, StateShape, Live
    <2>3. /\ DOMAIN s.seals = DOMAIN st.seals \ drop
          /\ s.seals = [i \in DOMAIN s.seals |-> st.seals[i]]
        BY <1>1 DEF Without
    <2> QED
        BY <1>0, <1>1, <1>2, <2>1, <2>2, <2>3 DEF WellFormed, StateShape
<1>6. IdsUnique(s)
    BY <1>2 DEF WellFormed, IdsUnique
<1>7. ActiveIsLast(s)
    <2>1. PICK m \in DOMAIN st.segments :
                /\ st.segments[m].id = st.active_segment_id
                /\ \A q \in DOMAIN st.segments : q <= m
        BY DEF WellFormed, ActiveIsLast
    <2>2. m \in DOMAIN s.segments
        BY <1>2, <1>4, <2>1
    <2> QED
        BY <1>1, <1>2, <2>1, <2>2 DEF ActiveIsLast
<1>8. SealedIsRest(s)
    BY <1>1, <1>3 DEF WellFormed, SealedIsRest, Without
<1>9. DeadNotLive(s)
    BY <1>1, <1>3 DEF WellFormed, DeadNotLive
<1> QED
    BY <1>1, <1>3, <1>5, <1>6, <1>7, <1>8, <1>9 DEF WellFormed, s, drop

-----------------------------------------------------------------------------
\* TruncateEnd to the segment at position t that drops all segments after it.
LEMMA TruncateEndWF ==
    ASSUME NEW st, WellFormed(st), NEW t \in DOMAIN st.segments, NEW drop,
           NEW target, target = st.segments[t].id,
           drop \subseteq Live(st),
           \A p \in DOMAIN st.segments : st.segments[p].id \in drop <=> p > t,
           NEW s, s = truncate_end(st, TruncateEndOp(target, drop))
    PROVE  /\ WellFormed(s)
           /\ Live(s) = Live(st) \ drop
           /\ s.dead = st.dead \cup drop
           /\ s.active_segment_id = target
<1>1. s = [segments |-> Retain(st.segments, drop),
           seals |-> Without(Without(st.seals, drop), {target}),
           active_segment_id |-> target, dead |-> st.dead \cup drop,
           first_entry |-> st.first_entry, meta |-> st.meta]
    BY DEF truncate_end, kill_segments, TruncateEndOp
<1>f. /\ s.active_segment_id = target /\ s.dead = st.dead \cup drop
      /\ s.first_entry = st.first_entry /\ s.meta = st.meta
      /\ s = [segments |-> s.segments, seals |-> s.seals,
              active_segment_id |-> s.active_segment_id, dead |-> s.dead,
              first_entry |-> s.first_entry, meta |-> s.meta]
    BY <1>1
<1>2. /\ DOMAIN s.segments = {p \in DOMAIN st.segments : st.segments[p].id \notin drop}
      /\ s.segments = [p \in DOMAIN s.segments |-> st.segments[p]]
    BY <1>1 DEF Retain, Without
<1>3. Live(s) = Live(st) \ drop
    BY <1>2 DEF Live
<1>4. DOMAIN st.segments \subseteq Nat
    BY DEF WellFormed, StateShape
<1>5. DOMAIN s.segments = {p \in DOMAIN st.segments : p <= t}
    BY <1>2, <1>4
<1>6. drop \subseteq Live(st) /\ target \in Live(s)
    BY <1>2, <1>4, <1>5 DEF Live
<1>7. DOMAIN s.seals = DOMAIN st.seals \ (drop \cup {target})
      /\ s.seals = [i \in DOMAIN s.seals |-> st.seals[i]]
    BY <1>1 DEF Without
<1>8. StateShape(s)
    <2>1. \A p \in DOMAIN s.segments : s.segments[p].id \in Nat \ {0}
        BY <1>2 DEF WellFormed, StateShape
    <2>2. drop \subseteq Nat \ {0}
        BY <1>6 DEF WellFormed, StateShape, Live
    <2> QED
        BY <1>f, <1>2, <1>7, <2>1, <2>2 DEF WellFormed, StateShape
<1>9. IdsUnique(s)
    BY <1>2 DEF WellFormed, IdsUnique
<1>10. ActiveIsLast(s)
    <2>1. t \in DOMAIN s.segments /\ s.segments[t].id = target
        BY <1>2, <1>4, <1>5
    <2>2. \A q \in DOMAIN s.segments : q <= t
        BY <1>5
    <2> QED
        BY <1>f, <2>1, <2>2 DEF ActiveIsLast
<1>11. SealedIsRest(s)
    \* the old active segment is the last one: dropped, or the target itself
    <2>1. st.active_segment_id \in drop \cup {target}
        BY <1>4 DEF WellFormed, ActiveIsLast
    <2> QED
        BY <1>f, <1>3, <1>7, <2>1 DEF WellFormed, SealedIsRest
<1>12. DeadNotLive(s)
    BY <1>f, <1>3 DEF WellFormed, DeadNotLive
<1> QED
    BY <1>f, <1>3, <1>8, <1>9, <1>10, <1>11, <1>12 DEF WellFormed

-----------------------------------------------------------------------------
\* SegmentDeleted and RecordOrphan change the dead set alone.
LEMMA WithDeadWF ==
    ASSUME NEW st, WellFormed(st), NEW dead, dead \subseteq Nat \ {0},
           dead \cap Live(st) = {}
    PROVE  /\ WellFormed(WithDead(st, dead))
           /\ Live(WithDead(st, dead)) = Live(st)
           /\ WithDead(st, dead).dead = dead
           /\ WithDead(st, dead).active_segment_id = st.active_segment_id
<1> DEFINE s == WithDead(st, dead)
<1>1. /\ s.segments = st.segments /\ s.seals = st.seals
      /\ s.active_segment_id = st.active_segment_id /\ s.dead = dead
      /\ s.first_entry = st.first_entry /\ s.meta = st.meta
      /\ s = [segments |-> s.segments, seals |-> s.seals,
              active_segment_id |-> s.active_segment_id, dead |-> s.dead,
              first_entry |-> s.first_entry, meta |-> s.meta]
    BY DEF WithDead
<1> HIDE DEF s
<1>2. Live(s) = Live(st)
    BY <1>1 DEF Live
<1> QED
    BY <1>1, <1>2 DEF WellFormed, StateShape, IdsUnique, ActiveIsLast,
                      SealedIsRest, DeadNotLive, s

\* The metadata pairs that come with any operation leave its structure alone.
LEMMA WithMetaWF ==
    ASSUME NEW st, WellFormed(st), NEW pairs
    PROVE  LET s == WithMeta(st, Override(st.meta, pairs))
           IN  /\ WellFormed(s)
               /\ Live(s) = Live(st)
               /\ s.dead = st.dead
               /\ s.active_segment_id = st.active_segment_id
<1> DEFINE s == WithMeta(st, Override(st.meta, pairs))
<1>1. /\ s.segments = st.segments /\ s.seals = st.seals
      /\ s.active_segment_id = st.active_segment_id /\ s.dead = st.dead
      /\ s.first_entry = st.first_entry
      /\ s = [segments |-> s.segments, seals |-> s.seals,
              active_segment_id |-> s.active_segment_id, dead |-> s.dead,
              first_entry |-> s.first_entry, meta |-> s.meta]
    BY DEF WithMeta
<1>2. s.meta = [k \in DOMAIN s.meta |-> s.meta[k]]
    BY DEF WithMeta, Override
<1> HIDE DEF s
<1>3. Live(s) = Live(st)
    BY <1>1 DEF Live
<1>4. WellFormed(s)
    BY <1>1, <1>2, <1>3 DEF WellFormed, StateShape, IdsUnique, ActiveIsLast,
                            SealedIsRest, DeadNotLive
<1> QED
    BY <1>1, <1>3, <1>4 DEF s
=============================================================================
