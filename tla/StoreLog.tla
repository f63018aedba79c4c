------------------------------ MODULE StoreLog ------------------------------
(***************************************************************************)
(* A store implements RaftLog.  The log is what the files hold: the clean  *)
(* prefixes of the live segments, from the head on.  Recovery is then no   *)
(* step of the log: it may neither lose nor resurrect an entry.            *)
(***************************************************************************)
EXTENDS StoreProps

\* the manifest state that counts: the one in memory while there is one
CurrentState == IF Opened THEN state ELSE mdisk.st

CleanIds(file) == Ids(SubSeq(file.frames, 1, CleanLen(file.frames)))

\* set_len comes before the manifest step that completes truncate_end
EntriesOnDisk ==
    IF last_valid # NoEntry THEN log
    ELSE {x \in UNION {CleanIds(disk[id]) : id \in Live(CurrentState)} :
            x >= CurrentState.first_entry}

PendingCall ==
    CASE last_valid # NoEntry -> [call |-> "truncate_end", arg |-> last_valid]
      [] Opened /\ mbuf # NoOp /\ mbuf.type = "TruncateStart" ->
            [call |-> "truncate_start", arg |-> mbuf.first_entry]
      [] Opened /\ mbuf # NoOp /\ mbuf.type = "Metadata" ->
            [call |-> "write_metadata", arg |-> mbuf.meta[VoteKey]]
      [] OTHER -> [call |-> "none", arg |-> 0]

Log == INSTANCE RaftLog WITH
    up      <- Opened,
    entries <- EntriesOnDisk,
    durable <- IF acked = {} THEN 0 ELSE Max(acked),
    head    <- CurrentState.first_entry,
    vote    <- Vote(CurrentState),
    request <- PendingCall

\* Whatever fails, and however many segments, fix-ups and manifest operations
\* are involved, the caller sees a log: entries only appear by an append and
\* only go by a truncation or, beyond the last sync, by a failure; head and
\* vote change only by a call, and as a whole; opening changes nothing.
ImplementsLog == Log!Spec
=============================================================================
