------------------------------ MODULE MCStore -------------------------------
(***************************************************************************)
(* Instances of the store for TLC: the callers the runs put on top of it.  *)
(***************************************************************************)
EXTENDS CrashInv, StoreLog

\* a Raft node that never conflicts: append, snapshot, compact, vote
AppendOnly == {"write", "truncate_start", "delete", "write_metadata"}

\* the same with rollback of a conflicting suffix and without votes
WithRollback == {"write", "truncate_start", "truncate_end", "delete"}

\* one that also drops commits without syncing them
CarelessRollback == {"write", "drop", "truncate_start", "truncate_end"}

AllCalls == {"write", "drop", "truncate_start", "truncate_end", "delete", "write_metadata"}

WriteAndRollback == {"write", "truncate_end"}
WriteOnly == {"write"}
=============================================================================
