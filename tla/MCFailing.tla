----------------------------- MODULE MCFailing ------------------------------
(***************************************************************************)
(* Instances of the store on a disk that refuses calls.                    *)
(***************************************************************************)
EXTENDS FailingStore

\* a Raft node that never conflicts: append, snapshot, compact, vote
AppendOnly == {"write", "truncate_start", "delete", "write_metadata"}

\* everything but a failure to record a removed file
Recoverable == {"create", "magic", "flush", "sync", "append", "remove", "drop_writer"}
=============================================================================
