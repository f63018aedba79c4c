------------------------------ MODULE RaftLog -------------------------------
(***************************************************************************)
(* What a store promises its caller, without segments, manifest or index:  *)
(* a log of entries that is appended to, synced, and cut at either end,    *)
(* and a vote.  A call that rewrites the manifest is pending between `ask' *)
(* and `done'; a failure in between settles it either way.                 *)
(***************************************************************************)
EXTENDS Integers, FiniteSetsExt

CONSTANTS
    MaxId,      \* largest entry id the caller writes
    MaxVote     \* largest vote it stores

VARIABLES
    up,         \* is the store open?
    entries,    \* ids of the entries in the log
    durable,    \* every entry up to this id was promised to survive
    head,       \* id of the oldest accessible entry
    vote,
    request     \* the call in progress

vars == <<up, entries, durable, head, vote, request>>

NoRequest == [call |-> "none", arg |-> 0]
Request(call, arg) == [call |-> call, arg |-> arg]

UpTo(S, last) == {x \in S : x <= last}
From(S, first) == {x \in S : x >= first}

Init ==
    /\ up = FALSE /\ entries = {} /\ durable = 0 /\ head = 0 /\ vote = 0
    /\ request = NoRequest

Open ==
    /\ ~up /\ up' = TRUE
    /\ UNCHANGED <<entries, durable, head, vote, request>>

-----------------------------------------------------------------------------
\* new entries come after all others and not before the head
Append ==
    /\ up /\ request = NoRequest
    /\ \E new \in SUBSET (head..MaxId) :
        /\ new # {} /\ \A x \in entries, y \in new : x < y
        /\ entries' = entries \cup new
    /\ UNCHANGED <<up, durable, head, vote, request>>

Sync ==
    /\ up /\ request = NoRequest /\ entries # {}
    /\ durable' = Max(entries)
    /\ UNCHANGED <<up, entries, head, vote, request>>

-----------------------------------------------------------------------------
\* truncate_start and write_metadata promise nothing before they return;
\* truncate_end withdraws at once the promise for what it cuts off, and no other
Ask ==
    /\ up /\ request = NoRequest
    /\ \/ /\ \E first \in head..(MaxId + 1) : request' = Request("truncate_start", first)
          /\ UNCHANGED durable
       \/ /\ \E last \in 1..MaxId :
                /\ request' = Request("truncate_end", last)
                /\ durable' \in 0..Min({durable, last})
                /\ UpTo(entries, Min({durable, last})) \subseteq UpTo(entries, durable')
       \/ /\ vote < MaxVote
          /\ request' = Request("write_metadata", vote + 1)
          /\ UNCHANGED durable
    /\ UNCHANGED <<up, entries, head, vote>>

\* the effects of the pending call
HeadAfter == IF request.call = "truncate_start" THEN request.arg ELSE head
VoteAfter == IF request.call = "write_metadata" THEN request.arg ELSE vote
LastAfter == IF request.call = "truncate_end" THEN request.arg ELSE MaxId

Done ==
    /\ up /\ request # NoRequest
    /\ head' = HeadAfter /\ vote' = VoteAfter
    /\ entries' = UpTo(From(entries, head'), LastAfter)
    /\ request' = NoRequest
    /\ UNCHANGED <<up, durable>>

-----------------------------------------------------------------------------
\* The pending call has happened or not; `kept' is the last entry left.
Settle(kept) ==
    /\ up' = FALSE
    /\ head' \in {head, HeadAfter} /\ vote' \in {vote, VoteAfter}
    /\ \E last \in kept : entries' = UpTo(From(entries, head'), last)
    /\ request' = NoRequest
    /\ UNCHANGED durable

\* the process ends: what was written stays
Kill == up /\ Settle({MaxId, LastAfter})

\* the machine stops: any part of the log beyond the promise may be lost
PowerLoss == Settle(durable..MaxId)

\* an entry rots in a closed store, and with it the promise from there on
Damage ==
    /\ ~up
    /\ durable' \in 0..durable
    /\ \E last \in durable'..MaxId : entries' = UpTo(entries, last)
    /\ UNCHANGED <<up, head, vote, request>>

Next == Open \/ Append \/ Sync \/ Ask \/ Done \/ Kill \/ PowerLoss \/ Damage

Spec == Init /\ [][Next]_vars
=============================================================================
