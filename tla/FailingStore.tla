---------------------------- MODULE FailingStore ----------------------------
(***************************************************************************)
(* A store on a disk that refuses calls.  Every file operation of a        *)
(* running store may return an error, which `?' hands to the caller in the *)
(* middle of the operation: the call is over, memory is as it was, and the *)
(* caller goes on with the same Store.  What it does not undo is the       *)
(* buffers of the two cursors: FrameCursor::flush keeps on an error what   *)
(* it was to write, and writes it again, before anything newer, at the     *)
(* next flush.  A StoreWriter dropped before write() leaves its frames in  *)
(* the same buffer.  The calls are those of a caller that does not roll    *)
(* back and that syncs what it writes.                                     *)
(***************************************************************************)
EXTENDS StoreProps

CONSTANTS
    Mishaps,     \* what may go wrong
    MaxMishaps,  \* and how often
    MaxStuck     \* frames in the active cursor's buffer before the caller gives up

ASSUME MishapsAssumption ==
    /\ Mishaps \subseteq {"create", "magic", "flush", "sync", "record",
                          "append", "remove", "drop_writer"}
    /\ MaxMishaps \in Nat /\ MaxStuck \in Nat

VARIABLES
    stuckOps,    \* in the manifest cursor's buffer since an earlier flush failed
    mbase,       \* the manifest before that cursor's position, while there are any
    stuckFrames, \* in the active cursor's buffer since an earlier call
    askedHead,   \* the caller's latest truncate_start: its snapshots only advance
    mishaps

stuckVars == <<stuckOps, mbase, stuckFrames>>
failVars == <<stuckVars, askedHead, mishaps>>
allVars == <<vars, failVars>>

FInit ==
    /\ Init
    /\ stuckOps = <<>> /\ mbase = AbsentManifest /\ stuckFrames = <<>>
    /\ askedHead = 0 /\ mishaps = 0

-----------------------------------------------------------------------------
(***************************************************************************)
(* The manifest cursor: replay of a list of frames, and flush.             *)
(***************************************************************************)
\* replay stops at the first operation that apply() refuses
Replay(m, ops) ==
    FoldLeft(LAMBDA acc, op : IF acc.kind = "ok" /\ ApplyOk(acc.st, op)
                              THEN ManifestFile(Apply(acc.st, op), "clean")
                              ELSE UnreadableManifest,
             m, ops)

\* Fault: a flush that fails moves the cursor all the same.
BeforeCursor_Moved == mdisk

BeforeCursor == IF stuckOps = <<>> THEN mdisk ELSE mbase

\* what a write of `ops' that does not finish may leave
PartialManifests(ops) ==
    {[Replay(BeforeCursor, SubSeq(ops, 1, n)) EXCEPT !.tail = tail] :
        n \in 0..(Len(ops) - 1), tail \in {"clean"} \cup TornKinds}

FlushOps ==
    /\ pc = "flush" /\ mbuf.type # "CreateSegment"
    /\ LET ops == Append(stuckOps, mbuf)
           m == Replay(BeforeCursor, ops)
       IN  /\ mdisk' = m
           /\ msurv' = msurv \cup {m} \cup PartialManifests(ops)
    /\ stuckOps' = <<>> /\ mbase' = AbsentManifest
    /\ Goto("sync")
    /\ UNCHANGED <<segmentVars, callVars, result, storeVars, log, acked, faultVars,
                   stuckFrames, askedHead, mishaps>>

-----------------------------------------------------------------------------
(***************************************************************************)
(* The active cursor.                                                      *)
(***************************************************************************)
FlushFrames ==
    /\ AppendAfter(stuckFrames)
    /\ stuckFrames' = <<>>
    /\ UNCHANGED <<stuckOps, mbase, askedHead, mishaps>>

-----------------------------------------------------------------------------
(***************************************************************************)
(* Errors.                                                                 *)
(***************************************************************************)
Mishap(kind) ==
    /\ kind \in Mishaps /\ mishaps < MaxMishaps
    /\ mishaps' = mishaps + 1

\* a step that records a removed file is told apart from the others
ManifestStep(kind) == IF mbuf.type = "SegmentDeleted" THEN "record" ELSE kind

\* `?': the call ends, the pushed frames stay in the buffer
Return ==
    /\ Goto("idle")
    /\ mbuf' = NoOp /\ buf' = <<>> /\ creating' = 0 /\ to_delete' = {}
    /\ stuckFrames' = stuckFrames \o buf
    /\ UNCHANGED <<last_valid, fix_ups, approved, result, storeVars, log, acked, faultVars,
                   askedHead>>

\* create_segment: nothing created
CreateFails ==
    /\ pc = "create" /\ Opened /\ Mishap("create")
    /\ Return /\ UNCHANGED <<diskVars, stuckOps, mbase>>

\* create_segment: the name is taken, as it is when a rollover is tried again
CreateRefused ==
    /\ pc = "create" /\ Opened /\ disk[creating].kind # "absent"
    /\ Return /\ UNCHANGED <<diskVars, stuckOps, mbase, mishaps>>

\* create_segment: the magic is not written, or written and not synced
MagicFails ==
    /\ pc = "magic" /\ Opened /\ Mishap("magic")
    /\ \E file \in {NoMagicFile, SegmentFile(<<>>, FALSE)} :
        SetSegment(creating, file, surv[creating] \cup {file})
    /\ Return /\ UNCHANGED <<manifestVars, stuckOps, mbase>>

\* manifest_cursor.flush: some of the buffered bytes may have been written
FlushFails ==
    /\ pc = "flush" /\ mbuf.type # "CreateSegment" /\ Mishap(ManifestStep("flush"))
    /\ LET ops == Append(stuckOps, mbuf)
       IN  /\ mdisk' \in {mdisk} \cup PartialManifests(ops)
           /\ msurv' = msurv \cup {mdisk'} \cup PartialManifests(ops)
           /\ stuckOps' = ops
    /\ mbase' = BeforeCursor
    /\ Return /\ UNCHANGED segmentVars

\* manifest.sync_all
SyncFails ==
    /\ pc = "sync" /\ Mishap(ManifestStep("sync"))
    /\ Return /\ UNCHANGED <<diskVars, stuckOps, mbase>>

\* active_cursor.flush: the file grows by `n' frames and perhaps a part of
\* one, over what an earlier failure left of the same bytes
AppendFails ==
    /\ pc = "append" /\ Mishap("append")
    /\ LET file == disk[active_id]
           new == stuckFrames \o buf
           left == {SegmentFile(WriteAt(file.frames, position, SubSeq(new, 1, n)), torn) :
                        n \in 0..(Len(new) - 1), torn \in BOOLEAN}
       IN  \E f \in {file} \cup {f \in left : Len(f.frames) > Len(file.frames)
                                    \/ (Len(f.frames) = Len(file.frames) /\ f.torn)} :
            SetSegment(active_id, f, surv[active_id] \cup AppendOutcomes(file, position, new))
    /\ Return /\ UNCHANGED <<manifestVars, stuckOps, mbase>>

\* delete_segment
RemoveFails ==
    /\ pc = "delete" /\ Mishap("remove")
    /\ Return /\ UNCHANGED <<diskVars, stuckOps, mbase>>

\* a StoreWriter is dropped between push and write
DropWriter ==
    /\ pc = "idle" /\ "write" \in Ops /\ Mishap("drop_writer")
    /\ \E batch \in Batches :
        /\ Last(batch).id <= MaxId /\ Len(stuckFrames) + Len(batch) <= MaxStuck
        /\ stuckFrames' = stuckFrames \o batch
    /\ UNCHANGED <<vars, stuckOps, mbase, askedHead>>

Errors ==
    \/ CreateFails \/ MagicFails \/ FlushFails \/ SyncFails \/ AppendFails
    \/ RemoveFails \/ DropWriter

-----------------------------------------------------------------------------
\* the caller does not ask for an older head after a call that failed
AskHead ==
    /\ TruncateStart
    /\ mbuf'.first_entry >= askedHead
    /\ askedHead' = mbuf'.first_entry
    /\ UNCHANGED <<stuckVars, mishaps>>

OtherCalls ==
    /\ \/ Write /\ Len(stuckFrames) + Len(buf') <= MaxStuck
       \/ DeleteDeadSegments \/ WriteMetadata
    /\ UNCHANGED failVars

OpenStepsF == OpenSteps /\ UNCHANGED failVars

OtherSteps ==
    /\ \/ CreateNew \/ WriteMagic
       \/ SyncRollover \/ CommitSync \/ SyncTruncateStart
       \/ RemoveFile \/ SyncDeleted \/ SyncMetadata
    /\ UNCHANGED failVars

CallStepsF == OtherSteps \/ FlushOps \/ FlushFrames \/ CreateRefused

\* a failure of the machine takes the buffers with it
FailuresF ==
    /\ PowerLoss
    /\ stuckOps' = <<>> /\ mbase' = AbsentManifest /\ stuckFrames' = <<>>
    /\ UNCHANGED <<askedHead, mishaps>>

FNext == OpenStepsF \/ CallStepsF \/ AskHead \/ OtherCalls \/ Errors \/ FailuresF

FSpec ==
    /\ FInit /\ [][FNext]_allVars
    /\ WF_allVars(OpenStepsF)
    /\ WF_allVars(CallStepsF)

-----------------------------------------------------------------------------
\* After any error the write cursor is at the end of what the caller's
\* successful writes put in the active segment: a later write overwrites
\* nothing but the remains of failed ones, and leaves no hole.
CursorPastWritten ==
    pc = "idle" =>
        LET frames == disk[active_id].frames
        IN  /\ position <= Len(frames)
            /\ \A i \in DOMAIN frames :
                   i > position => frames[i].id > last_entry_id

\* What a manifest call that succeeded told the caller stands in every
\* manifest that may be found later, whatever calls failed before and since:
\* the head, the vote, and the segment the writes go to.
DoneIsDurable ==
    pc = "idle" => \A m \in Manifests :
        /\ m.kind = "ok"
        /\ m.st.first_entry >= state.first_entry
        /\ Vote(m.st) >= Vote(state)
        /\ active_id \in Live(m.st)
=============================================================================
