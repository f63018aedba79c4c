----------------------------- MODULE FrameReads -----------------------------
(***************************************************************************)
(* Reading a segment through a FrameScanner, one read of the file at a     *)
(* time: seek_to_id and then read(), as StoreReader does, with entry       *)
(* readers that are read in any pieces or dropped half way; and            *)
(* scan_to_after, as truncate_end does.  The scanner keeps two positions:  *)
(* the one of its BufReader and the one it counts itself.                  *)
(***************************************************************************)
EXTENDS Frames

CONSTANTS
    MaxEntry,       \* entries have ids 1..MaxEntry
    MaxPayload      \* largest payload, in cells

ASSUME ReadBoundsAssumption == MaxEntry \in Nat /\ MaxPayload \in Nat

VARIABLES
    lens,       \* payload length of each entry written to the segment
    cells,      \* the file, perhaps damaged
    pc,
    offset,     \* where the scanner was told it starts
    target,
    rpos,       \* cells consumed from the BufReader, which starts at the first frame
    position,   \* FrameScanner.position
    peeked,     \* frame start of a header read ahead, or NoPeek
    reader,     \* the FrameReader handed out, or NoReader
    got,        \* what the caller read from it
    yielded,    \* ids handed out so far
    empties     \* how many of those had no payload

scannerVars == <<rpos, position, peeked>>
callerVars == <<reader, got, yielded, empties>>
readVars == <<lens, cells, pc, offset, target, scannerVars, callerVars>>

NoPeek == -1
NoReader == [id |-> 0, remaining |-> 0, payload_len |-> 0, frame_start |-> 0]

Payload(i) == [j \in 1..lens[i] |-> Num(10 * i + j)]
Written == FlattenSeq([i \in DOMAIN lens |-> EncodeFrame(i, Payload(i))])
Offset(i) ==
    LET end[n \in 0..Len(lens)] == IF n = 0 THEN 0 ELSE end[n - 1] + HeaderLen + lens[n]
    IN  end[i]

RInit ==
    /\ \E n \in 0..MaxEntry : lens \in [1..n -> 0..MaxPayload]
    /\ cells \in {Written} \cup Cuts(Written) \cup Flips(Written)
    /\ pc = "closed" /\ offset = 0 /\ target = 0
    /\ rpos = 0 /\ position = 0 /\ peeked = NoPeek
    /\ reader = NoReader /\ got = <<>> /\ yielded = <<>> /\ empties = 0

\* FrameScanner::new keeps the offset of a checkpoint and does not seek
NewScanner(next) ==
    /\ pc = "closed" /\ cells = Written      \* an open store has scanned its files
    /\ \E i \in 0..Len(lens) : offset' = Offset(i) /\ position' = Offset(i)
    /\ target' \in 0..MaxEntry
    /\ pc' = next
    /\ UNCHANGED <<lens, cells, rpos, peeked, callerVars>>

-----------------------------------------------------------------------------
\* peek_header: reads a header unless one is held already
HeaderAt == IF peeked = NoPeek THEN rpos ELSE rpos - HeaderLen
FrameStart == IF peeked = NoPeek THEN position ELSE peeked
AtEof == peeked = NoPeek /\ PeekHeader(cells, rpos) = "eof"
\* the end of the file, or a header cut short, which is an error
NoHeader == peeked = NoPeek /\ PeekHeader(cells, rpos) # "header"

\* Fault: where the frame begins, not where it ends.
NextFrame_Same == FrameStart

NextFrame == FrameStart + HeaderLen + PayloadLenAt(cells, HeaderAt)

\* consume_peeked_payload
SkipFrame ==
    /\ rpos' = FrameEnd(cells, HeaderAt)
    /\ position' = NextFrame
    /\ peeked' = NoPeek

SeekToId ==
    /\ pc = "seek"
    /\ IF AtEof \/ IdAt(cells, HeaderAt) >= target
       THEN /\ rpos' = IF AtEof THEN rpos ELSE HeaderAt + HeaderLen
            /\ peeked' = IF AtEof THEN NoPeek ELSE FrameStart
            /\ pc' = "read" /\ UNCHANGED position
       ELSE SkipFrame /\ UNCHANGED pc
    /\ UNCHANGED <<lens, cells, offset, target, callerVars>>

ScanToAfterStep ==
    /\ pc = "after"
    /\ IF AtEof
       THEN pc' = "notfound" /\ UNCHANGED scannerVars
       ELSE SkipFrame /\ pc' = IF IdAt(cells, HeaderAt) = target THEN "found" ELSE "after"
    /\ UNCHANGED <<lens, cells, offset, target, callerVars>>

-----------------------------------------------------------------------------
\* FrameScanner::read
ReadFrame ==
    /\ pc = "read" /\ ~NoHeader
    /\ LET len == PayloadLenAt(cells, HeaderAt)
           id == IdAt(cells, HeaderAt)
       IN  /\ reader' = [ id |-> id, remaining |-> len, payload_len |-> len,
                          frame_start |-> FrameStart ]
           /\ yielded' = Append(yielded, id)
           /\ empties' = empties + (IF len = 0 THEN 1 ELSE 0)
    /\ rpos' = HeaderAt + HeaderLen
    /\ peeked' = NoPeek
    /\ got' = <<>>
    /\ pc' = "entry"
    /\ UNCHANGED <<lens, cells, offset, target, position>>

ReadEnd ==
    /\ pc = "read" /\ NoHeader
    /\ pc' = "done"
    /\ UNCHANGED <<lens, cells, offset, target, scannerVars, callerVars>>

\* Fault: the header is not counted.
AfterFrame_NoHeader == reader.frame_start + reader.payload_len

AfterFrame == reader.frame_start + HeaderLen + reader.payload_len

\* FrameReader::read: as much as the caller's buffer and the BufReader allow
ReadPayload ==
    /\ pc = "entry" /\ reader.remaining > 0
    /\ \E n \in 1..Min({reader.remaining, Len(cells) - rpos}) :
        /\ got' = got \o SubSeq(cells, rpos + 1, rpos + n)
        /\ rpos' = rpos + n
        /\ reader' = [reader EXCEPT !.remaining = @ - n]
        /\ position' = IF n = reader.remaining THEN AfterFrame ELSE position
    /\ UNCHANGED <<lens, cells, pc, offset, target, peeked, yielded, empties>>

\* Fault: the rest of the payload is left in the file.
SkipRest_Not == rpos' = rpos

SkipRest == rpos' = Min({rpos + reader.remaining, Len(cells)})

\* Drop for FrameReader
DropReader ==
    /\ pc = "entry"
    /\ SkipRest
    /\ position' = IF reader.remaining > 0 THEN AfterFrame ELSE position
    /\ reader' = NoReader /\ got' = <<>>
    /\ pc' = "read"
    /\ UNCHANGED <<lens, cells, offset, target, peeked, yielded, empties>>

-----------------------------------------------------------------------------
RNext ==
    \/ NewScanner("seek") \/ NewScanner("after")
    \/ SeekToId \/ ScanToAfterStep
    \/ ReadFrame \/ ReadEnd \/ ReadPayload \/ DropReader

RSpec == RInit /\ [][RNext]_readVars

-----------------------------------------------------------------------------
(***************************************************************************)
(* Properties.                                                             *)
(***************************************************************************)
\* the file in the terms of Recovery: the frames written, the damaged one
\* marked, what was cut off missing
FirstBad ==
    LET differ == {i \in DOMAIN cells : cells[i] # Written[i]}
    IN  IF differ = {} THEN Len(cells) ELSE Min(differ) - 1
WholeBefore(n) == Max({0} \cup {i \in DOMAIN lens : Offset(i) <= n})
AsFrames ==
    LET whole == WholeBefore(Len(cells))
    IN  SegmentFile([i \in 1..whole |->
                        [id |-> i, ok |-> Offset(i) <= FirstBad \/ FirstBad < Offset(i - 1)]],
                    Len(cells) > Offset(whole))

\* The scan of a cut or damaged file finds, cell by cell, what Recovery takes
\* for granted of whole frames: the clean prefix, whether the file is clean,
\* the checkpoints, and the write offset.
ScanAgrees ==
    LET s == scan_all(cells, Stride)
        frames == AsFrames.frames
    IN  /\ s.count = CleanLen(frames)
        /\ (s.status = "Clean") = IsClean(AsFrames)
        /\ s.next_offset = Offset(s.count)
        /\ s.last_id = s.count
        /\ s.checkpoints = [i \in DOMAIN Checkpoints(frames) |->
                LET cp == Checkpoints(frames)[i]
                IN  [id |-> cp.id, byte_offset |-> Offset(cp.byte_offset)]]

\* the first entry a reader is to yield
FirstWanted == Max({target, 1})

\* A reader yields the entries from the target on, in order and without a gap,
\* each with its own payload, whatever part of a payload its caller reads.
ReaderAligned ==
    /\ yielded = [i \in 1..Len(yielded) |-> FirstWanted + i - 1]
    /\ pc = "done" => Len(yielded) = Max({0, Len(lens) - FirstWanted + 1})
    /\ pc = "entry" => got = SubSeq(Payload(reader.id), 1, Len(got))

\* Between frames the scanner's own position, counted from the offset it was
\* given, is that of the file, whatever parts of the payloads were read, as long
\* as every entry had a payload: FrameReader advances the position only with the
\* last byte of one, so it stays before a frame whose payload is empty.
PositionTracks ==
    (reader = NoReader /\ peeked = NoPeek /\ empties = 0) => rpos = position - offset

\* scan_to_after returns the end of the target's frame, counted from the
\* offset the scanner was given (ScanToAfter of Store, in cells).
AfterAgrees ==
    /\ pc = "found" => position = offset + Offset(target)
    /\ pc = "notfound" => target \notin DOMAIN lens

-----------------------------------------------------------------------------
(***************************************************************************)
(* The inductive invariant behind the last three.                          *)
(***************************************************************************)
\* The entries up to n that are wanted have been yielded.
YieldedTo(n) ==
    /\ Len(yielded) = IF n >= FirstWanted THEN n - FirstWanted + 1 ELSE 0
    /\ yielded = [i \in 1..Len(yielded) |-> FirstWanted + i - 1]

\* The scanner is between frame n and the next, whose header it may hold.
Between(n) ==
    /\ reader = NoReader /\ HeaderAt = Offset(n)
    /\ HeaderAt = position - offset + HeaderLen * empties
    /\ peeked # NoPeek => pc = "read" /\ peeked = position /\ n < Len(lens)
    /\ pc = "seek" => n < FirstWanted /\ yielded = <<>>
    /\ pc \in {"read", "done"} => YieldedTo(n) /\ (n >= FirstWanted - 1 \/ n = Len(lens))
    /\ pc = "done" => n = Len(lens)
    /\ pc \in {"after", "found", "notfound"} => empties = 0 /\ yielded = <<>>
    /\ pc = "after" => target \notin 1..n
    /\ pc = "found" => target = n
    /\ pc = "notfound" => target \notin 1..n /\ n = Len(lens)

\* Frame n is being read; its reader knows where the frame ends.
Within(n) ==
    /\ n \in DOMAIN lens /\ n >= FirstWanted /\ YieldedTo(n) /\ peeked = NoPeek
    /\ reader = [ id |-> n, remaining |-> reader.remaining, payload_len |-> lens[n],
                  frame_start |-> reader.frame_start ]
    /\ reader.remaining \in 0..lens[n] /\ reader.frame_start \in Nat
    /\ rpos = Offset(n) - reader.remaining
    /\ got = SubSeq(Payload(n), 1, lens[n] - reader.remaining)
    /\ (IF reader.remaining = 0 THEN position ELSE AfterFrame) - offset + HeaderLen * empties
            = Offset(n)

\* An open scanner is between two frames of an intact file or within one.
ReadInv ==
    /\ lens \in Seq(0..MaxPayload) /\ Len(lens) <= MaxEntry /\ target \in 0..MaxEntry
    /\ {offset, position, empties} \subseteq Nat
    /\ pc \in {"closed", "seek", "read", "entry", "done", "after", "found", "notfound"}
    /\ IF pc = "closed"
       THEN /\ reader = NoReader /\ yielded = <<>> /\ peeked = NoPeek
            /\ rpos = 0 /\ position = 0 /\ offset = 0 /\ empties = 0
       ELSE /\ cells = Written
            /\ \E n \in 0..Len(lens) : IF pc = "entry" THEN Within(n) ELSE Between(n)
=============================================================================
