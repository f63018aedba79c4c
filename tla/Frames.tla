------------------------------- MODULE Frames -------------------------------
(***************************************************************************)
(* The frame format (frame.rs): how frames are laid out in a file, and     *)
(* what FrameScanner makes of a file that was cut or damaged.  A file is a *)
(* sequence of cells; a header is three of them (id, payload length,       *)
(* checksum), a payload any number.  Offsets count cells after the magic.  *)
(* xxh64 is external and taken to be free of collisions: a checksum is the *)
(* pair it is computed from.                                               *)
(***************************************************************************)
EXTENDS Recovery

CONSTANT LenLimit    \* payload lengths are stored modulo this: 2^32

ASSUME LenLimitAssumption == LenLimit \in Nat \ {0}

HeaderLen == 3

Num(n) == <<0, n>>
Digest(id, payload) == <<1, id, payload>>
Garbage == <<2>>

\* bytes that are no number we wrote read as one that no file here reaches
Huge == 100
AsNumber(cell) == IF cell[1] = 0 THEN cell[2] ELSE Huge

\* FrameBuffer::write
EncodeFrame(id, payload) ==
    <<Num(id), Num(Len(payload) % LenLimit), Digest(id, payload)>> \o payload

(***************************************************************************)
(* FrameScanner, on a file whose first `pos' cells have been consumed.     *)
(***************************************************************************)
PeekHeader(cells, pos) ==
    CASE pos >= Len(cells) -> "eof"
      [] pos < Len(cells) /\ pos + HeaderLen > Len(cells) -> "truncated"
      [] OTHER -> "header"

IdAt(cells, pos) == AsNumber(cells[pos + 1])
PayloadLenAt(cells, pos) == AsNumber(cells[pos + 2])
FrameEnd(cells, pos) == pos + HeaderLen + PayloadLenAt(cells, pos)
PayloadAt(cells, pos) == SubSeq(cells, pos + HeaderLen + 1, FrameEnd(cells, pos))

\* Fault: checksums are not compared.
SumMatches_Skipped(cells, pos) == TRUE

SumMatches(cells, pos) == cells[pos + 3] = Digest(IdAt(cells, pos), PayloadAt(cells, pos))

EndsEarly(cells, pos) == FrameEnd(cells, pos) > Len(cells)

Check(cells, pos) ==
    CASE PeekHeader(cells, pos) # "header" -> PeekHeader(cells, pos)
      [] PeekHeader(cells, pos) = "header" /\ EndsEarly(cells, pos) -> "truncated"
      [] OTHER -> IF SumMatches(cells, pos) THEN "ok" ELSE "mismatch"

Status(check) ==
    CASE check = "eof" -> "Clean"
      [] check = "truncated" -> "TornTail"
      [] check = "mismatch" -> "ChecksumCorrupt"

scan_all(cells, stride) ==
    LET scanFrom[pos \in 0..Len(cells)] ==
            IF Check(cells, pos) = "ok"
            THEN [scanFrom[FrameEnd(cells, pos)] EXCEPT !.starts = <<pos>> \o @]
            ELSE [starts |-> <<>>, next_offset |-> pos, status |-> Status(Check(cells, pos))]
        all == scanFrom[0]
        count == Len(all.starts)
    IN  [ count       |-> count,
          checkpoints |-> [i \in 1..((count + stride - 1) \div stride) |->
                              LET at == all.starts[(i - 1) * stride + 1]
                              IN  [id |-> IdAt(cells, at), byte_offset |-> at]],
          last_id     |-> IF count = 0 THEN NoEntry ELSE IdAt(cells, Last(all.starts)),
          next_offset |-> all.next_offset,
          status      |-> all.status ]

(***************************************************************************)
(* Damage to a file of whole frames: cut after a cell, or one cell changed *)
(* to another value.                                                       *)
(***************************************************************************)
FlipTo(cell) == IF cell[1] = 0 THEN {Num(n) : n \in (0..3) \ {cell[2]}} \cup {Garbage}
                               ELSE {Garbage}

Cuts(cells) == {SubSeq(cells, 1, n) : n \in 0..(Len(cells) - 1)}
Flips(cells) == UNION {{[cells EXCEPT ![i] = c] : c \in FlipTo(cells[i])} : i \in DOMAIN cells}
=============================================================================
