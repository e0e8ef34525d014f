--------------------------- MODULE PieceIntegrity ---------------------------
(***************************************************************************)
(* The integrity gate of an injection: inspect_pieces reads qBittorrent's  *)
(* piece states one by one against the byte ranges of the mapped files,    *)
(* and resume_allowed applies the resume policy to what it found.          *)
(*                                                                         *)
(* A manifest is the sizes of the piece-space files in order (v1 padding   *)
(* files included), which of them are mapped, and whether every file       *)
(* starts on a piece boundary (v2).  Lengths stay far below 2^64, where    *)
(* the saturating arithmetic of the code is ordinary arithmetic.           *)
(***************************************************************************)
EXTENDS Integers, Sequences, FiniteSets

CONSTANTS
    PieceLength,
    Manifests,     \* the manifests checked
    Reports,       \* piece states qBittorrent may report
    Policies       \* resume policies

VARIABLES
    manifest,
    reported,      \* piece states read so far
    interval,      \* the mapped byte range looked at
    safe,          \* integrity_safe
    present,       \* bytes of the pieces that are there
    policy,        \* the plan's resume policy, once it is applied
    outcome

vars == <<manifest, reported, interval, safe, present, policy, outcome>>

DivCeil(n) == (n + PieceLength - 1) \div PieceLength

\* Offset of the i-th file: v1_files and v2_files, and the same layout that
\* inspect_pieces gives to manifests without piece files.
Offset(m, i) ==
    LET offset[k \in 1 .. i] ==
          IF k = 1 THEN 0
          ELSE LET end == offset[k - 1] + m.sizes[k - 1]
               IN IF m.v2 THEN DivCeil(end) * PieceLength ELSE end
    IN offset[i]

End(m, i) == Offset(m, i) + m.sizes[i]

\* The end of the last file: the length of the piece space.
Total(m) == IF m.sizes = <<>> THEN 0 ELSE End(m, Len(m.sizes))

\* Byte ranges of the mapped files that have bytes, in order.
Intervals(m) ==
    LET ranges == [i \in 1 .. Len(m.sizes) |->
            [first |-> Offset(m, i), end |-> End(m, i), file |-> i]]
        Mapped(r) == r.file \in m.mapped /\ r.end > r.first
    IN SelectSeq(ranges, Mapped)

\* Ranges are not empty and follow one another.
Ordered(ranges) ==
    /\ \A k \in 1 .. Len(ranges) :
         /\ ranges[k].first \in Nat
         /\ ranges[k].end \in Nat
         /\ ranges[k].first < ranges[k].end
    /\ \A j, k \in 1 .. Len(ranges) : j < k => ranges[j].end <= ranges[k].first

\* The bytes of the piece space that belong to a file.
FileSpace(m) == UNION {Offset(m, i) .. End(m, i) - 1 : i \in 1 .. Len(m.sizes)}

\* What the layout computes, of which the manifests are the witness: Offset is recursive.
ASSUME PieceAssumption ==
    /\ PieceLength \in Nat \ {0}
    /\ Reports \subseteq 0 .. 2
    /\ \A m \in Manifests :
         /\ Total(m) \in Nat
         /\ Intervals(m) \in Seq([first : Nat, end : Nat, file : Nat])
         /\ Ordered(Intervals(m))
         /\ \A k \in 1 .. Len(Intervals(m)) : Intervals(m)[k].end <= Total(m)
         /\ FileSpace(m) \subseteq 0 .. Total(m) - 1
         /\ ~m.v2 => FileSpace(m) = 0 .. Total(m) - 1

-----------------------------------------------------------------------------

NoPolicy == [mode |-> "none", maxMissing |-> -1, minRatio |-> -1, combine |-> "and"]

Init ==
    /\ manifest \in Manifests
    /\ reported = <<>>
    /\ interval = 1
    /\ safe = TRUE
    /\ present = 0
    /\ policy = NoPolicy
    /\ outcome = "reading"

\* The byte range of the piece with this index.
Start(index) == index * PieceLength
Stop(index) == IF Start(index) + PieceLength < Total(manifest)
               THEN Start(index) + PieceLength ELSE Total(manifest)

\* The loop over the ranges that end at or before the piece stops at `to`.
Advanced(ranges, from, to, start) ==
    /\ \A k \in from .. to - 1 : ranges[k].end <= start
    /\ to <= Len(ranges) => ranges[to].end > start

\* Faulty variant: only ranges that start inside the piece count.
TouchesInside(range, start, stop) == range.first >= start /\ range.first < stop

Touches(range, start, stop) == range.first < stop /\ range.end > start

\* Faulty variant: the last piece counts as a whole one.
PieceBytesUnclipped(index) == PieceLength

\* end.saturating_sub(start)
PieceBytes(index) == IF Stop(index) > Start(index) THEN Stop(index) - Start(index) ELSE 0

\* The closure that inspect_pieces runs on every piece state.
Piece(state) ==
    LET ranges == Intervals(manifest)
        index == Len(reported)
    IN
    /\ outcome = "reading"
    /\ \E to \in interval .. Len(ranges) + 1 :
         /\ Advanced(ranges, interval, to, Start(index))
         /\ interval' = to
         /\ safe' = (safe /\ (state = 2 \/ to > Len(ranges)
                              \/ ~Touches(ranges[to], Start(index), Stop(index))))
    /\ present' = IF state = 2 THEN present + PieceBytes(index) ELSE present
    /\ reported' = Append(reported, state)
    /\ UNCHANGED <<manifest, policy, outcome>>

Missing == IF Total(manifest) > present THEN Total(manifest) - present ELSE 0

Ratio == IF Total(manifest) = 0 THEN 0 ELSE (present * 1000000) \div Total(manifest)

\* ResumePolicy::CompleteOnly
Complete(left) == left = 0 /\ Missing = 0

\* ResumePolicy::Threshold; a limit that is not set is -1.
WithinThreshold(p) ==
    LET bytes == p.maxMissing >= 0 => Missing <= p.maxMissing
        ratio == p.minRatio >= 0 => Ratio >= p.minRatio
    IN IF p.combine = "and" THEN bytes /\ ratio
       ELSE \/ p.maxMissing >= 0 /\ bytes
            \/ p.minRatio >= 0 /\ ratio

\* resume_allowed
Allowed(p, left) ==
    \/ p.mode = "always"
    \/ p.mode = "complete_only" /\ Complete(left)
    \/ p.mode = "threshold" /\ WithinThreshold(p)

\* Faulty variant: an answer of any length is accepted.
AnswerFitsAny == TRUE

\* The number of piece states is the number of pieces.
AnswerFits == Len(reported) = DivCeil(Total(manifest))

\* The end of the answer: an error on a wrong count, or the decision of observe.
\* `left` is the amount_left that qBittorrent showed when it was observed.
Finish(p, left) ==
    /\ outcome = "reading"
    /\ policy' = p
    /\ outcome' = IF ~AnswerFits THEN "piece_count"
                  ELSE IF safe /\ Allowed(p, left) THEN "resume"
                  ELSE "stop"
    /\ UNCHANGED <<manifest, reported, interval, safe, present>>

\* qBittorrent's answer may be short, or too long by one piece.
Next ==
    \/ /\ Len(reported) <= DivCeil(Total(manifest))
       /\ \E state \in Reports : Piece(state)
    \/ \E p \in Policies, left \in {0, 1} : Finish(p, left)

Spec == Init /\ [][Next]_vars

-----------------------------------------------------------------------------
(* Properties                                                              *)

\* One type invariant for the scan.
TypeOK ==
    /\ manifest \in Manifests
    /\ policy \in Policies \cup {NoPolicy}
    /\ reported \in Seq(Reports)
    /\ interval \in 1 .. Len(Intervals(manifest)) + 1
    /\ safe \in BOOLEAN
    /\ present \in Nat
    /\ outcome \in {"reading", "piece_count", "resume", "stop"}

\* Byte b belongs to a mapped file.
MappedByte(b) ==
    \E k \in 1 .. Len(Intervals(manifest)) :
        Intervals(manifest)[k].first <= b /\ b < Intervals(manifest)[k].end

\* Byte b belongs to the piece with this index.
InPiece(index, b) == Start(index) <= b /\ b < Start(index) + PieceLength

\* The single pass with its one range pointer finds every collision: integrity
\* is safe exactly if no missing piece read so far holds a byte of a mapped file.
SafeIsExact ==
    safe <=> \A p \in 1 .. Len(reported) : reported[p] # 2 =>
                 \A b \in 0 .. Total(manifest) - 1 : ~(InPiece(p - 1, b) /\ MappedByte(b))

\* "It can never start if a missing or failed piece intersects a hardlinked file"
\* (docs/matching.md): a torrent is resumed only if qBittorrent has reported, as
\* present, a piece for every byte of every mapped file.
ResumedDataIsPresent ==
    outcome = "resume" =>
        \A b \in 0 .. Total(manifest) - 1 : MappedByte(b) =>
            \E p \in 1 .. Len(reported) : InPiece(p - 1, b) /\ reported[p] = 2

\* missing_bytes, which thresholds and complete_only are compared with, is never
\* less than the file bytes outside present pieces, and exactly that many in a layout
\* without alignment gaps.
MissingIsNotUnderstated ==
    outcome \in {"resume", "stop"} =>
        LET lost == {b \in FileSpace(manifest) : ~\E p \in 1 .. Len(reported) :
                        InPiece(p - 1, b) /\ reported[p] = 2}
        IN /\ Missing >= Cardinality(lost)
           /\ ~manifest.v2 => Missing = Cardinality(lost)
=============================================================================
