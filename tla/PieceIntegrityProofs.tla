------------------------ MODULE PieceIntegrityProofs ------------------------
(***************************************************************************)
(* The integrity gate for every piece length, every layout whose mapped    *)
(* ranges are ordered, and every answer of qBittorrent: the scan with one  *)
(* range pointer is exact, and a resumed torrent has all mapped data.      *)
(***************************************************************************)
EXTENDS PieceIntegrity, FiniteSetTheorems, TLAPS

Ranges == Intervals(manifest)

\* The ranges before the pointer end at or before the next piece.
PointerInv == \A k \in 1 .. interval - 1 : Ranges[k].end <= Start(Len(reported))

\* A resumed torrent was judged on a complete answer and found safe.
ResumeInv == outcome = "resume" => safe /\ AnswerFits

\* Some byte of a mapped file lies in the piece with this index.
Collides(index) ==
    \E k \in 1 .. Len(Ranges) : Touches(Ranges[k], Start(index), Stop(index))

\* What the scan knows of the pieces it has read, in terms of byte ranges.
ScanInv == safe <=> \A p \in 1 .. Len(reported) : reported[p] # 2 => ~Collides(p - 1)

IInv == TypeOK /\ PointerInv /\ ResumeInv /\ ScanInv

-----------------------------------------------------------------------------

\* The piece offsets that inspect_pieces computes are natural numbers that grow
\* with the index by one piece length.
LEMMA StartGrows ==
    ASSUME NEW i \in Nat
    PROVE  /\ Start(i) \in Nat
           /\ Start(i + 1) = Start(i) + PieceLength
           /\ Start(i) < Start(i + 1)
<1>1. PieceLength \in Nat /\ PieceLength > 0
  BY PieceAssumption
<1>2. i * PieceLength \in Nat
  BY <1>1
<1>3. (i + 1) * PieceLength = i * PieceLength + PieceLength
  BY <1>1
<1> QED
  BY <1>1, <1>2, <1>3 DEF Start

\* The mapped ranges of a manifest are ordered and lie inside the piece space.
LEMMA RangeFacts ==
    ASSUME manifest \in Manifests
    PROVE  /\ Total(manifest) \in Nat
           /\ Len(Ranges) \in Nat
           /\ \A k \in 1 .. Len(Ranges) :
                /\ Ranges[k].first \in Nat
                /\ Ranges[k].end \in Nat
                /\ Ranges[k].first < Ranges[k].end
                /\ Ranges[k].end <= Total(manifest)
           /\ \A j, k \in 1 .. Len(Ranges) : j < k => Ranges[j].end <= Ranges[k].first
<1> DEFINE ranges == Intervals(manifest)
<1>1. /\ Total(manifest) \in Nat
      /\ ranges \in Seq([first : Nat, end : Nat, file : Nat])
      /\ Ordered(ranges)
      /\ \A k \in 1 .. Len(ranges) : ranges[k].end <= Total(manifest)
  BY PieceAssumption
<1>2. Len(ranges) \in Nat
  BY <1>1
<1> QED
  BY <1>1, <1>2 DEF Ordered, Ranges

\* Two byte ranges overlap, in the sense of the code's test, exactly if the piece
\* holds a byte of a mapped file.
LEMMA CollisionIsAByte ==
    ASSUME manifest \in Manifests, NEW i \in Nat
    PROVE  Collides(i) <=> \E b \in 0 .. Total(manifest) - 1 : InPiece(i, b) /\ MappedByte(b)
<1> DEFINE total == Total(manifest)
<1>0. /\ total \in Nat
      /\ Start(i) \in Nat
      /\ PieceLength \in Nat \ {0}
  BY RangeFacts, StartGrows, PieceAssumption
<1>1. ASSUME Collides(i)
      PROVE  \E b \in 0 .. total - 1 : InPiece(i, b) /\ MappedByte(b)
  <2>1. PICK k \in 1 .. Len(Ranges) : Touches(Ranges[k], Start(i), Stop(i))
    BY <1>1 DEF Collides
  <2> DEFINE first == Ranges[k].first
             end == Ranges[k].end
             b == IF first < Start(i) THEN Start(i) ELSE first
  <2>2. first \in Nat /\ end \in Nat /\ first < end /\ end <= total
    BY RangeFacts
  <2>3. first < Stop(i) /\ end > Start(i)
    BY <2>1 DEF Touches
  <2>4. Start(i) <= b /\ b < Start(i) + PieceLength /\ first <= b /\ b < end /\ b \in 0 .. total - 1
    <3> HIDE DEF first, end
    <3> QED
      BY <1>0, <2>2, <2>3 DEF Stop
  <2>5. InPiece(i, b)
    BY <2>4 DEF InPiece
  <2>6. MappedByte(b)
    BY <2>4 DEF MappedByte, Ranges
  <2> QED
    BY <2>4, <2>5, <2>6
<1>2. ASSUME NEW b \in 0 .. total - 1, InPiece(i, b), MappedByte(b)
      PROVE  Collides(i)
  <2>1. PICK k \in 1 .. Len(Ranges) : Ranges[k].first <= b /\ b < Ranges[k].end
    BY <1>2 DEF MappedByte, Ranges
  <2> DEFINE first == Ranges[k].first
             end == Ranges[k].end
  <2>2. first \in Nat /\ end \in Nat
    BY RangeFacts
  <2>3. Start(i) <= b /\ b < Start(i) + PieceLength /\ b < total /\ b \in Nat
    BY <1>0, <1>2 DEF InPiece
  <2>4. first < Stop(i) /\ end > Start(i)
    <3>1. first <= b /\ b < end
      BY <2>1
    <3> HIDE DEF first, end
    <3> QED
      BY <1>0, <2>2, <2>3, <3>1 DEF Stop
  <2> QED
    BY <2>4 DEF Touches, Collides
<1> QED
  BY <1>1, <1>2

\* The range at the pointer decides for all of them: those before it end before
\* the piece, and those after it touch the piece only if it does.
LEMMA PointerDecides ==
    ASSUME manifest \in Manifests, NEW i \in Nat,
           NEW to \in 1 .. Len(Ranges) + 1,
           \A k \in 1 .. to - 1 : Ranges[k].end <= Start(i),
           to <= Len(Ranges) => Ranges[to].end > Start(i)
    PROVE  Collides(i) <=> to <= Len(Ranges) /\ Touches(Ranges[to], Start(i), Stop(i))
<1>0. Start(i) \in Nat /\ Len(Ranges) \in Nat /\ Total(manifest) \in Nat /\ PieceLength \in Nat
  BY StartGrows, RangeFacts, PieceAssumption
<1>1. Stop(i) \in Nat
  BY <1>0 DEF Stop
<1>2. ASSUME NEW k \in 1 .. Len(Ranges), Touches(Ranges[k], Start(i), Stop(i))
      PROVE  to <= Len(Ranges) /\ Touches(Ranges[to], Start(i), Stop(i))
  <2>1. Ranges[k].first < Stop(i) /\ Ranges[k].end > Start(i)
    BY <1>2 DEF Touches
  <2>2. Ranges[k].first \in Nat /\ Ranges[k].end \in Nat
    BY RangeFacts
  <2>3. ~(k < to)
    <3>1. k < to => k \in 1 .. to - 1
      BY <1>0
    <3>2. k < to => Ranges[k].end <= Start(i)
      BY <3>1
    <3> QED
      BY <3>2, <2>1, <2>2, <1>0
  <2>4. to <= k /\ to <= Len(Ranges) /\ to \in 1 .. Len(Ranges)
    BY <2>3, <1>0
  <2>5. Ranges[to].first \in Nat /\ Ranges[to].end \in Nat /\ Ranges[to].first < Ranges[to].end
    BY <2>4, RangeFacts
  <2>6. to = k \/ Ranges[to].end <= Ranges[k].first
    <3>1. to = k \/ to < k
      BY <2>4, <1>0
    <3> QED
      BY <3>1, <2>4, RangeFacts
  <2>7. Ranges[to].first < Stop(i)
    BY <2>1, <2>2, <2>5, <2>6, <1>1
  <2> QED
    BY <2>4, <2>7 DEF Touches
<1>3. ASSUME to <= Len(Ranges), Touches(Ranges[to], Start(i), Stop(i))
      PROVE  Collides(i)
  BY <1>0, <1>3 DEF Collides
<1> QED
  BY <1>2, <1>3 DEF Collides

-----------------------------------------------------------------------------

\* Before the first piece the scan knows nothing and is safe.
LEMMA InitIInv == Init => IInv
<1> SUFFICES ASSUME Init PROVE IInv
  OBVIOUS
<1>0. manifest \in Manifests /\ Len(Ranges) \in Nat
  BY RangeFacts DEF Init
<1>1. TypeOK
  BY <1>0 DEF Init, TypeOK, Ranges
<1>2. PointerInv
  BY DEF Init, PointerInv
<1>3. ResumeInv
  BY DEF Init, ResumeInv
<1>4. ScanInv
  BY DEF Init, ScanInv
<1> QED
  BY <1>1, <1>2, <1>3, <1>4 DEF IInv

\* Reading one piece keeps the pointer behind the piece and the verdict exact.
LEMMA PieceIInv ==
    ASSUME IInv, NEW state \in Reports, Piece(state)
    PROVE  IInv'
<1> DEFINE index == Len(reported)
<1>0. /\ manifest \in Manifests
      /\ reported \in Seq(Reports)
      /\ index \in Nat
      /\ interval \in 1 .. Len(Ranges) + 1
      /\ safe \in BOOLEAN
      /\ Len(Ranges) \in Nat
      /\ outcome = "reading"
      /\ UNCHANGED <<manifest, policy, outcome>>
      /\ reported' = Append(reported, state)
  BY RangeFacts DEF IInv, TypeOK, Ranges, Piece
<1>1. PICK to \in interval .. Len(Ranges) + 1 :
        /\ Advanced(Ranges, interval, to, Start(index))
        /\ interval' = to
        /\ safe' = (safe /\ (state = 2 \/ to > Len(Ranges)
                             \/ ~Touches(Ranges[to], Start(index), Stop(index))))
  BY DEF Piece, Ranges
<1>2. to \in 1 .. Len(Ranges) + 1
  BY <1>0, <1>1
<1>3. Ranges' = Ranges /\ Total(manifest)' = Total(manifest)
  BY <1>0 DEF Ranges
<1>4. Len(reported') = index + 1 /\ Len(reported)' = index + 1
  BY <1>0
<1>5. \A k \in 1 .. to - 1 : Ranges[k].end <= Start(index)
  <2> SUFFICES ASSUME NEW k \in 1 .. to - 1 PROVE Ranges[k].end <= Start(index)
    OBVIOUS
  <2>1. CASE k < interval
    <3>1. k \in 1 .. interval - 1
      BY <1>0, <1>2, <2>1
    <3> QED
      BY <3>1 DEF IInv, PointerInv
  <2>2. CASE ~(k < interval)
    <3>1. k \in interval .. to - 1
      BY <1>0, <1>2, <2>2
    <3> QED
      BY <3>1, <1>1 DEF Advanced
  <2> QED
    BY <2>1, <2>2
<1>6. Collides(index) <=> to <= Len(Ranges) /\ Touches(Ranges[to], Start(index), Stop(index))
  <2>1. to <= Len(Ranges) => Ranges[to].end > Start(index)
    BY <1>1 DEF Advanced
  <2> HIDE DEF index
  <2> QED
    BY <1>0, <1>2, <1>5, <2>1, PointerDecides
<1>7. safe' <=> safe /\ (state # 2 => ~Collides(index))
  <2>1. to > Len(Ranges) <=> ~(to <= Len(Ranges))
    BY <1>0, <1>2
  <2> QED
    BY <1>0, <1>1, <1>6, <2>1, Zenon
<1>8. safe' \in BOOLEAN
  BY <1>0, <1>1
<1>9. present' \in Nat
  <2>1. present \in Nat /\ PieceLength \in Nat /\ Total(manifest) \in Nat /\ Start(index) \in Nat
    BY <1>0, StartGrows, RangeFacts, PieceAssumption DEF IInv, TypeOK
  <2>2. PieceBytes(index) \in Nat
    BY <2>1 DEF PieceBytes, Stop
  <2>3. present' = present + PieceBytes(index) \/ present' = present
    BY DEF Piece
  <2> QED
    BY <2>1, <2>2, <2>3
<1>10. TypeOK'
  <2>1. policy' \in Policies \cup {NoPolicy} /\ outcome' = "reading" /\ manifest' \in Manifests
    BY <1>0 DEF IInv, TypeOK
  <2>2. reported' \in Seq(Reports)
    BY <1>0
  <2>3. interval' \in 1 .. Len(Intervals(manifest')) + 1
    BY <1>0, <1>1, <1>2 DEF Ranges
  <2> QED
    BY <1>8, <1>9, <2>1, <2>2, <2>3 DEF TypeOK
<1>11. PointerInv'
  <2>1. Start(index) \in Nat /\ Start(index + 1) \in Nat /\ Start(index) < Start(index + 1)
    BY <1>0, StartGrows
  <2>2. ASSUME NEW k \in 1 .. to - 1
        PROVE  Ranges[k].end <= Start(index + 1)
    <3>1. k \in 1 .. Len(Ranges)
      BY <1>0, <1>2
    <3>2. Ranges[k].end \in Nat
      BY <1>0, <3>1, RangeFacts
    <3>3. Ranges[k].end <= Start(index)
      BY <1>5
    <3> QED
      BY <2>1, <3>2, <3>3
  <2>3. Start(Len(reported))' = Start(index + 1)
    BY <1>4 DEF Start
  <2> QED
    BY <1>1, <1>3, <2>2, <2>3 DEF PointerInv
<1>12. ResumeInv'
  BY <1>0 DEF ResumeInv
<1>13. ScanInv'
  <2>1. \A i : Collides(i)' <=> Collides(i)
    BY <1>3 DEF Collides, Stop, Start, Touches
  <2>2. \A p \in 1 .. index : reported'[p] = reported[p]
    BY <1>0
  <2>3. reported'[index + 1] = state
    BY <1>0
  <2>4. safe <=> \A p \in 1 .. index : reported[p] # 2 => ~Collides(p - 1)
    BY DEF IInv, ScanInv
  <2>5. safe' <=> \A p \in 1 .. index + 1 : reported'[p] # 2 => ~Collides(p - 1)
    <3>1. (index + 1) - 1 = index
      BY <1>0
    <3>2. \A p \in 1 .. index + 1 : p \in 1 .. index \/ p = index + 1
      BY <1>0
    <3>3. \A p \in 1 .. index : p \in 1 .. index + 1
      BY <1>0
    <3>4. index + 1 \in 1 .. index + 1
      BY <1>0
    <3> HIDE DEF index
    <3> QED
      BY <1>7, <2>2, <2>3, <2>4, <3>1, <3>2, <3>3, <3>4
  <2> QED
    BY <1>4, <2>1, <2>5 DEF ScanInv
<1> QED
  BY <1>10, <1>11, <1>12, <1>13 DEF IInv

\* The end of the answer decides on what the scan has found.
LEMMA FinishIInv ==
    ASSUME IInv, NEW p \in Policies, NEW left \in {0, 1}, Finish(p, left)
    PROVE  IInv'
<1>0. UNCHANGED <<manifest, reported, interval, safe, present>> /\ policy' = p
  BY DEF Finish
<1>1. TypeOK'
  BY <1>0 DEF IInv, TypeOK, Finish
<1>2. PointerInv'
  BY <1>0 DEF IInv, PointerInv, Ranges, Start
<1>3. ResumeInv'
  <2>1. outcome' = "resume" => safe /\ AnswerFits
    BY DEF Finish
  <2> QED
    BY <1>0, <2>1 DEF ResumeInv, AnswerFits
<1>4. ScanInv'
  <2>1. \A i : Collides(i)' <=> Collides(i)
    BY <1>0 DEF Collides, Stop, Start, Touches, Ranges
  <2> QED
    BY <1>0, <2>1 DEF IInv, ScanInv
<1> QED
  BY <1>1, <1>2, <1>3, <1>4 DEF IInv

\* The inductive invariant holds throughout the scan.
THEOREM ScanInvariant == Spec => []IInv
<1>1. IInv /\ [Next]_vars => IInv'
  <2> SUFFICES ASSUME IInv, [Next]_vars PROVE IInv'
    OBVIOUS
  <2>1. CASE Next
    BY <2>1, PieceIInv, FinishIInv DEF Next
  <2>2. CASE UNCHANGED vars
    BY <2>2 DEF vars, IInv, TypeOK, PointerInv, ResumeInv, AnswerFits, ScanInv, Collides,
                Ranges, Start, Stop
  <2> QED
    BY <2>1, <2>2
<1> QED
  BY InitIInv, <1>1, PTL DEF Spec

\* Type correctness of the scan.
THEOREM ScanTypes == Spec => []TypeOK
<1>1. IInv => TypeOK
  BY DEF IInv
<1> QED
  BY <1>1, ScanInvariant, PTL

\* integrity_safe is exact for every layout: no missing piece that holds a byte of
\* a mapped file is overlooked, and no other piece is taken for one.
THEOREM ScanExact == Spec => []SafeIsExact
<1>1. IInv => SafeIsExact
  <2> SUFFICES ASSUME IInv PROVE SafeIsExact
    OBVIOUS
  <2>0. manifest \in Manifests /\ Len(reported) \in Nat
    BY DEF IInv, TypeOK
  <2>1. ASSUME NEW p \in 1 .. Len(reported)
        PROVE  ~Collides(p - 1)
                 <=> \A b \in 0 .. Total(manifest) - 1 : ~(InPiece(p - 1, b) /\ MappedByte(b))
    <3>1. p - 1 \in Nat
      BY <2>0
    <3> QED
      BY <2>0, <3>1, CollisionIsAByte
  <2>2. ScanInv
    BY DEF IInv
  <2> QED
    BY <2>1, <2>2 DEF ScanInv, SafeIsExact
<1> QED
  BY <1>1, ScanInvariant, PTL

\* DivCeil pieces cover the piece space: every byte lies in one of them.
LEMMA PiecesCover ==
    ASSUME NEW total \in Nat, NEW b \in 0 .. total - 1
    PROVE  \E i \in Nat : i < DivCeil(total) /\ InPiece(i, b)
<1> DEFINE i == b \div PieceLength
<1>0. PieceLength \in Nat /\ PieceLength > 0 /\ b \in Nat /\ b < total
  BY PieceAssumption
<1>1. i \in Nat /\ i * PieceLength <= b /\ b < i * PieceLength + PieceLength
  BY <1>0
<1>2. DivCeil(total) \in Nat /\ DivCeil(total) * PieceLength >= total
  BY <1>0 DEF DivCeil
<1>3. i < DivCeil(total)
  <2> HIDE DEF i
  <2>1. ~(DivCeil(total) <= i)
    <3> SUFFICES ASSUME DivCeil(total) <= i PROVE FALSE
      BY <1>1, <1>2
    <3>1. DivCeil(total) * PieceLength <= i * PieceLength
      BY <1>0, <1>1, <1>2
    <3>2. DivCeil(total) * PieceLength \in Nat /\ i * PieceLength \in Nat
      BY <1>0, <1>1, <1>2
    <3> QED
      BY <1>0, <1>1, <1>2, <3>1, <3>2
  <2> QED
    BY <1>1, <1>2, <2>1
<1> QED
  BY <1>1, <1>3 DEF InPiece, Start

\* A torrent is resumed only if qBittorrent has reported a present piece for
\* every byte of every mapped file, whatever the resume policy.
THEOREM ResumeIsSafe == Spec => []ResumedDataIsPresent
<1>1. IInv /\ SafeIsExact => ResumedDataIsPresent
  <2> SUFFICES ASSUME IInv, SafeIsExact, outcome = "resume",
                      NEW b \in 0 .. Total(manifest) - 1, MappedByte(b)
               PROVE  \E p \in 1 .. Len(reported) : InPiece(p - 1, b) /\ reported[p] = 2
    BY DEF ResumedDataIsPresent
  <2>0. manifest \in Manifests /\ Len(reported) \in Nat /\ Total(manifest) \in Nat
    BY RangeFacts DEF IInv, TypeOK
  <2>1. safe /\ Len(reported) = DivCeil(Total(manifest))
    BY DEF IInv, ResumeInv, AnswerFits
  <2>2. PICK i \in Nat : i < DivCeil(Total(manifest)) /\ InPiece(i, b)
    BY <2>0, PiecesCover
  <2> DEFINE p == i + 1
  <2>3. p \in 1 .. Len(reported) /\ p - 1 = i
    BY <2>0, <2>1, <2>2
  <2>4. InPiece(p - 1, b)
    BY <2>2, <2>3
  <2> HIDE DEF p
  <2>5. reported[p] = 2
    BY <2>1, <2>3, <2>4 DEF SafeIsExact
  <2> QED
    BY <2>3, <2>4, <2>5
<1> QED
  BY <1>1, ScanInvariant, ScanExact, PTL

-----------------------------------------------------------------------------
(* What is counted as missing                                              *)

\* The bytes of the pieces reported as present, and their count.
Covered == {b \in 0 .. Total(manifest) - 1 : \E p \in 1 .. Len(reported) :
                InPiece(p - 1, b) /\ reported[p] = 2}

CountInv == present = Cardinality(Covered)

\* Pieces follow one another.
LEMMA StartsFollow ==
    ASSUME NEW i \in Nat, NEW j \in Nat, i < j
    PROVE  Start(i) + PieceLength <= Start(j)
<1>1. PieceLength \in Nat
  BY PieceAssumption
<1>2. (i + 1) * PieceLength <= j * PieceLength
  BY <1>1
<1>3. (i + 1) * PieceLength = i * PieceLength + PieceLength
  BY <1>1
<1> QED
  BY <1>1, <1>2, <1>3 DEF Start

\* A piece has as many bytes as inspect_pieces counts for it, the last one clipped.
LEMMA PieceBytesCount ==
    ASSUME manifest \in Manifests, NEW i \in Nat
    PROVE  LET piece == {b \in 0 .. Total(manifest) - 1 : InPiece(i, b)}
           IN  IsFiniteSet(piece) /\ Cardinality(piece) = PieceBytes(i)
<1> DEFINE total == Total(manifest)
           piece == {b \in 0 .. total - 1 : InPiece(i, b)}
<1>1. total \in Nat /\ Start(i) \in Nat /\ PieceLength \in Nat /\ PieceLength > 0
  <2>1. PieceLength \in Nat /\ PieceLength > 0
    BY PieceAssumption
  <2> QED
    BY <2>1, RangeFacts, StartGrows
<1>2. Stop(i) \in Nat /\ Stop(i) - 1 \in Int /\ Start(i) \in Int
  BY <1>1 DEF Stop
<1>3. \A b : b \in piece <=> b \in Start(i) .. Stop(i) - 1
  BY <1>1 DEF InPiece, Stop
<1>4. piece = Start(i) .. Stop(i) - 1
  BY <1>3
<1>5. \A low, high \in Int :
          /\ IsFiniteSet(low .. high)
          /\ Cardinality(low .. high) = IF low > high THEN 0 ELSE high - low + 1
  BY FS_Interval
<1>6. IsFiniteSet(piece) /\ Cardinality(piece) = PieceBytes(i)
  <2> HIDE DEF piece
  <2>1. IsFiniteSet(piece)
    BY <1>2, <1>4, <1>5
  <2>2. Cardinality(piece) = IF Start(i) > Stop(i) - 1 THEN 0 ELSE (Stop(i) - 1) - Start(i) + 1
    BY <1>2, <1>4, <1>5
  <2>3. (IF Start(i) > Stop(i) - 1 THEN 0 ELSE (Stop(i) - 1) - Start(i) + 1) = PieceBytes(i)
    BY <1>1, <1>2 DEF PieceBytes
  <2> QED
    BY <2>1, <2>2, <2>3
<1> QED
  BY <1>6

\* Every present piece adds its own bytes to the count, and no byte twice.
LEMMA PieceCount ==
    ASSUME IInv, CountInv, NEW state \in Reports, Piece(state)
    PROVE  CountInv'
<1> DEFINE index == Len(reported)
           space == 0 .. Total(manifest) - 1
           piece == {b \in space : InPiece(index, b)}
<1>1. /\ manifest \in Manifests /\ manifest' = manifest
      /\ reported \in Seq(Reports) /\ index \in Nat
      /\ reported' = Append(reported, state)
      /\ present' = IF state = 2 THEN present + PieceBytes(index) ELSE present
  BY DEF IInv, TypeOK, Piece
<1>2. /\ Len(reported') = index + 1
      /\ reported'[index + 1] = state
      /\ \A p \in 1 .. index : reported'[p] = reported[p]
  BY <1>1
<1>3. Total(manifest') = Total(manifest) /\ \A i, b : InPiece(i, b)' <=> InPiece(i, b)
  BY <1>1 DEF InPiece, Start
<1>4. Covered' = {b \in space : \E p \in 1 .. index + 1 : InPiece(p - 1, b) /\ reported'[p] = 2}
  BY <1>2, <1>3 DEF Covered, InPiece, Start
<1>5. (index + 1) - 1 = index /\ (\A p : p \in 1 .. index + 1 <=> p \in 1 .. index \/ p = index + 1)
  BY <1>1
<1>6. \A b \in space : (\E p \in 1 .. index + 1 : InPiece(p - 1, b) /\ reported'[p] = 2)
          <=> \/ \E p \in 1 .. index : InPiece(p - 1, b) /\ reported[p] = 2
              \/ InPiece(index, b) /\ state = 2
  <2> HIDE DEF index, space
  <2> QED
    BY <1>2, <1>5
<1>7. Covered' = IF state = 2 THEN Covered \cup piece ELSE Covered
  BY <1>4, <1>6 DEF Covered
<1>8. Covered \cap piece = {}
  <2> SUFFICES ASSUME NEW b \in space, NEW p \in 1 .. index, InPiece(p - 1, b), InPiece(index, b)
               PROVE  FALSE
    BY DEF Covered
  <2>1. p - 1 \in Nat /\ p - 1 < index
    BY <1>1
  <2>2. Start(p - 1) + PieceLength <= Start(index)
    BY <1>1, <2>1, StartsFollow
  <2>3. Start(p - 1) \in Nat /\ Start(index) \in Nat /\ PieceLength \in Nat /\ b \in Int
    BY <1>1, <2>1, StartGrows, PieceAssumption
  <2> HIDE DEF index
  <2> QED
    BY <2>2, <2>3 DEF InPiece
<1>9. IsFiniteSet(space) /\ IsFiniteSet(Covered)
  <2>1. 0 \in Int /\ Total(manifest) - 1 \in Int
    BY <1>1, RangeFacts
  <2>2. IsFiniteSet(space)
    BY <2>1, FS_Interval
  <2> QED
    BY <2>2, FS_Subset DEF Covered
<1>10. IsFiniteSet(piece) /\ Cardinality(piece) = PieceBytes(index)
  BY <1>1, PieceBytesCount
<1>11. Cardinality(Covered) \in Nat /\ Cardinality(piece) \in Nat
  BY <1>9, <1>10, FS_CardinalityType
<1>12. Cardinality(Covered \cup piece) = Cardinality(Covered) + Cardinality(piece)
  <2> HIDE DEF piece
  <2>1. Cardinality(Covered \cup piece)
            = Cardinality(Covered) + Cardinality(piece) - Cardinality(Covered \cap piece)
    BY <1>9, <1>10, FS_Union
  <2>2. Cardinality(Covered \cap piece) = 0
    BY <1>8, FS_EmptySet
  <2> QED
    BY <1>11, <2>1, <2>2
<1> QED
  BY <1>1, <1>7, <1>10, <1>12 DEF CountInv

\* The count holds throughout the scan.
LEMMA CountInvariant == Spec => []CountInv
<1>1. Init => CountInv
  <2> SUFFICES ASSUME Init PROVE CountInv
    OBVIOUS
  <2>1. Covered = {} /\ present = 0
    BY DEF Init, Covered
  <2> QED
    BY <2>1, FS_EmptySet DEF CountInv
<1>2. IInv /\ CountInv /\ [Next]_vars => CountInv'
  <2> SUFFICES ASSUME IInv, CountInv, [Next]_vars PROVE CountInv'
    OBVIOUS
  <2>1. CASE \E state \in Reports : Piece(state)
    BY <2>1, PieceCount
  <2>2. CASE UNCHANGED <<manifest, reported, present>>
    BY <2>2 DEF CountInv, Covered, InPiece, Start
  <2> QED
    BY <2>1, <2>2 DEF Next, Finish, vars
<1> QED
  BY <1>1, <1>2, ScanInvariant, PTL DEF Spec

\* missing_bytes is never less than the file bytes outside the pieces that qBittorrent
\* reported as present, and exactly that many in a layout without alignment gaps.
THEOREM MissingIsCounted == Spec => []MissingIsNotUnderstated
<1>1. IInv /\ CountInv => MissingIsNotUnderstated
  <2> SUFFICES ASSUME IInv, CountInv PROVE MissingIsNotUnderstated
    OBVIOUS
  <2> DEFINE total == Total(manifest)
             space == 0 .. total - 1
             lost == {b \in FileSpace(manifest) : ~\E p \in 1 .. Len(reported) :
                        InPiece(p - 1, b) /\ reported[p] = 2}
  <2>1. /\ total \in Nat /\ FileSpace(manifest) \subseteq space
        /\ ~manifest.v2 => FileSpace(manifest) = space
    BY PieceAssumption DEF IInv, TypeOK
  <2>2. IsFiniteSet(space) /\ Cardinality(space) = total
    <3>1. 0 \in Int /\ total - 1 \in Int
      BY <2>1
    <3>2. IsFiniteSet(0 .. total - 1)
          /\ Cardinality(0 .. total - 1) = IF 0 > total - 1 THEN 0 ELSE (total - 1) - 0 + 1
      BY <3>1, FS_Interval
    <3> QED
      BY <2>1, <3>2
  <2>3. Covered \subseteq space /\ IsFiniteSet(Covered) /\ Cardinality(Covered) \in Nat
        /\ Cardinality(Covered) <= total
    <3>1. Covered \subseteq space
      BY DEF Covered
    <3> HIDE DEF space
    <3> QED
      BY <2>2, <3>1, FS_Subset, FS_CardinalityType
  <2>4. IsFiniteSet(space \ Covered) /\ Cardinality(space \ Covered) = total - Cardinality(Covered)
    <3>1. space \cap Covered = Covered
      BY <2>3
    <3> HIDE DEF space
    <3> QED
      BY <2>2, <3>1, FS_Difference
  <2>5. Missing = Cardinality(space \ Covered)
    BY <2>1, <2>3, <2>4 DEF Missing, CountInv
  <2>6. lost \subseteq space \ Covered /\ (~manifest.v2 => lost = space \ Covered)
    BY <2>1 DEF Covered
  <2>7. Cardinality(lost) <= Cardinality(space \ Covered) /\ Cardinality(lost) \in Nat
    <3> HIDE DEF lost, space
    <3> QED
      BY <2>4, <2>6, FS_Subset, FS_CardinalityType
  <2>8. Missing >= Cardinality(lost) /\ (~manifest.v2 => Missing = Cardinality(lost))
    <3>1. Cardinality(space \ Covered) \in Nat
      BY <2>4, FS_CardinalityType
    <3> HIDE DEF lost, space
    <3> QED
      BY <2>5, <2>6, <2>7, <3>1
  <2> QED
    BY <2>8 DEF MissingIsNotUnderstated
<1> QED
  BY <1>1, CountInvariant, ScanInvariant, PTL
=============================================================================
