--------------------------- MODULE RawInputProofs ---------------------------
(***************************************************************************)
(* Two results about a RAW connection, for every input and every size of   *)
(* the ring, of the reads and of the pieces sent.                          *)
(*                                                                         *)
(* The detector: its state is the length of the longest beginning of the   *)
(* end-of-job sequence that the bytes seen end with.  It needs no table of *)
(* where to resume, because "@" is found at the beginning of the sequence  *)
(* only.                                                                   *)
(*                                                                         *)
(* The ring: the cells in use, from the read position on and round the end *)
(* once at most, hold the bytes that follow those sent.                    *)
(***************************************************************************)
EXTENDS RawInput, SequenceTheorems, TLAPS

\* The bytes seen end with the first k characters of the sequence.
Matches(k) == k <= scanned /\ \A i \in 1..k : input[scanned - k + i] = PJL_EOJ[i]

DetectorLongest ==
  /\ Matches(match)
  /\ \A k \in 1 .. PJL_EOJ_LEN - 1 : Matches(k) => k <= match

Counts ==
  /\ input \in Seq(Characters)
  /\ received \in Nat /\ arrived \in Nat /\ scanned \in Nat
  /\ received <= arrived /\ arrived <= Len(input) /\ scanned <= received
  /\ match \in 0 .. PJL_EOJ_LEN - 1 /\ eoj \in BOOLEAN
  /\ ringWritePos \in 0 .. RingSize - 1 /\ ringReadPos \in 0 .. RingSize - 1
  /\ ringDataLen \in 0..RingSize

Stages ==
  /\ rpc = "scan" => scanned < received
  /\ rpc = "off" => arrived = 0 /\ received = 0 /\ scanned = 0
  /\ eoj => rpc \in {"flush", "close"}
  /\ rpc = "flush" => eoj

DetectorInv == Counts /\ Stages /\ (~eoj => DetectorLongest) /\ EndsWithEoj

\* The characters of the sequence; only the first is "@".
LEMMA Sequence ==
  /\ PJL_EOJ[1] = "@" /\ PJL_EOJ[8] = "J" /\ PJL_EOJ_LEN = 8
  /\ \A i \in 2..8 : PJL_EOJ[i] # "@"
BY DEF PJL_EOJ, PJL_EOJ_LEN

\* The step of the detector: what it has seen ends with as much of the sequence as
\* its state says, and with no more.
LEMMA FeedIsLongest ==
  ASSUME Counts, ~eoj, DetectorLongest, scanned < received,
         NEW m, m = feed(match, input[scanned + 1]),
         input' = input, scanned' = scanned + 1
  PROVE  /\ m \in 0..8
         /\ m <= scanned'
         /\ \A i \in 1..m : input'[scanned' - m + i] = PJL_EOJ[i]
         /\ \A k \in 1..8 : Matches(k)' => k <= m
<1> DEFINE c == input[scanned + 1]
<1>0. /\ scanned \in Nat /\ match \in 0..7 /\ received \in Nat
      /\ match <= scanned
      /\ \A i \in 1..match : input[scanned - match + i] = PJL_EOJ[i]
      /\ \A k \in 1..7 : Matches(k) => k <= match
  BY Sequence DEF Counts, DetectorLongest, Matches
<1>a. /\ m = IF match < 8 /\ c = PJL_EOJ[match + 1] THEN match + 1 ELSE IF c = "@" THEN 1 ELSE 0
  BY Sequence DEF feed
<1>b. ASSUME NEW k \in 1..8, Matches(k)'
      PROVE  /\ c = PJL_EOJ[k]
             /\ k >= 2 => Matches(k - 1)
             /\ k >= 2 => input[scanned - k + 2] = "@"
             /\ k <= scanned + 1
  <2>1. k <= scanned + 1 /\ \A i \in 1..k : input[scanned + 1 - k + i] = PJL_EOJ[i]
    BY <1>b, <1>0 DEF Matches
  <2>2. c = PJL_EOJ[k]
    <3>1. k \in 1..k /\ scanned + 1 - k + k = scanned + 1
      BY <1>0
    <3> QED BY <2>1, <3>1
  <2>3. k >= 2 => Matches(k - 1)
    <3> SUFFICES ASSUME k >= 2 PROVE Matches(k - 1)
      OBVIOUS
    <3>1. k - 1 <= scanned
      BY <2>1, <1>0
    <3>2. ASSUME NEW i \in 1 .. k - 1 PROVE input[scanned - (k - 1) + i] = PJL_EOJ[i]
      <4>1. i \in 1..k /\ scanned + 1 - k + i = scanned - (k - 1) + i
        BY <1>0
      <4> QED BY <2>1, <4>1
    <3> QED BY <3>1, <3>2 DEF Matches
  <2>4. k >= 2 => input[scanned - k + 2] = "@"
    <3>1. 1 \in 1..k /\ scanned + 1 - k + 1 = scanned - k + 2
      BY <1>0
    <3> QED BY <2>1, <3>1, Sequence
  <2> QED BY <2>1, <2>2, <2>3, <2>4
<1>1. CASE c = PJL_EOJ[match + 1]
  <2>1. m = match + 1
    BY <1>0, <1>a, <1>1
  <2>2. ASSUME NEW i \in 1..m PROVE input[scanned + 1 - m + i] = PJL_EOJ[i]
    <3>1. CASE i = m
      <4>1. scanned + 1 - m + i = scanned + 1
        BY <3>1, <2>1, <1>0
      <4> QED BY <4>1, <3>1, <2>1, <1>1
    <3>2. CASE i # m
      <4>1. i \in 1..match /\ scanned + 1 - m + i = scanned - match + i
        BY <3>2, <2>1, <1>0
      <4> QED BY <4>1, <1>0
    <3> QED BY <3>1, <3>2
  <2>3. ASSUME NEW k \in 1..8, Matches(k)' PROVE k <= m
    <3> SUFFICES ASSUME k > match + 1 PROVE FALSE
      BY <2>1, <1>0
    <3>1. k >= 2 /\ k - 1 \in 1..7
      BY <1>0
    <3>2. Matches(k - 1)
      BY <2>3, <1>b, <3>1
    <3>3. k - 1 <= match
      BY <3>1, <3>2, <1>0
    <3> QED BY <3>3, <1>0
  <2> QED BY <2>1, <2>2, <2>3, <1>0
<1>2. CASE c # PJL_EOJ[match + 1] /\ c = "@"
  <2>1. m = 1
    BY <1>a, <1>2
  <2>2. ASSUME NEW i \in 1..m PROVE input[scanned + 1 - m + i] = PJL_EOJ[i]
    <3>1. i = 1 /\ scanned + 1 - m + i = scanned + 1
      BY <2>1, <1>0
    <3> QED BY <3>1, <1>2, Sequence
  <2>3. ASSUME NEW k \in 1..8, Matches(k)' PROVE k <= m
    <3>1. PJL_EOJ[k] = "@"
      BY <2>3, <1>b, <1>2
    <3>2. k \notin 2..8
      BY <3>1, Sequence
    <3> QED BY <3>2, <2>1
  <2> QED BY <2>1, <2>2, <2>3, <1>0
<1>3. CASE c # PJL_EOJ[match + 1] /\ c # "@"
  <2>1. m = 0
    BY <1>a, <1>3
  <2>2. ASSUME NEW k \in 1..8, Matches(k)' PROVE FALSE
    <3>1. c = PJL_EOJ[k] /\ k # 1
      BY <2>2, <1>b, <1>3, Sequence
    <3>2. k >= 2 /\ k - 1 \in 1..7 /\ Matches(k - 1) /\ input[scanned - k + 2] = "@"
      BY <3>1, <2>2, <1>b
    <3>3. k - 1 <= match /\ k - 1 # match
      BY <3>1, <3>2, <1>0, <1>3
    <3>4. match - k + 2 \in 1..match /\ match - k + 2 \in 2..8
          /\ scanned - match + (match - k + 2) = scanned - k + 2
      BY <3>2, <3>3, <1>0
    <3>5. input[scanned - k + 2] = PJL_EOJ[match - k + 2]
      BY <3>4, <1>0
    <3> QED BY <3>2, <3>4, <3>5, Sequence
  <2> QED BY <2>1, <2>2, <1>0
<1> QED BY <1>1, <1>2, <1>3

LEMMA RingHasRoom == RingSize \in Nat /\ RingSize >= 1 /\ 0 \in 0 .. RingSize - 1
BY RawInputAssumption

LEMMA Remainder ==
  ASSUME NEW n \in Nat
  PROVE  n % RingSize \in 0 .. RingSize - 1
BY RawInputAssumption

\* The ring's positions and the counts after a read: at least one byte comes, and it
\* lies within the ring.
LEMMA ReadIsClamped ==
  ASSUME Counts, ReadSocket
  PROVE  /\ received' \in Nat /\ received < received' /\ received' <= arrived
         /\ ringWritePos' \in 0 .. RingSize - 1 /\ ringDataLen' \in 0..RingSize
<1> USE RawInputAssumption
<1>1. /\ firstPart \in Nat \ {0} /\ firstPart <= arrived - received
      /\ firstPart <= RingSize - ringDataLen
  BY DEF Counts, ReadSocket, Available, firstPart, want, Least
<1>2. /\ received' = received + firstPart
      /\ ringWritePos' = (ringWritePos + firstPart) % RingSize
      /\ ringDataLen' = ringDataLen + firstPart
  BY DEF ReadSocket
<1>3. ringWritePos + firstPart \in Nat
  BY <1>1 DEF Counts
<1>4. (ringWritePos + firstPart) % RingSize \in 0 .. RingSize - 1
  BY <1>3, Remainder
<1> HIDE DEF firstPart
<1> QED BY <1>1, <1>2, <1>3, <1>4 DEF Counts

LEMMA PieceIsClamped ==
  ASSUME Counts, SendPiece
  PROVE  ringReadPos' \in 0 .. RingSize - 1 /\ ringDataLen' \in 0..RingSize
<1> USE RawInputAssumption
<1>1. Piece \in Nat /\ Piece <= ringDataLen
  BY DEF Counts, SendPiece, Piece, Least
<1>2. ringReadPos' = (ringReadPos + Piece) % RingSize /\ ringDataLen' = ringDataLen - Piece
  BY DEF SendPiece
<1>3. ringReadPos + Piece \in Nat
  BY <1>1 DEF Counts
<1>4. (ringReadPos + Piece) % RingSize \in 0 .. RingSize - 1
  BY <1>3, Remainder
<1> HIDE DEF Piece
<1> QED BY <1>1, <1>2, <1>3, <1>4 DEF Counts

\* What the detector has seen, and its state, are unchanged.
LEMMA NothingScanned ==
  ASSUME DetectorInv, Counts', Stages',
         UNCHANGED input, UNCHANGED detector, UNCHANGED eoj
  PROVE  DetectorInv'
BY DEF DetectorInv, DetectorLongest, Matches, EndsWithEoj, EojAt, detector

LEMMA NothingSeen ==
  ASSUME Counts', Stages', scanned' = 0, match' = 0, eoj' = FALSE
  PROVE  DetectorInv'
<1>1. \A k \in 1..7 : ~Matches(k)'
  BY DEF Matches
<1>2. Matches(0)'
  BY DEF Matches
<1> QED BY <1>1, <1>2, Sequence DEF DetectorInv, DetectorLongest, EndsWithEoj, EojAt, Matches

LEMMA ScanKeeps ==
  ASSUME DetectorInv, Scan
  PROVE  DetectorInv'
<1> DEFINE m == feed(match, input[scanned + 1])
<1>0. /\ Counts /\ rpc = "scan" /\ scanned < received /\ ~eoj /\ DetectorLongest
      /\ scanned' = scanned + 1 /\ input' = input
      /\ received' = received /\ arrived' = arrived
      /\ UNCHANGED ringVars
  BY DEF DetectorInv, Stages, Scan, connection
<1>1. /\ m \in 0..8 /\ m <= scanned'
      /\ \A i \in 1..m : input'[scanned' - m + i] = PJL_EOJ[i]
      /\ \A k \in 1..8 : Matches(k)' => k <= m
  BY <1>0, FeedIsLongest
<1>2. \/ m = 8 /\ match' = 0 /\ eoj' = TRUE /\ rpc' = "flush"
      \/ /\ m # 8 /\ match' = m /\ eoj' = eoj
         /\ rpc' = IF scanned' = received THEN "read" ELSE "scan"
  BY Sequence DEF Scan
<1> HIDE DEF m
<1>3. Counts'
  <2>1. match' \in 0..7
    BY <1>0, <1>1, <1>2
  <2>0. eoj' \in BOOLEAN
    BY <1>0, <1>2, Zenon DEF Counts
  <2>2. scanned' \in Nat /\ scanned' <= received'
    BY <1>0 DEF Counts
  <2> QED BY <1>0, <2>0, <2>1, <2>2 DEF Counts, ringVars, PJL_EOJ_LEN
<1>4. Stages'
  BY <1>0, <1>2 DEF Stages, Counts
<1>5. ~eoj' => DetectorLongest'
  BY <1>0, <1>1, <1>2, Sequence DEF DetectorLongest, Matches
<1>6. ~ \E j \in 1..scanned : EojAt(j)
  BY <1>0 DEF DetectorInv, EndsWithEoj
<1>7. EojAt(scanned)' <=> m = 8
  <2>0. EojAt(scanned)' <=>
          scanned + 1 >= 8 /\ \A i \in 1..8 : input[scanned + 1 - 8 + i] = PJL_EOJ[i]
    <3>1. scanned \in Nat /\ scanned' = scanned + 1 /\ input' = input
      BY <1>0 DEF Counts
    <3> QED BY <3>1 DEF EojAt, PJL_EOJ_LEN
  <2>1. CASE m = 8
    BY <2>0, <2>1, <1>0, <1>1 DEF Counts
  <2>2. CASE m # 8
    <3>1. ASSUME EojAt(scanned)' PROVE FALSE
      <4>1. Matches(8)'
        BY <3>1, <2>0, <1>0 DEF Matches, Counts
      <4> QED BY <4>1, <1>1, <2>2
    <3> QED BY <3>1, <2>2
  <2> QED BY <2>1, <2>2
<1>8. \A j \in 1..scanned : EojAt(j)' <=> EojAt(j)
  BY <1>0 DEF EojAt
<1>9. EndsWithEoj'
  <2>1. 1..scanned' = 1..scanned \cup {scanned + 1}
    BY <1>0 DEF Counts
  <2>2. eoj' <=> m = 8
    BY <1>2, <1>0
  <2>3. (\E j \in 1..scanned' : EojAt(j)') <=> EojAt(scanned)'
    <3>1. scanned' \in 1..scanned' /\ \A j \in 1..scanned' : j # scanned' => j \in 1..scanned
      BY <1>0 DEF Counts
    <3>2. \A j \in 1..scanned : ~EojAt(j)'
      BY <1>6, <1>8
    <3>3. ASSUME NEW j \in 1..scanned', EojAt(j)' PROVE EojAt(scanned)'
      BY <3>1, <3>2, <3>3
    <3>4. ASSUME EojAt(scanned)' PROVE \E j \in 1..scanned' : EojAt(j)'
      BY <3>1, <3>4
    <3> QED BY <3>3, <3>4
  <2>4. EndsWithEoj' <=> (eoj' <=> \E j \in 1..scanned' : EojAt(j)')
    BY DEF EndsWithEoj
  <2> QED BY <2>2, <2>3, <2>4, <1>7
<1> QED BY <1>3, <1>4, <1>5, <1>9 DEF DetectorInv

LEMMA DetectorStep ==
  ASSUME DetectorInv, [RawInputNext]_rawInputVars
  PROVE  DetectorInv'
<1>0. Counts /\ Stages
  BY DEF DetectorInv
<1>1. CASE Sends
  <2>1. Counts' /\ Stages'
    BY <1>0, <1>1 DEF Sends, Counts, Stages, detector, ringVars
  <2> QED BY <2>1, <1>1, NothingScanned DEF Sends
<1>2. CASE Ends
  <2>1. Counts' /\ Stages'
    BY <1>0, <1>2 DEF Ends, Counts, Stages, detector, ringVars
  <2> QED BY <2>1, <1>2, NothingScanned DEF Ends
<1>3. CASE Accept
  <2>1. input' \in Seq(Characters) /\ Len(input') \in Nat
    BY <1>3, RawInputAssumption DEF Accept
  <2>3. Counts'
    BY <1>0, <1>3, <2>1 DEF Accept, Counts, Stages, ringVars, PJL_EOJ_LEN
  <2>4. Stages'
    BY <1>0, <1>3 DEF Accept, Stages
  <2>2. eoj' = FALSE
    BY <1>0, <1>3 DEF Accept, Counts, Stages
  <2> QED BY <2>2, <2>3, <2>4, <1>3, NothingSeen DEF Accept
<1>4. CASE ReadSocket
  <2>1. Counts'
    BY <1>0, <1>4, ReadIsClamped DEF ReadSocket, Counts, connection, detector
  <2>2. Stages'
    BY <1>0, <1>4, ReadIsClamped DEF ReadSocket, Counts, Stages, connection, detector
  <2> QED BY <2>1, <2>2, <1>4, NothingScanned DEF ReadSocket, connection
<1>5. CASE Scan
  BY <1>5, ScanKeeps
<1>6. CASE EndOfRead
  <2>1. Counts' /\ Stages'
    BY <1>0, <1>6 DEF EndOfRead, Counts, Stages, connection, detector, ringVars
  <2> QED BY <2>1, <1>6, NothingScanned DEF EndOfRead, connection
<1>7. CASE SendPiece
  <2>1. Counts'
    BY <1>0, <1>7, PieceIsClamped DEF SendPiece, Counts, connection, detector
  <2>2. Stages'
    BY <1>0, <1>7 DEF SendPiece, Stages, connection, detector
  <2> QED BY <2>1, <2>2, <1>7, NothingScanned DEF SendPiece, connection
<1>8. CASE Over
  <2>1. Counts'
    <3>1. input' \in Seq(Characters) /\ Len(input') = 0
      BY <1>8 DEF Over
    <3> QED BY <3>1, <1>8, RingHasRoom DEF Over, Counts, PJL_EOJ_LEN
  <2>2. Stages'
    BY <1>8 DEF Over, Stages
  <2> QED BY <2>1, <2>2, <1>8, NothingSeen DEF Over
<1>9. CASE Finish
  <2>1. Counts' /\ Stages'
    BY <1>0, <1>9 DEF Finish, Counts, Stages, connection, detector, ringVars
  <2> QED BY <2>1, <1>9, NothingScanned DEF Finish, connection
<1>10. CASE NextPoll
  <2>1. Counts' /\ Stages'
    BY <1>0, <1>10 DEF NextPoll, Counts, Stages, connection, detector, ringVars
  <2> QED BY <2>1, <1>10, NothingScanned DEF NextPoll, connection
<1>11. CASE UNCHANGED rawInputVars
  <2>1. Counts' /\ Stages'
    BY <1>0, <1>11 DEF rawInputVars, Counts, Stages, connection, detector, ringVars
  <2> QED BY <2>1, <1>11, NothingScanned DEF rawInputVars, connection
<1> QED BY <1>1, <1>2, <1>3, <1>4, <1>5, <1>6, <1>7, <1>8, <1>9, <1>10, <1>11
        DEF RawInputNext, RawInputServer, Abort, CloseTransport

LEMMA DetectorInit ==
  ASSUME RawInputInit
  PROVE  DetectorInv
<1>1. input \in Seq(Characters) /\ Len(input) = 0
  BY DEF RawInputInit
<1>2. Counts /\ Stages
  BY <1>1, RingHasRoom DEF RawInputInit, Counts, Stages, PJL_EOJ_LEN
<1>3. Matches(0) /\ \A k \in 1..7 : ~Matches(k)
  BY DEF RawInputInit, Matches
<1> QED BY <1>2, <1>3, Sequence
      DEF RawInputInit, DetectorInv, DetectorLongest, EndsWithEoj, Matches

\* A RAW job ends at the first end-of-job sequence in what its client sends, and is
\* not ended by anything that only resembles it.
THEOREM JobEndsWithEoj == RawInputSpec => []EndsWithEoj
<1>1. RawInputInit => DetectorInv
  BY DetectorInit
<1>2. DetectorInv /\ [RawInputNext]_rawInputVars => DetectorInv'
  BY DetectorStep
<1>3. DetectorInv => EndsWithEoj
  BY DEF DetectorInv
<1> QED BY <1>1, <1>2, <1>3, PTL DEF RawInputSpec

-----------------------------------------------------------------------------
(***************************************************************************)
(* The ring: what was sent, followed by what it holds, is what was read.   *)
(***************************************************************************)
Cells == 0 .. RingSize - 1
Contents == Characters \cup {Blank}

RingHolds ==
  \A k \in 1..ringDataLen : ring[Cell(k)] = input[Len(pushed) + k]

RingInv ==
  /\ ring \in [Cells -> Contents] /\ pushed \in Seq(Contents)
  /\ Len(pushed) + ringDataLen = received
  /\ \A k \in 1..Len(pushed) : pushed[k] = input[k]
  /\ ringWritePos = Cell(ringDataLen + 1)
  /\ RingHolds
  /\ rpc = "off" => ringDataLen = 0
  /\ rpc = "close" => ringDataLen = 0 /\ (eoj \/ received = arrived)

\* The remainder of a position that has passed the end of the ring once at most.
LEMMA Once ==
  ASSUME NEW i \in Nat, i < 2 * RingSize
  PROVE  /\ i < RingSize => i % RingSize = i
         /\ i >= RingSize => i % RingSize = i - RingSize
<1>1. CASE i \in 0 .. RingSize - 1
  BY <1>1, RingHasRoom
<1>2. CASE i \in RingSize .. 2 * RingSize - 1
  BY <1>2, RingHasRoom
<1> QED BY <1>1, <1>2, RingHasRoom

LEMMA CellIs ==
  ASSUME Counts, NEW k \in 1 .. RingSize + 1
  PROVE  /\ Cell(k) \in Nat /\ Cell(k) < RingSize
         /\ ringReadPos + k <= RingSize => Cell(k) = ringReadPos + k - 1
         /\ ringReadPos + k > RingSize => Cell(k) = ringReadPos + k - 1 - RingSize
<1>1. /\ ringReadPos \in 0 .. RingSize - 1 /\ RingSize \in Nat /\ RingSize >= 1
      /\ ringReadPos + k - 1 \in Nat /\ ringReadPos + k - 1 < 2 * RingSize
  BY RingHasRoom DEF Counts
<1>2. /\ ringReadPos + k - 1 < RingSize => Cell(k) = ringReadPos + k - 1
      /\ ringReadPos + k - 1 >= RingSize => Cell(k) = ringReadPos + k - 1 - RingSize
  BY <1>1, Once DEF Cell
<1> QED BY <1>1, <1>2

\* Numbers only: where the k-th byte of a ring of size S lies that holds d bytes from
\* R on, when n more are written from W on.
LEMMA WrittenCell ==
  ASSUME NEW S \in Nat, NEW R \in Nat, R < S, NEW d \in Nat, NEW n \in Nat, d + n <= S,
         NEW W \in Nat, W + n <= S, n >= 1,
         R + d < S => W = R + d, R + d >= S => W = R + d - S
  PROVE  /\ R + d + n < 2 * S
         /\ R + d + n < S => W + n = R + d + n /\ W + n < S
         /\ R + d + n >= S => (W + n < S /\ W + n = R + d + n - S)
                              \/ (W + n = S /\ R + d + n - S = 0)
         /\ \A k \in 1 .. d + n, c \in Nat :
              /\ R + k <= S => c = R + k - 1
              /\ R + k > S => c = R + k - 1 - S
              => IF k <= d THEN c < W \/ c > W + n - 1
                 ELSE W <= c /\ c <= W + n - 1 /\ c = W + k - d - 1
<1>1. CASE R + d < S
  BY <1>1
<1>2. CASE R + d >= S
  BY <1>2
<1> QED BY <1>1, <1>2

\* What a read does to the ring, n being the bytes it takes.
LEMMA ReadIs ==
  ASSUME Counts, ReadSocket
  PROVE  \E n \in Nat :
           /\ n >= 1 /\ n <= arrived - received
           /\ n <= RingSize - ringDataLen /\ ringWritePos + n <= RingSize
           /\ ring' = [i \in Cells |-> IF i \in ringWritePos .. ringWritePos + n - 1
                                       THEN input[received + 1 + i - ringWritePos] ELSE ring[i]]
           /\ ringWritePos' = (ringWritePos + n) % RingSize
           /\ ringDataLen' = ringDataLen + n
           /\ received' = received + n
<1>1. /\ firstPart \in Nat /\ firstPart >= 1 /\ firstPart <= arrived - received
      /\ firstPart <= RingSize - ringDataLen /\ ringWritePos + firstPart <= RingSize
  BY RawInputAssumption DEF Counts, ReadSocket, Available, firstPart, want, Least
<1>2. /\ ring' = [i \in Cells |->
                    IF i \in ringWritePos .. ringWritePos + firstPart - 1
                    THEN input[received + 1 + i - ringWritePos] ELSE ring[i]]
      /\ ringWritePos' = (ringWritePos + firstPart) % RingSize
      /\ ringDataLen' = ringDataLen + firstPart
      /\ received' = received + firstPart
  BY DEF ReadSocket, Cells
<1> HIDE DEF firstPart
<1> QED BY <1>1, <1>2

\* The numbers of the ring.
LEMMA RingNumbers ==
  ASSUME Counts, RingInv
  PROVE  /\ RingSize \in Nat /\ RingSize >= 1
         /\ ringReadPos \in Nat /\ ringReadPos < RingSize
         /\ ringWritePos \in Nat /\ ringWritePos < RingSize
         /\ ringDataLen \in Nat /\ ringDataLen <= RingSize
         /\ ringReadPos + ringDataLen < RingSize => ringWritePos = ringReadPos + ringDataLen
         /\ ringReadPos + ringDataLen >= RingSize
              => ringWritePos = ringReadPos + ringDataLen - RingSize
         /\ received \in Nat /\ arrived \in Nat /\ Len(input) \in Nat /\ Len(pushed) \in Nat
         /\ received <= arrived /\ arrived <= Len(input)
         /\ Len(pushed) + ringDataLen = received
<1>1. /\ RingSize \in Nat /\ RingSize >= 1
      /\ ringReadPos \in Nat /\ ringReadPos < RingSize
      /\ ringDataLen \in Nat /\ ringDataLen <= RingSize
      /\ received \in Nat /\ arrived \in Nat /\ Len(input) \in Nat /\ Len(pushed) \in Nat
      /\ received <= arrived /\ arrived <= Len(input)
      /\ Len(pushed) + ringDataLen = received
  BY RingHasRoom DEF Counts, RingInv
<1>2. /\ ringWritePos = Cell(ringDataLen + 1)
      /\ ringDataLen + 1 \in 1 .. RingSize + 1
  BY <1>1 DEF RingInv
<1>3. /\ ringWritePos \in Nat /\ ringWritePos < RingSize
      /\ ringReadPos + (ringDataLen + 1) <= RingSize
           => ringWritePos = ringReadPos + (ringDataLen + 1) - 1
      /\ ringReadPos + (ringDataLen + 1) > RingSize
           => ringWritePos = ringReadPos + (ringDataLen + 1) - 1 - RingSize
  BY <1>2, CellIs
<1> QED BY <1>1, <1>3

\* A read fills the cells that follow those in use, and no other.
LEMMA ReadKeepsRing ==
  ASSUME Counts, RingInv, ReadSocket
  PROVE  RingInv'
<1>0. PICK n \in Nat :
        /\ n >= 1 /\ n <= arrived - received
        /\ n <= RingSize - ringDataLen /\ ringWritePos + n <= RingSize
        /\ ring' = [i \in Cells |-> IF i \in ringWritePos .. ringWritePos + n - 1
                                    THEN input[received + 1 + i - ringWritePos] ELSE ring[i]]
        /\ ringWritePos' = (ringWritePos + n) % RingSize
        /\ ringDataLen' = ringDataLen + n
        /\ received' = received + n
  BY ReadIs
<1>a. /\ RingSize \in Nat /\ RingSize >= 1
      /\ ringReadPos \in Nat /\ ringReadPos < RingSize
      /\ ringWritePos \in Nat /\ ringWritePos < RingSize
      /\ ringDataLen \in Nat /\ ringDataLen <= RingSize
      /\ received \in Nat /\ arrived \in Nat /\ Len(input) \in Nat /\ Len(pushed) \in Nat
      /\ received <= arrived /\ arrived <= Len(input)
      /\ Len(pushed) + ringDataLen = received
  BY RingNumbers
<1>b. /\ ringReadPos + ringDataLen < RingSize => ringWritePos = ringReadPos + ringDataLen
      /\ ringReadPos + ringDataLen >= RingSize
           => ringWritePos = ringReadPos + ringDataLen - RingSize
  BY RingNumbers
<1>c. /\ n \in Nat /\ n >= 1 /\ n <= arrived - received
      /\ n <= RingSize - ringDataLen /\ ringWritePos + n <= RingSize
  BY <1>0
<1>1. /\ n \in Nat /\ n >= 1 /\ n <= arrived - received
      /\ ringDataLen + n <= RingSize /\ ringWritePos + n <= RingSize
  BY <1>a, <1>c
<1>2. ring' = [i \in Cells |-> IF i \in ringWritePos .. ringWritePos + n - 1
                               THEN input[received + 1 + i - ringWritePos] ELSE ring[i]]
  BY <1>0
<1>3. /\ ringWritePos' = (ringWritePos + n) % RingSize
      /\ ringDataLen' = ringDataLen + n /\ received' = received + n
  BY <1>0
<1>4. rpc' = "scan" /\ UNCHANGED <<input, arrived, ringReadPos, pushed, eoj>>
  BY DEF ReadSocket, connection
<1>5. /\ ringReadPos + ringDataLen + n < 2 * RingSize
      /\ ringReadPos + ringDataLen + n < RingSize
           => ringWritePos + n = ringReadPos + ringDataLen + n /\ ringWritePos + n < RingSize
      /\ ringReadPos + ringDataLen + n >= RingSize
           => \/ ringWritePos + n < RingSize
                 /\ ringWritePos + n = ringReadPos + ringDataLen + n - RingSize
              \/ ringWritePos + n = RingSize /\ ringReadPos + ringDataLen + n - RingSize = 0
      /\ \A k \in 1 .. ringDataLen + n, c \in Nat :
           /\ ringReadPos + k <= RingSize => c = ringReadPos + k - 1
           /\ ringReadPos + k > RingSize => c = ringReadPos + k - 1 - RingSize
           => IF k <= ringDataLen THEN c < ringWritePos \/ c > ringWritePos + n - 1
              ELSE /\ ringWritePos <= c /\ c <= ringWritePos + n - 1
                   /\ c = ringWritePos + k - ringDataLen - 1
  BY <1>1, <1>a, <1>b, WrittenCell
<1>6. ring' \in [Cells -> Contents]
  <2>1. ASSUME NEW i \in Cells, i \in ringWritePos .. ringWritePos + n - 1
        PROVE  input[received + 1 + i - ringWritePos] \in Contents
    <3>1. received + 1 + i - ringWritePos \in 1 .. Len(input)
      BY <2>1, <1>1, <1>a
    <3> QED BY <3>1 DEF Counts, Contents
  <2> QED BY <2>1, <1>2 DEF RingInv
<1>7. ringWritePos' = Cell(ringDataLen + 1)'
  <2> DEFINE x == ringWritePos + n
             y == ringReadPos + ringDataLen + n
  <2>1. /\ x \in Nat /\ y \in Nat /\ x < 2 * RingSize /\ y < 2 * RingSize
        /\ y < RingSize => x = y
        /\ y >= RingSize => (x < RingSize /\ x = y - RingSize)
                            \/ (x = RingSize /\ y - RingSize = 0)
    BY <1>1, <1>5, <1>a
  <2>2. ringWritePos' = x % RingSize /\ y = ringReadPos + (ringDataLen + n + 1) - 1
    BY <1>3, <1>a, <1>1
  <2> HIDE DEF x, y
  <2>3. /\ x < RingSize => x % RingSize = x
        /\ x >= RingSize => x % RingSize = x - RingSize
        /\ y < RingSize => y % RingSize = y
        /\ y >= RingSize => y % RingSize = y - RingSize
    BY <2>1, Once
  <2>4. x % RingSize = y % RingSize
    BY <2>1, <2>3, <1>a
  <2>5. Cell(ringDataLen + 1)' = (ringReadPos + (ringDataLen + n + 1) - 1) % RingSize
    BY <1>3, <1>4 DEF Cell
  <2> QED BY <2>2, <2>4, <2>5
<1>8. ASSUME NEW k \in 1 .. ringDataLen + n
      PROVE  ring'[Cell(k)] = input[Len(pushed) + k]
  <2>1. k \in 1 .. RingSize + 1 /\ k \in Nat
    BY <1>1, <1>a
  <2>2. /\ Cell(k) \in Nat /\ Cell(k) < RingSize
        /\ IF k <= ringDataLen THEN Cell(k) < ringWritePos \/ Cell(k) > ringWritePos + n - 1
           ELSE /\ ringWritePos <= Cell(k) /\ Cell(k) <= ringWritePos + n - 1
                /\ Cell(k) = ringWritePos + k - ringDataLen - 1
    BY <2>1, <1>5, CellIs
  <2>3. Cell(k) \in Cells
    BY <2>2, <1>a DEF Cells
  <2>4. CASE k <= ringDataLen
    <3>1. ~(Cell(k) \in ringWritePos .. ringWritePos + n - 1)
      BY <2>2, <2>4, <1>a
    <3>2. k \in 1 .. ringDataLen
      BY <2>1, <2>4, <1>a
    <3>3. ring[Cell(k)] = input[Len(pushed) + k]
      BY <3>2 DEF RingInv, RingHolds
    <3> QED BY <3>1, <3>3, <2>3, <1>2
  <2>5. CASE ~(k <= ringDataLen)
    <3>1. /\ Cell(k) \in ringWritePos .. ringWritePos + n - 1
          /\ received + 1 + Cell(k) - ringWritePos = Len(pushed) + k
      BY <2>1, <2>2, <2>5, <1>a
    <3> QED BY <3>1, <2>3, <1>2
  <2> QED BY <2>4, <2>5
<1>9. RingHolds'
  BY <1>3, <1>4, <1>8 DEF RingHolds, Cell
<1>10. Len(pushed') + ringDataLen' = received'
  BY <1>1, <1>3, <1>4, <1>a
<1> QED BY <1>4, <1>6, <1>7, <1>9, <1>10 DEF RingInv

\* What sending a piece does to the ring, m being the bytes it takes.
LEMMA PieceIs ==
  ASSUME Counts, SendPiece
  PROVE  \E m \in Nat :
           /\ m >= 1 /\ m <= ringDataLen /\ ringReadPos + m <= RingSize
           /\ pushed' = pushed \o [i \in 1..m |-> ring[ringReadPos + i - 1]]
           /\ ring' = [i \in Cells |-> IF i \in ringReadPos .. ringReadPos + m - 1
                                       THEN Blank ELSE ring[i]]
           /\ ringReadPos' = (ringReadPos + m) % RingSize
           /\ ringDataLen' = ringDataLen - m
<1>1. Piece \in Nat /\ Piece >= 1 /\ Piece <= ringDataLen /\ ringReadPos + Piece <= RingSize
  BY RawInputAssumption DEF Counts, SendPiece, Piece, Least
<1>2. /\ pushed' = pushed \o [i \in 1..Piece |-> ring[ringReadPos + i - 1]]
      /\ ring' = [i \in Cells |-> IF i \in ringReadPos .. ringReadPos + Piece - 1
                                  THEN Blank ELSE ring[i]]
      /\ ringReadPos' = (ringReadPos + Piece) % RingSize
      /\ ringDataLen' = ringDataLen - Piece
  BY DEF SendPiece, Cells
<1> HIDE DEF Piece
<1> QED BY <1>1, <1>2

\* The bytes sent follow those sent before, and those left keep their cells.
LEMMA PieceKeepsRing ==
  ASSUME Counts, RingInv, SendPiece
  PROVE  RingInv'
<1>0. PICK m \in Nat :
        /\ m >= 1 /\ m <= ringDataLen /\ ringReadPos + m <= RingSize
        /\ pushed' = pushed \o [i \in 1..m |-> ring[ringReadPos + i - 1]]
        /\ ring' = [i \in Cells |-> IF i \in ringReadPos .. ringReadPos + m - 1
                                    THEN Blank ELSE ring[i]]
        /\ ringReadPos' = (ringReadPos + m) % RingSize
        /\ ringDataLen' = ringDataLen - m
  BY PieceIs
<1>a. /\ RingSize \in Nat /\ RingSize >= 1
      /\ ringReadPos \in Nat /\ ringReadPos < RingSize
      /\ ringDataLen \in Nat /\ ringDataLen <= RingSize
      /\ received \in Nat /\ Len(pushed) \in Nat
      /\ Len(pushed) + ringDataLen = received
  BY RingNumbers
<1>1. m \in Nat /\ m >= 1 /\ m <= ringDataLen /\ ringReadPos + m <= RingSize
  BY <1>0
<1>2. ring' = [i \in Cells |-> IF i \in ringReadPos .. ringReadPos + m - 1
                               THEN Blank ELSE ring[i]]
  BY <1>0
<1>3. ringReadPos' = (ringReadPos + m) % RingSize /\ ringDataLen' = ringDataLen - m
  BY <1>0
<1>4. UNCHANGED <<input, arrived, received, ringWritePos, rpc, eoj>>
  BY DEF SendPiece, connection
<1> DEFINE piece == [i \in 1..m |-> ring[ringReadPos + i - 1]]
<1>5. pushed' = pushed \o piece
  BY <1>0
<1>6. ASSUME NEW i \in 1..m
      PROVE  /\ ringReadPos + i - 1 \in Cells
             /\ ring[ringReadPos + i - 1] = input[Len(pushed) + i]
  <2>1. i \in 1 .. RingSize + 1 /\ i \in 1..ringDataLen /\ ringReadPos + i <= RingSize
    BY <1>1, <1>a
  <2>2. Cell(i) = ringReadPos + i - 1
    BY <2>1, CellIs
  <2>3. ring[Cell(i)] = input[Len(pushed) + i]
    BY <2>1 DEF RingInv, RingHolds
  <2>4. ringReadPos + i - 1 \in Cells
    BY <1>1, <1>a DEF Cells
  <2> QED BY <2>2, <2>3, <2>4
<1>7. piece \in Seq(Contents) /\ Len(piece) = m
  <2>1. ASSUME NEW i \in 1..m PROVE ring[ringReadPos + i - 1] \in Contents
    BY <2>1, <1>6 DEF RingInv
  <2> QED BY <2>1, <1>1
<1>8. \A i \in 1..m : piece[i] = input[Len(pushed) + i]
  BY <1>6
<1> HIDE DEF piece
<1>9. /\ pushed' \in Seq(Contents) /\ Len(pushed') = Len(pushed) + m
      /\ \A i \in 1..Len(pushed) : pushed'[i] = pushed[i]
      /\ \A i \in 1..m : pushed'[Len(pushed) + i] = piece[i]
  <2>1. pushed \in Seq(Contents)
    BY DEF RingInv
  <2>2. /\ pushed \o piece \in Seq(Contents) /\ Len(pushed \o piece) = Len(pushed) + Len(piece)
        /\ \A i \in 1..Len(pushed) : (pushed \o piece)[i] = pushed[i]
        /\ \A i \in 1..Len(piece) : (pushed \o piece)[Len(pushed) + i] = piece[i]
    BY <2>1, <1>7
  <2> QED BY <2>2, <1>5, <1>7
<1>10. ASSUME NEW k \in 1..Len(pushed') PROVE pushed'[k] = input[k]
  <2>1. k \in Nat /\ k >= 1 /\ k <= Len(pushed) + m
    BY <1>1, <1>a, <1>9
  <2>2. CASE k <= Len(pushed)
    <3>1. k \in 1..Len(pushed)
      BY <2>1, <2>2, <1>a
    <3> QED BY <3>1, <1>9 DEF RingInv
  <2>3. CASE ~(k <= Len(pushed))
    <3>1. k - Len(pushed) \in 1..m /\ Len(pushed) + (k - Len(pushed)) = k
      BY <2>1, <2>3, <1>a, <1>1
    <3>2. /\ pushed'[Len(pushed) + (k - Len(pushed))] = piece[k - Len(pushed)]
          /\ piece[k - Len(pushed)] = input[Len(pushed) + (k - Len(pushed))]
      BY <3>1, <1>8, <1>9
    <3> QED BY <3>1, <3>2
  <2> QED BY <2>2, <2>3
<1>11. Len(pushed') + ringDataLen' = received'
  BY <1>1, <1>3, <1>4, <1>9, <1>a
<1>12. ring' \in [Cells -> Contents]
  BY <1>2 DEF RingInv, Contents
<1>13. /\ ringReadPos' \in Nat /\ ringReadPos' < RingSize
       /\ ringReadPos + m < RingSize => ringReadPos' = ringReadPos + m
       /\ ringReadPos + m >= RingSize => ringReadPos' = ringReadPos + m - RingSize
  <2> DEFINE x == ringReadPos + m
  <2>1. /\ x \in Nat /\ x < 2 * RingSize /\ ringReadPos' = x % RingSize
        /\ x = ringReadPos + m /\ x <= RingSize
    BY <1>1, <1>a, <1>3
  <2> HIDE DEF x
  <2>2. /\ x < RingSize => ringReadPos' = x
        /\ x >= RingSize => ringReadPos' = x - RingSize
    BY <2>1, Once
  <2>3. x \in Nat /\ x = ringReadPos + m /\ x <= RingSize
    BY <2>1
  <2> QED BY <2>2, <2>3, <1>a
<1> DEFINE Q == ringReadPos'
<1>q. /\ Q \in Nat /\ Q < RingSize
      /\ ringReadPos + m < RingSize => Q = ringReadPos + m
      /\ ringReadPos + m >= RingSize => Q = ringReadPos + m - RingSize
  BY <1>13
<1> HIDE DEF Q
<1>14. ASSUME NEW k \in 1 .. ringDataLen - m + 1
       PROVE  /\ (Q + k - 1) % RingSize = Cell(m + k)
              /\ k <= ringDataLen - m
                   => ~(Cell(m + k) \in ringReadPos .. ringReadPos + m - 1)
  <2>1. /\ k \in Nat /\ k >= 1 /\ k <= ringDataLen - m + 1
        /\ k \in 1 .. RingSize + 1 /\ m + k \in 1 .. RingSize + 1
    BY <1>1, <1>a
  <2>2. /\ Cell(m + k) \in Nat
        /\ ringReadPos + (m + k) <= RingSize => Cell(m + k) = ringReadPos + (m + k) - 1
        /\ ringReadPos + (m + k) > RingSize
             => Cell(m + k) = ringReadPos + (m + k) - 1 - RingSize
    BY <2>1, CellIs
  <2> DEFINE x == Q + k - 1
  <2>3. /\ x \in Nat /\ x < 2 * RingSize /\ x = Q + k - 1
        /\ Q + k <= RingSize => x < RingSize
        /\ Q + k > RingSize => x >= RingSize
    <3>1. /\ Q \in Nat /\ Q < RingSize
          /\ k \in Nat /\ k >= 1 /\ k <= RingSize /\ RingSize \in Nat
      BY <2>1, <1>1, <1>q, <1>a
    <3>2. x = Q + k - 1
      OBVIOUS
    <3>3. x \in Nat
      BY <3>1, <1>1, <1>a
    <3>4. x < 2 * RingSize
      BY <3>1, <1>1, <1>a
    <3>5. /\ Q + k <= RingSize => x < RingSize
          /\ Q + k > RingSize => x >= RingSize
      BY <3>1, <1>1, <1>a
    <3> QED BY <3>2, <3>3, <3>4, <3>5
  <2> HIDE DEF x
  <2>4. /\ x < RingSize => x % RingSize = x
        /\ x >= RingSize => x % RingSize = x - RingSize
    BY <2>3, Once
  <2> DEFINE c == x % RingSize
  <2>5. /\ x < RingSize => c = x
        /\ x >= RingSize => c = x - RingSize
    BY <2>4
  <2>6. c = (Q + k - 1) % RingSize
    BY <2>3
  <2> HIDE DEF c
  <2>7. c \in Nat
    BY <2>3, <2>5, <1>a
  <2>8. /\ Q + k <= RingSize => c = Q + k - 1
        /\ Q + k > RingSize => c = Q + k - 1 - RingSize
    <3>1. /\ x = Q + k - 1
          /\ Q \in Nat /\ k \in Nat /\ RingSize \in Nat /\ x \in Nat
      BY <2>1, <2>3, <1>q, <1>a
    <3>2. CASE Q + k <= RingSize
      BY <3>1, <3>2, <2>3, <2>5, <1>1, <1>a
    <3>3. CASE Q + k > RingSize
      BY <3>1, <3>3, <2>3, <2>5, <1>1, <1>a
    <3> QED BY <3>1, <3>2, <3>3
  <2>9. /\ c = Cell(m + k)
        /\ k <= ringDataLen - m => c < ringReadPos \/ c > ringReadPos + m - 1
    <3> DEFINE b == Cell(m + k)
    <3>1. /\ b \in Nat
          /\ ringReadPos + (m + k) <= RingSize => b = ringReadPos + (m + k) - 1
          /\ ringReadPos + (m + k) > RingSize => b = ringReadPos + (m + k) - 1 - RingSize
      BY <2>2
    <3> HIDE DEF b
    <3>2. c = b /\ (k <= ringDataLen - m => c < ringReadPos \/ c > ringReadPos + m - 1)
      <4>1. CASE ringReadPos + m < RingSize
        BY <4>1, <3>1, <2>1, <2>7, <2>8, <1>1, <1>q, <1>a
      <4>2. CASE ringReadPos + m >= RingSize
        BY <4>2, <3>1, <2>1, <2>7, <2>8, <1>1, <1>q, <1>a
      <4> QED BY <4>1, <4>2, <1>1, <1>a
    <3> QED BY <3>2 DEF b
  <2>10. k <= ringDataLen - m => ~(Cell(m + k) \in ringReadPos .. ringReadPos + m - 1)
    BY <2>2, <2>9, <1>1, <1>a
  <2> QED BY <2>6, <2>9, <2>10
<1>15. ringWritePos' = Cell(ringDataLen + 1)'
  <2> DEFINE k == ringDataLen - m + 1
  <2>1. k \in 1 .. ringDataLen - m + 1 /\ m + k = ringDataLen + 1
    BY <1>1, <1>a
  <2>2. k = ringDataLen' + 1
    BY <1>3
  <2> HIDE DEF k
  <2>3. (ringReadPos' + k - 1) % RingSize = Cell(ringDataLen + 1)
    <3>1. (Q + k - 1) % RingSize = Cell(m + k)
      BY <2>1, <1>14
    <3> QED BY <3>1, <2>1 DEF Q
  <2>4. Cell(ringDataLen + 1)' = (ringReadPos' + (ringDataLen' + 1) - 1) % RingSize
    BY DEF Cell
  <2>5. ringWritePos = Cell(ringDataLen + 1)
    BY DEF RingInv
  <2> QED BY <2>2, <2>3, <2>4, <2>5, <1>4
<1>16. ASSUME NEW k \in 1..ringDataLen'
       PROVE  ring'[Cell(k)'] = input'[Len(pushed') + k]
  <2>1. /\ k \in 1 .. ringDataLen - m + 1 /\ k <= ringDataLen - m
        /\ m + k \in 1..ringDataLen /\ m + k \in 1 .. RingSize + 1
        /\ Len(pushed) + (m + k) = Len(pushed') + k
    BY <1>1, <1>3, <1>9, <1>a
  <2>2. /\ (Q + k - 1) % RingSize = Cell(m + k)
        /\ ~(Cell(m + k) \in ringReadPos .. ringReadPos + m - 1)
    BY <2>1, <1>14
  <2>6. Cell(k)' = (Q + k - 1) % RingSize
    BY DEF Cell, Q
  <2>3. Cell(m + k) \in Cells
    <3>1. Cell(m + k) \in Nat /\ Cell(m + k) < RingSize
      BY <2>1, CellIs
    <3> QED BY <3>1, <1>a DEF Cells
  <2>4. ring[Cell(m + k)] = input[Len(pushed) + (m + k)]
    BY <2>1 DEF RingInv, RingHolds
  <2>5. ring'[Cell(m + k)] = ring[Cell(m + k)]
    BY <2>2, <2>3, <1>2
  <2>7. Cell(k)' = Cell(m + k)
    BY <2>2, <2>6
  <2> QED BY <2>1, <2>4, <2>5, <2>7, <1>4
<1>17. RingHolds'
  BY <1>16 DEF RingHolds
<1>18. rpc' # "off" /\ rpc' # "close"
  BY DEF SendPiece
<1> QED BY <1>9, <1>10, <1>11, <1>12, <1>15, <1>17, <1>18, <1>4 DEF RingInv

\* A connection begins, and ends, with an empty ring.
LEMMA EmptyRing ==
  ASSUME Counts', ring' \in [Cells -> Contents], pushed' = <<>>, received' = 0,
         ringDataLen' = 0, ringWritePos' = ringReadPos', rpc' # "close"
  PROVE  RingInv'
<1>1. /\ pushed' \in Seq(Contents) /\ Len(pushed') = 0
      /\ 1..Len(pushed') = {} /\ 1..ringDataLen' = {}
  OBVIOUS
<1>2. ringWritePos' = Cell(ringDataLen + 1)'
  <2> DEFINE Q == ringReadPos'
  <2>1. Q \in 0 .. RingSize - 1
    BY DEF Counts
  <2>2. Cell(ringDataLen + 1)' = (Q + (0 + 1) - 1) % RingSize
    BY DEF Cell
  <2> HIDE DEF Q
  <2>3. Q + (0 + 1) - 1 = Q /\ Q \in Nat /\ Q < RingSize /\ Q < 2 * RingSize
    BY <2>1, RingHasRoom
  <2>4. Q % RingSize = Q
    BY <2>3, Once
  <2> QED BY <2>2, <2>3, <2>4 DEF Q
<1>3. RingHolds'
  BY <1>1 DEF RingHolds
<1> QED BY <1>1, <1>2, <1>3 DEF RingInv

\* The ring, what was read and what was sent are unchanged.
LEMMA RingUntouched ==
  ASSUME RingInv, UNCHANGED <<input, received, ringVars, pushed>>, rpc' # "off",
         rpc' = "close" => ringDataLen = 0 /\ (eoj' \/ received = arrived')
  PROVE  RingInv'
<1>1. RingHolds' /\ Cell(ringDataLen + 1)' = Cell(ringDataLen + 1)
  BY DEF RingInv, RingHolds, ringVars, Cell
<1> QED BY <1>1 DEF RingInv, ringVars

LEMMA RingStep ==
  ASSUME DetectorInv, RingInv, [RawInputNext]_rawInputVars
  PROVE  RingInv'
<1>0. Counts /\ Counts' /\ Stages
  BY DetectorStep DEF DetectorInv
<1>1. CASE Sends
  BY <1>1, RingUntouched DEF Sends, detector
<1>2. CASE Ends
  BY <1>2, RingUntouched DEF Ends, detector
<1>3. CASE Accept
  <2>1. ringDataLen = 0 /\ ringWritePos = ringReadPos
    <3>1. ringDataLen = 0
      BY <1>3 DEF Accept, RingInv
    <3>2. /\ ringReadPos \in Nat /\ ringReadPos < RingSize /\ RingSize \in Nat
          /\ ringReadPos + ringDataLen < RingSize => ringWritePos = ringReadPos + ringDataLen
      BY <1>0, RingNumbers
    <3> QED BY <3>1, <3>2
  <2> QED BY <2>1, <1>0, <1>3, EmptyRing DEF Accept, ringVars, RingInv
<1>4. CASE ReadSocket
  BY <1>0, <1>4, ReadKeepsRing
<1>5. CASE Scan
  BY <1>5, RingUntouched DEF Scan, connection
<1>6. CASE EndOfRead
  BY <1>6, RingUntouched DEF EndOfRead, connection
<1>7. CASE SendPiece
  BY <1>0, <1>7, PieceKeepsRing
<1>8. CASE Over
  <2>1. ring' \in [Cells -> Contents]
    BY <1>8 DEF Over, Cells, Contents
  <2> QED BY <2>1, <1>0, <1>8, EmptyRing DEF Over
<1>9. CASE Finish
  <2>1. eoj \/ received = arrived
    <3>1. received \in Nat /\ arrived \in Nat
      BY <1>0 DEF Counts
    <3> QED BY <3>1, <1>0, <1>9 DEF Finish, Available, Stages
  <2> QED BY <2>1, <1>9, RingUntouched DEF Finish, connection
<1>10. CASE NextPoll
  BY <1>10, RingUntouched DEF NextPoll, connection
<1>11. CASE UNCHANGED rawInputVars
  <2>1. RingHolds' /\ Cell(ringDataLen + 1)' = Cell(ringDataLen + 1)
    BY <1>11 DEF RingInv, RingHolds, ringVars, rawInputVars, connection, Cell
  <2> QED BY <2>1, <1>11 DEF RingInv, ringVars, rawInputVars, connection
<1> QED BY <1>1, <1>2, <1>3, <1>4, <1>5, <1>6, <1>7, <1>8, <1>9, <1>10, <1>11
        DEF RawInputNext, RawInputServer, Abort, CloseTransport

\* A sequence that begins with s and goes on with t.
LEMMA Joined ==
  ASSUME NEW V, NEW s \in Seq(V), NEW t \in Seq(V), NEW u \in Seq(V),
         Len(u) = Len(s) + Len(t),
         \A i \in 1..Len(s) : s[i] = u[i],
         \A i \in 1..Len(t) : t[i] = u[Len(s) + i]
  PROVE  s \o t = u
<1>1. s \o t \in Seq(V) /\ Len(s \o t) = Len(u)
  OBVIOUS
<1>2. ASSUME NEW i \in 1..Len(u) PROVE (s \o t)[i] = u[i]
  <2>1. CASE i <= Len(s)
    BY <2>1
  <2>2. CASE i > Len(s)
    <3>1. i - Len(s) \in 1..Len(t) /\ Len(s) + (i - Len(s)) = i
      BY <2>2
    <3>2. (s \o t)[i] = t[i - Len(s)]
      BY <2>2
    <3> QED BY <3>1, <3>2
  <2> QED BY <2>1, <2>2
<1> QED BY <1>1, <1>2, SeqEqual

LEMMA RingInvIsInOrder ==
  ASSUME Counts, RingInv
  PROVE  BytesInOrder
<1> DEFINE held == [k \in 1..ringDataLen |-> ring[Cell(k)]]
           u == SubSeq(input, 1, received)
<1>1. /\ ringDataLen \in Nat /\ ringDataLen <= RingSize /\ RingSize \in Nat
      /\ received \in Nat /\ Len(pushed) \in Nat /\ Len(pushed) + ringDataLen = received
      /\ Len(input) \in Nat /\ received <= Len(input)
  BY RingNumbers
<1>2. held \in Seq(Contents) /\ Len(held) = ringDataLen
  <2>1. ASSUME NEW k \in 1..ringDataLen PROVE ring[Cell(k)] \in Contents
    <3>1. k \in 1 .. RingSize + 1
      BY <1>1
    <3>2. Cell(k) \in Nat /\ Cell(k) < RingSize
      BY <3>1, CellIs
    <3>3. Cell(k) \in Cells
      BY <3>2, <1>1 DEF Cells
    <3> QED BY <3>3 DEF RingInv
  <2> QED BY <2>1, <1>1
<1>3. /\ u \in Seq(Contents) /\ Len(u) = received
      /\ \A i \in 1..received : u[i] = input[i]
  <2>1. input \in Seq(Contents)
    BY DEF Counts, Contents
  <2> QED BY <2>1, <1>1
<1>4. \A k \in 1..ringDataLen : held[k] = input[Len(pushed) + k]
  BY DEF RingInv, RingHolds
<1>5. pushed \in Seq(Contents) /\ \A k \in 1..Len(pushed) : pushed[k] = input[k]
  BY DEF RingInv
<1> HIDE DEF held, u
<1>6. \A k \in 1..Len(pushed) : pushed[k] = u[k]
  BY <1>1, <1>3, <1>5
<1>7. \A k \in 1..Len(held) : held[k] = u[Len(pushed) + k]
  <2> SUFFICES ASSUME NEW k \in 1..ringDataLen PROVE held[k] = u[Len(pushed) + k]
    BY <1>2
  <2>1. Len(pushed) + k \in 1..received
    BY <1>1
  <2> QED BY <2>1, <1>3, <1>4
<1>8. pushed \o held = u
  <2>1. Len(u) = Len(pushed) + Len(held)
    BY <1>1, <1>2, <1>3
  <2> QED BY <2>1, <1>2, <1>3, <1>5, <1>6, <1>7, Joined
<1> QED BY <1>8 DEF BytesInOrder, RingInv, held, u

\* The ring is empty at first.
LEMMA RingInit ==
  ASSUME RawInputInit
  PROVE  RingInv
<1>1. ring \in [Cells -> Contents]
  BY DEF RawInputInit, Cells, Contents
<1>2. /\ pushed \in Seq(Contents) /\ Len(pushed) = 0
      /\ 1..Len(pushed) = {} /\ 1..ringDataLen = {}
  BY DEF RawInputInit
<1>3. ringWritePos = Cell(ringDataLen + 1)
  <2>1. ringReadPos = 0 /\ ringWritePos = 0 /\ ringReadPos + (ringDataLen + 1) - 1 = 0
    BY DEF RawInputInit
  <2>2. 0 % RingSize = 0
    BY RingHasRoom
  <2> QED BY <2>1, <2>2 DEF Cell
<1> QED BY <1>1, <1>2, <1>3 DEF RawInputInit, RingInv, RingHolds

\* What the printer got of a RAW connection, followed by what the ring still holds, is
\* what was read from the client, in order, for every size of the ring, of the reads
\* and of the pieces, and a job that is finished has been sent whole.
THEOREM BytesReachThePrinterInOrder == RawInputSpec => []BytesInOrder
<1>1. RawInputInit => DetectorInv
  BY DetectorInit
<1>2. RawInputInit => RingInv
  BY RingInit
<1>3. DetectorInv /\ [RawInputNext]_rawInputVars => DetectorInv'
  BY DetectorStep
<1>4. DetectorInv /\ RingInv /\ [RawInputNext]_rawInputVars => RingInv'
  BY RingStep
<1>5. DetectorInv /\ RingInv => BytesInOrder
  BY RingInvIsInOrder DEF DetectorInv
<1> QED BY <1>1, <1>2, <1>3, <1>4, <1>5, PTL DEF RawInputSpec
=============================================================================
