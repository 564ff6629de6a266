------------------------- MODULE NetworkInputProofs -------------------------
(***************************************************************************)
(* Theorems about what is read from the network, for every set of requests *)
(* and of RAW inputs and every size of the buffers: the types of both      *)
(* readers, and the four promises about the body of a request.             *)
(*                                                                         *)
(* A request in chunks is a sequence of tokens that follows a grammar, and *)
(* the invariant says at which place of the grammar the reader is for each *)
(* of its next steps: before the size of a chunk, within it, in the bytes  *)
(* after it, in a line.  What it has taken for payload is the bytes of     *)
(* payload before that place, and where it stops, whether the client has   *)
(* ended its document there follows from the place.                        *)
(***************************************************************************)
EXTENDS NetworkInput, RawInputProofs, FiniteSetTheorems

-----------------------------------------------------------------------------
(***************************************************************************)
(* The inductive invariant                                                 *)
(***************************************************************************)
text == request.tokens

\* Nothing has happened before a request is read.
OffInv ==
  hpc = "off" =>
    /\ sent = 0 /\ ~shut /\ taken = 0 /\ chunkRemaining = 0 /\ ~done /\ ~framingError
    /\ ~peerClosed /\ line = <<>> /\ part = "head" /\ block = <<>>
    /\ delivered = <<>> /\ outcome = "none" /\ ~stalled /\ ~hurried

\* What the next step of the reader says of its flags, ...
StageInv ==
  /\ outcome = "none" <=> hpc # "end"
  /\ hpc = "block" => part # "head"
  /\ hpc \in {"size", "trailer", "data", "after"} => ~done /\ ~framingError
  /\ hpc \notin {"size", "trailer", "after"} /\ ~done /\ ~framingError => line = <<>>

\* ... and of what is left to read.
NeedInv ==
  /\ hpc \in {"size", "trailer", "data"} => Room > 0
  /\ hpc \in {"size", "trailer", "after"} => request.chunked /\ chunkRemaining = 0
  /\ hpc = "data" => IF request.chunked THEN chunkRemaining > 0 ELSE remaining # 0
  /\ IF request.chunked THEN hpc # "off" => remaining = -1 ELSE chunkRemaining = 0

ClosedInv == peerClosed => shut /\ taken = sent /\ (part = "head" => hpc = "end")

ReaderInv == StageInv /\ NeedInv /\ ClosedInv

\* Where a sound chunked request t may be cut: at p comes the size of a chunk, ...
AtSize(t, p) == p = Len(t) \/ t[p + 1][1] = "size"

Boundary(t, p) == p \in 0..Len(t) /\ AtSize(t, p) /\ (p = 0 \/ EndsChunk(t, p))

\* ... c more bytes of a chunk, ...
InChunk(t, p, c) ==
  /\ p + c + 2 <= Len(t) /\ ~EndsChunk(t, p)
  /\ \A k \in (p + 1)..(p + c) : t[k][1] = "byte"
  /\ t[p + c + 1] = CR /\ t[p + c + 2] = LF /\ AtSize(t, p + c + 2)

\* ... what ends it, when the line l of it has been taken, ...
AfterAt(t, p, l) ==
  \/ /\ l = <<>> /\ p > 0 /\ p + 2 <= Len(t) /\ t[p][1] = "byte"
     /\ t[p + 1] = CR /\ t[p + 2] = LF /\ AtSize(t, p + 2)
  \/ /\ l = <<CR>> /\ p > 1 /\ p + 1 <= Len(t) /\ t[p - 1][1] = "byte"
     /\ t[p] = CR /\ t[p + 1] = LF /\ AtSize(t, p + 1)

\* ... the rest of a line of which l has been taken, ...
LineIs(t, p, l) ==
  Len(l) <= p /\ \A k \in 1..Len(l) : l[k] = t[p - Len(l) + k] /\ l[k] # LF

SizeAt(t, p, l) ==
  IF l = <<>> THEN Boundary(t, p) ELSE LineIs(t, p, l) /\ l[1][1] = "size"

\* ... or one after the last chunk's.
LastRead(t, p) ==
  \E i \in DOMAIN t, j \in DOMAIN t :
    t[i] = Size(0) /\ SizeLineAt(t, i, j) /\ TrailerAt(t, j) /\ j <= p

TrailingAt(t, p, l) ==
  LineIs(t, p, l) /\ LastRead(t, p - Len(l)) /\ p < Len(t) /\ t[p - Len(l)] = LF

Place ==
  /\ hpc \in {"next", "data", "block", "end"} =>
       IF chunkRemaining > 0 THEN InChunk(text, taken, chunkRemaining)
       ELSE Boundary(text, taken)
  /\ hpc = "size" => SizeAt(text, taken, line)
  /\ hpc = "trailer" => TrailingAt(text, taken, line)
  /\ hpc = "after" => AfterAt(text, taken, line)

ChunksInv ==
  /\ ~done /\ ~framingError => Place
  /\ done => LastRead(text, taken) /\ (taken = Len(text) \/ stalled \/ shut)

PlainInv ==
  IF request.length = -1
  THEN remaining = -1 /\ (done <=> peerClosed /\ part # "head")
  ELSE /\ remaining = Len(text) - taken
       /\ done => taken = Len(text)
       /\ taken = Len(text) /\ taken > 0 => done

FramingInv == hpc # "off" => IF request.chunked THEN ChunksInv ELSE PlainInv

\* A framing error is the client's, which stopped before it had ended the document.
ErrorInv == framingError => stalled \/ (shut /\ taken = sent /\ ~EndsAt(sent))

-----------------------------------------------------------------------------
\* s is payload, from the byte after the n-th on.
Numbered(s, n) == \A i \in 1..Len(s) : s[i] = Byte(n + i)

PayloadInv ==
  /\ part = "head" /\ outcome # "answered" =>
       Numbered(block, 0) /\ Len(block) = Count(text, taken)
  /\ part = "head" /\ outcome = "answered" => Count(text, taken) = HeadSize
  /\ part # "document" => delivered = <<>>
  /\ part = "document" =>
       /\ Numbered(delivered, HeadSize) /\ Numbered(block, HeadSize + Len(delivered))
       /\ HeadSize + Len(delivered) + Len(block) <= Count(text, taken)
       /\ ~hurried => HeadSize + Len(delivered) + Len(block) = Count(text, taken)

\* Why the reading stopped, and how the request ended.
Stopped == done \/ framingError \/ stalled \/ peerClosed

EndInv ==
  /\ hpc = "block" /\ block = <<>> => Stopped
  /\ outcome = "malformed" => part = "head" /\ Stopped
  /\ outcome = "answered" =>
       \/ part = "rest" /\ (hurried \/ Stopped)
       \/ part = "head" /\ ~request.chunked /\ ~request.document /\ remaining <= 0
  /\ outcome \in {"accepted", "refused"} =>
       /\ part = "document"
       /\ ~hurried =>
            /\ block = <<>> /\ Stopped
            /\ outcome = "accepted" <=>
                 /\ done \/ (peerClosed /\ atChunkBoundary)
                 /\ ~framingError /\ delivered # <<>>
  /\ outcome = "accepted" => ~hurried
  /\ hurried => hpc = "end"

SoundInv == Sound => FramingInv /\ ErrorInv /\ PayloadInv

HttpInv == HttpTypeOK /\ OffInv /\ ReaderInv /\ EndInv /\ SoundInv

-----------------------------------------------------------------------------
(***************************************************************************)
(* Numbers, tokens and types                                               *)
(***************************************************************************)
\* The bounds are numbers, none of them zero.
LEMMA HttpNumbers ==
  /\ HeadSize \in Nat /\ HeadSize > 0 /\ Capacity \in Nat /\ Capacity > 0
  /\ MaxLine \in Nat /\ MaxLine > 0
  BY HttpAssumption

\* The fields of a request.
LEMMA RequestHas ==
  ASSUME NEW r \in Requests \cup {NoRequest}
  PROVE  /\ r.chunked \in BOOLEAN /\ r.length \in Nat \cup {-1}
         /\ r.tokens \in Seq(Tokens) /\ Len(r.tokens) \in Nat /\ r.document \in BOOLEAN
<1>1. CASE r \in Requests
  BY <1>1, HttpAssumption
<1>2. CASE r = NoRequest
  BY <1>2 DEF NoRequest
<1> QED
  BY <1>1, <1>2

\* The request under way has them.
LEMMA RequestIs ==
  ASSUME ClientTypes
  PROVE  /\ request.chunked \in BOOLEAN /\ request.length \in Nat \cup {-1}
         /\ text \in Seq(Tokens) /\ Len(text) \in Nat /\ request.document \in BOOLEAN
         /\ text = request.tokens
  BY RequestHas DEF ClientTypes, text

LEMMA MinOfTwo ==
  ASSUME NEW a \in Int, NEW b \in Int
  PROVE  Min({a, b}) = IF a <= b THEN a ELSE b
  BY DEF Min

LEMMA WantedIs ==
  ASSUME HttpTypeOK, ReaderInv, hpc = "data"
  PROVE  /\ Wanted \in Nat /\ Wanted > 0 /\ Wanted <= Room
         /\ part = "head" => Wanted = 1
         /\ request.chunked => Wanted <= chunkRemaining
         /\ ~request.chunked /\ remaining > 0 => Wanted <= remaining
<1> DEFINE a == IF part = "head" THEN 1 ELSE Room
           b == IF request.chunked THEN chunkRemaining
                ELSE IF remaining > 0 THEN remaining ELSE Room
<1>1. Room \in Nat /\ Room > 0
  BY HttpNumbers DEF HttpTypeOK, BlockTypes, Room, ReaderInv, NeedInv
<1>2. a \in Nat /\ b \in Nat /\ a > 0 /\ b > 0
  BY <1>1 DEF HttpTypeOK, ReaderTypes, ReaderInv, NeedInv
<1>3. Wanted = IF a <= b THEN a ELSE b
  BY <1>2, MinOfTwo DEF Wanted
<1> QED
  BY <1>1, <1>2, <1>3

\* What a step of Data takes.
LEMMA DataTakes ==
  ASSUME HttpTypeOK, ReaderInv, Data
  PROVE  \E n \in Nat :
           /\ n > 0 /\ n <= Wanted /\ taken + n <= sent /\ taken' = taken + n
           /\ block' = block \o SubSeq(text, taken + 1, taken + n)
           /\ SubSeq(text, taken + 1, taken + n) \in Seq(Tokens)
           /\ Len(SubSeq(text, taken + 1, taken + n)) = n
           /\ \A i \in 1..n : SubSeq(text, taken + 1, taken + n)[i] = text[taken + i]
           /\ chunkRemaining' = IF request.chunked THEN chunkRemaining - n ELSE 0
           /\ remaining' = IF remaining > 0 THEN remaining - n ELSE remaining
<1> DEFINE n == Min({Wanted, sent - taken})
<1>1. Wanted \in Nat
  BY WantedIs DEF Data
<1>2. taken \in Nat /\ sent \in Nat /\ taken <= sent /\ sent <= Len(text)
      /\ text \in Seq(Tokens)
  BY RequestIs DEF HttpTypeOK, ClientTypes, ReaderTypes, text
<1>3. n = IF Wanted <= sent - taken THEN Wanted ELSE sent - taken
  BY <1>1, <1>2, MinOfTwo
<1>4. /\ n > 0 /\ taken + n <= sent /\ taken' = taken + n
      /\ block' = block \o SubSeq(text, taken + 1, taken + n)
      /\ chunkRemaining' = IF request.chunked THEN chunkRemaining - n ELSE 0
      /\ remaining' = IF remaining > 0 THEN remaining - n ELSE remaining
  BY DEF Data, Takes, text
<1> HIDE DEF n
<1>5. n \in Nat /\ n <= Wanted
  BY <1>1, <1>2, <1>3, <1>4
<1>6. /\ SubSeq(text, taken + 1, taken + n) \in Seq(Tokens)
      /\ Len(SubSeq(text, taken + 1, taken + n)) = n
      /\ \A i \in 1..n : SubSeq(text, taken + 1, taken + n)[i] = text[taken + i]
  BY <1>2, <1>4, <1>5
<1> QED
  BY <1>4, <1>5, <1>6

LEMMA HttpInitTypes == HttpInit => HttpTypeOK /\ OffInv /\ ReaderInv
<1> SUFFICES ASSUME HttpInit PROVE HttpTypeOK /\ OffInv /\ ReaderInv
  OBVIOUS
<1>1. <<>> \in Seq(Tokens) /\ Len(<<>>) = 0
  OBVIOUS
<1>2. request.tokens = <<>> /\ request.chunked = FALSE
  BY DEF HttpInit, NoRequest
<1>3. HttpTypeOK
  <2>1. ClientTypes
    BY <1>1, <1>2 DEF HttpInit, ClientTypes
  <2>2. ReaderTypes
    BY DEF HttpInit, ReaderTypes
  <2>3. FlagTypes
    BY DEF HttpInit, FlagTypes
  <2>4. BlockTypes
    BY <1>1, HttpNumbers DEF HttpInit, BlockTypes
  <2>5. ResultTypes
    BY <1>1 DEF HttpInit, ResultTypes
  <2> QED
    BY <2>1, <2>2, <2>3, <2>4, <2>5 DEF HttpTypeOK
<1>4. OffInv
  BY DEF HttpInit, OffInv
<1>5. ReaderInv
  BY <1>2 DEF HttpInit, ReaderInv, NeedInv, StageInv, ClosedInv
<1> QED
  BY <1>3, <1>4, <1>5

\* The token that a read takes.
LEMMA TokenIs ==
  ASSUME HttpTypeOK, Takes(1)
  PROVE  /\ taken + 1 <= sent /\ taken' = taken + 1 /\ taken' \in 0..sent
         /\ taken + 1 \in 1..Len(text) /\ Token = text[taken + 1] /\ Token \in Tokens
         /\ peerClosed' = peerClosed /\ stalled' = stalled
<1>1. taken \in Nat /\ sent \in Nat /\ sent <= Len(text) /\ text \in Seq(Tokens)
  BY RequestIs DEF HttpTypeOK, ClientTypes, ReaderTypes, text
<1>2. taken + 1 <= sent /\ taken' = taken + 1 /\ peerClosed' = peerClosed /\ stalled' = stalled
  BY DEF Takes
<1> QED
  BY <1>1, <1>2 DEF Token, text

LEMMA ClientTypesStep ==
  ASSUME HttpTypeOK, OffInv, HttpNext
  PROVE  ClientTypes'
<1> USE DEF HttpTypeOK, ClientTypes
<1>1. CASE Ask
  <2>1. sent' = 0 /\ request' \in Requests
    BY <1>1 DEF Ask, OffInv
  <2>2. Len(request'.tokens) \in Nat
    BY <2>1, RequestHas
  <2> QED
    BY <2>1, <2>2
<1>2. CASE Write
  BY <1>2, RequestIs DEF Write
<1>3. CASE Close \/ HttpService
  BY <1>3 DEF Close, HttpService, ReadStep, HeadIsRead, NextRead, InLine, SizeLine,
     SizeLineFails, Trailer, Data, DataFails, AfterChunk, Drop, SendBlock, Verdict, client
<1> QED
  BY <1>1, <1>2, <1>3 DEF HttpNext

LEMMA ReaderTypesStep ==
  ASSUME HttpTypeOK, OffInv, ReaderInv, HttpNext
  PROVE  ReaderTypes'
<1> USE DEF HttpTypeOK, ReaderTypes
<1>1. CASE Ask
  <2>1. request' \in Requests /\ taken' = 0 /\ sent' = 0 /\ chunkRemaining' = 0
        /\ remaining' = IF request'.chunked THEN -1 ELSE request'.length
    BY <1>1 DEF Ask, OffInv, progress, result
  <2>2. request'.length \in Nat \cup {-1}
    BY <2>1, RequestHas
  <2> QED
    BY <2>1, <2>2
<1>2. CASE Write
  BY <1>2, RequestIs DEF Write, reader, ClientTypes
<1>3. CASE Close \/ HeadIsRead \/ NextRead \/ Drop \/ SendBlock \/ Verdict
  BY <1>3 DEF Close, HeadIsRead, NextRead, Drop, SendBlock, Verdict, client, reader
<1>4. CASE Takes(1) /\ UNCHANGED <<sent, chunkRemaining, remaining>>
  BY <1>4, TokenIs
<1>5. CASE UNCHANGED <<sent, taken, chunkRemaining, remaining>>
  BY <1>5
<1>6. CASE InLine
  BY <1>4, <1>6 DEF InLine, client, reader
<1>7. CASE SizeLine
  <2>1. /\ chunkRemaining' \in {chunkRemaining, Number} /\ UNCHANGED <<sent, remaining>>
        /\ Takes(1) /\ ((chunkRemaining' = Number /\ Number > 0) \/ UNCHANGED chunkRemaining)
    BY <1>7 DEF SizeLine, client
  <2>2. Number > 0 => Number \in Nat
    <3> SUFFICES ASSUME Number > 0, SizeText # {}, NEW k \in SizeText,
                        SizeText = {k}, line[k][1] = "size",
                        Number = line[CHOOSE i \in SizeText : TRUE][2]
                 PROVE  Number \in Nat
      BY DEF Number
    <3>1. Number = line[k][2]
      OBVIOUS
    <3>2. line[k] \in Tokens
      BY DEF SizeText, BlockTypes
    <3> QED
      BY <3>1, <3>2 DEF Tokens, CR, LF, Ext, Text
  <2> QED
    BY <2>1, <2>2, TokenIs
<1>8. CASE SizeLineFails \/ DataFails
  BY <1>5, <1>8 DEF SizeLineFails, DataFails, NoLine, Nothing, client, reader
<1>9. CASE Trailer
  BY <1>4, <1>5, <1>9 DEF Trailer, NoLine, Nothing, client
<1>10. CASE AfterChunk
  BY <1>4, <1>5, <1>10 DEF AfterChunk, Nothing, client
<1>11. CASE Data
  <2>1. PICK n \in Nat :
           /\ n > 0 /\ n <= Wanted /\ taken + n <= sent /\ taken' = taken + n
           /\ chunkRemaining' = IF request.chunked THEN chunkRemaining - n ELSE 0
           /\ remaining' = IF remaining > 0 THEN remaining - n ELSE remaining
    BY <1>11, DataTakes
  <2>2. sent' = sent /\ hpc = "data"
    BY <1>11 DEF Data, client
  <2>3. /\ Wanted \in Nat
        /\ request.chunked => Wanted <= chunkRemaining
        /\ ~request.chunked /\ remaining > 0 => Wanted <= remaining
        /\ request.chunked => remaining = -1
    BY <2>2, WantedIs DEF ReaderInv, NeedInv
  <2> QED
    BY <2>1, <2>2, <2>3, RequestIs DEF ClientTypes
<1> QED
  BY <1>1, <1>2, <1>3, <1>6, <1>7, <1>8, <1>9, <1>10, <1>11 DEF HttpNext, HttpService, ReadStep

LEMMA FlagTypesStep ==
  ASSUME HttpTypeOK, HttpNext
  PROVE  FlagTypes'
<1> USE DEF HttpTypeOK, FlagTypes
<1>1. CASE Ask \/ Write \/ Close
  BY <1>1 DEF Ask, Write, Close, reader, result
<1>2. CASE HeadIsRead \/ InLine \/ SizeLine
  BY <1>2 DEF HeadIsRead, InLine, SizeLine, Takes, Returns, client, reader, result
<1>3. CASE NextRead
  BY <1>3 DEF NextRead, client
<1>4. CASE SizeLineFails
  BY <1>4 DEF SizeLineFails, NoLine, Nothing, client
<1>5. CASE Trailer
  BY <1>5 DEF Trailer, NoLine, Nothing, Takes, client
<1>6. CASE Data
  BY <1>6 DEF Data, Takes, client, result
<1>7. CASE DataFails
  BY <1>7 DEF DataFails, Nothing, client
<1>8. CASE AfterChunk
  BY <1>8 DEF AfterChunk, Nothing, Takes, client
<1>9. CASE Drop \/ SendBlock \/ Verdict
  BY <1>9 DEF Drop, SendBlock, Verdict, client, reader
<1> QED
  BY <1>1, <1>2, <1>3, <1>4, <1>5, <1>6, <1>7, <1>8, <1>9 DEF HttpNext, HttpService, ReadStep

LEMMA OneToken ==
  ASSUME NEW s \in Seq(Tokens), NEW x \in Tokens
  PROVE  Append(s, x) \in Seq(Tokens) /\ Len(Append(s, x)) = Len(s) + 1
  OBVIOUS

LEMMA BlockTypesStep ==
  ASSUME HttpTypeOK, OffInv, ReaderInv, HttpNext
  PROVE  BlockTypes'
<1> USE DEF HttpTypeOK, BlockTypes
<1>0. <<>> \in Seq(Tokens) /\ Len(<<>>) = 0
  OBVIOUS
<1>1. CASE UNCHANGED progress
  BY <1>1 DEF progress
<1>2. CASE HeadIsRead
  BY <1>0, <1>2, HttpNumbers DEF HeadIsRead
<1>3. CASE line' = Append(line, Token) /\ Len(line) < MaxLine /\ Takes(1)
           /\ UNCHANGED <<part, block>>
  <2>1. Append(line, Token) \in Seq(Tokens) /\ Len(Append(line, Token)) = Len(line) + 1
    BY <1>3, TokenIs, OneToken
  <2> QED
    BY <1>3, <2>1, HttpNumbers
<1>4. CASE line' \in {<<>>, line} /\ UNCHANGED <<part, block>>
  <2>1. line' \in Seq(Tokens) /\ Len(line') <= MaxLine
    <3>1. CASE line' = <<>>
      BY <1>0, <3>1, HttpNumbers
    <3>2. CASE line' = line
      BY <3>2
    <3> QED
      BY <1>4, <3>1, <3>2
  <2> QED
    BY <1>4, <2>1
<1>5. CASE InLine
  BY <1>3, <1>5 DEF InLine
<1>6. CASE SizeLine \/ SizeLineFails \/ Trailer \/ DataFails
  BY <1>4, <1>6 DEF SizeLine, SizeLineFails, Trailer, DataFails, progress
<1>7. CASE AfterChunk
  <2>1. CASE Takes(1) /\ line' = <<Token>> /\ UNCHANGED <<part, block>>
    <3>1. <<Token>> \in Seq(Tokens) /\ Len(<<Token>>) = 1
      BY <2>1, TokenIs
    <3> QED
      BY <2>1, <3>1, HttpNumbers
  <2> QED
    BY <1>4, <1>7, <2>1 DEF AfterChunk
<1>8. CASE Data
  <2>1. PICK n \in Nat :
           /\ n > 0 /\ n <= Wanted
           /\ block' = block \o SubSeq(text, taken + 1, taken + n)
           /\ SubSeq(text, taken + 1, taken + n) \in Seq(Tokens)
           /\ Len(SubSeq(text, taken + 1, taken + n)) = n
    BY <1>8, DataTakes
  <2>2. UNCHANGED <<line, part>> /\ hpc = "data"
    BY <1>8 DEF Data
  <2>3. block' \in Seq(Tokens) /\ Len(block') = Len(block) + n
    BY <2>1
  <2>4. Wanted <= Room /\ Wanted \in Nat
    BY <2>2, WantedIs
  <2>5. Len(block') <= (IF part = "head" THEN HeadSize ELSE Capacity)
    BY <2>1, <2>3, <2>4, HttpNumbers DEF Room
  <2> QED
    BY <2>2, <2>3, <2>5
<1>9. CASE Drop \/ SendBlock
  <2>1. block' = <<>> /\ UNCHANGED <<line, part>>
    BY <1>9 DEF Drop, SendBlock
  <2>2. block' \in Seq(Tokens) /\ Len(block') = 0
    BY <1>0, <2>1
  <2> QED
    BY <2>1, <2>2, HttpNumbers
<1>10. CASE Ask \/ Write \/ Close \/ NextRead \/ Verdict
  BY <1>1, <1>10 DEF Ask, Write, Close, NextRead, Verdict
<1> QED
  BY <1>2, <1>5, <1>6, <1>7, <1>8, <1>9, <1>10 DEF HttpNext, HttpService, ReadStep

LEMMA ReturnsTypes ==
  ASSUME ResultTypes, Returns
  PROVE  /\ hpc' \in {"block", "end"}
         /\ outcome' \in {"none", "malformed", "answered", "accepted", "refused"}
  BY DEF Returns, ResultTypes

LEMMA ResultTypesStep ==
  ASSUME HttpTypeOK, HttpNext
  PROVE  ResultTypes'
<1> USE DEF HttpTypeOK
<1>1. CASE UNCHANGED <<hpc, outcome, delivered>>
  BY <1>1 DEF ResultTypes
<1>2. CASE Returns /\ UNCHANGED delivered
  BY <1>2, ReturnsTypes DEF ResultTypes
<1>3. CASE HeadIsRead \/ Drop \/ Verdict
  BY <1>3 DEF HeadIsRead, Drop, Verdict, ResultTypes
<1>4. CASE NextRead
  BY <1>2, <1>4 DEF NextRead, ResultTypes
<1>5. CASE SizeLine
  BY <1>2, <1>5 DEF SizeLine, ResultTypes
<1>6. CASE SizeLineFails \/ DataFails
  BY <1>2, <1>6 DEF SizeLineFails, DataFails
<1>7. CASE Trailer
  BY <1>1, <1>2, <1>7 DEF Trailer
<1>8. CASE AfterChunk
  BY <1>1, <1>2, <1>8 DEF AfterChunk, ResultTypes
<1>9. CASE Data
  BY <1>9 DEF Data, result, ResultTypes
<1>10. CASE SendBlock
  <2>1. delivered \o block \in Seq(Tokens)
    BY DEF ResultTypes, BlockTypes
  <2> QED
    BY <1>10, <2>1 DEF SendBlock, ResultTypes
<1>11. CASE Ask \/ Write \/ Close \/ InLine
  BY <1>11 DEF Ask, Write, Close, InLine, result, ResultTypes
<1> QED
  BY <1>3, <1>4, <1>5, <1>6, <1>7, <1>8, <1>9, <1>10, <1>11
     DEF HttpNext, HttpService, ReadStep

-----------------------------------------------------------------------------
(***************************************************************************)
(* The reader and its flags                                                *)
(***************************************************************************)
LEMMA NeverOff == ASSUME HttpNext PROVE hpc' # "off"
<1>1. CASE Ask \/ Write \/ Close
  BY <1>1 DEF Ask, Write, Close, Serving
<1>2. CASE HttpService
  BY <1>2 DEF HttpService, ReadStep, HeadIsRead, NextRead, InLine, SizeLine, SizeLineFails,
     Trailer, Data, DataFails, AfterChunk, Drop, SendBlock, Verdict, Returns
<1> QED
  BY <1>1, <1>2 DEF HttpNext

LEMMA RoomKept ==
  ASSUME UNCHANGED <<part, block>> PROVE Room' = Room
  BY DEF Room

\* Where Data goes on.
LEMMA DataGoes ==
  ASSUME HttpTypeOK, ReaderInv, Data
  PROVE  /\ hpc = "data" /\ done' = (remaining' = 0)
         /\ hpc' = IF request.chunked /\ chunkRemaining' = 0 THEN "after" ELSE "next"
         /\ UNCHANGED <<client, framingError, line, part, outcome, delivered, hurried>>
         /\ request.chunked => remaining' = remaining /\ ~done'
         /\ ~request.chunked => chunkRemaining' = 0
<1>1. /\ hpc = "data" /\ done' = (remaining' = 0)
      /\ hpc' = IF request.chunked /\ chunkRemaining' = 0 THEN "after" ELSE "next"
      /\ UNCHANGED <<client, framingError, line, part, outcome, delivered, hurried>>
  BY DEF Data, result
<1>2. PICK n \in Nat :
         /\ chunkRemaining' = IF request.chunked THEN chunkRemaining - n ELSE 0
         /\ remaining' = IF remaining > 0 THEN remaining - n ELSE remaining
  BY DataTakes
<1>3. request.chunked => remaining = -1
  BY <1>1 DEF ReaderInv, NeedInv
<1>4. ASSUME request.chunked PROVE remaining' = remaining /\ ~done'
  <2>1. remaining' = -1 /\ remaining = -1
    BY <1>2, <1>3, <1>4
  <2>2. (remaining' = 0) = FALSE
    BY <2>1
  <2> QED
    BY <1>1, <2>1, <2>2
<1>5. ~request.chunked => chunkRemaining' = 0
  BY <1>2
<1> QED
  BY <1>1, <1>4, <1>5

LEMMA StageInvStep ==
  ASSUME HttpTypeOK, OffInv, ReaderInv, HttpNext
  PROVE  StageInv'
<1> USE DEF StageInv, ReaderInv
<1>1. CASE Ask
  BY <1>1 DEF Ask, OffInv, progress, result
<1>2. CASE Write \/ Close
  BY <1>2 DEF Write, Close, reader, progress, result
<1>4. CASE HeadIsRead
  BY <1>4 DEF HeadIsRead, reader
<1>5. CASE NextRead
  <2>1. UNCHANGED <<framingError, line, part>> /\ hpc = "next" /\ (done => done')
    BY <1>5 DEF NextRead, progress
  <2>2. CASE Returns /\ (Satisfied \/ done' \/ framingError)
    BY <2>1, <2>2 DEF Returns
  <2>3. CASE ~done' /\ ~framingError /\ hpc' \in {"size", "data"} /\ UNCHANGED outcome
    BY <2>1, <2>3
  <2> QED
    BY <1>5, <2>2, <2>3 DEF NextRead
<1>6. CASE InLine
  BY <1>6 DEF InLine, reader, result
<1>7. CASE SizeLine
  BY <1>7 DEF SizeLine, Returns
<1>8. CASE SizeLineFails
  <2>1. Returns /\ UNCHANGED <<done, line, part>> /\ hpc = "size"
        /\ (~framingError' => line = <<>>)
    BY <1>8 DEF SizeLineFails, progress
  <2> QED
    BY <2>1 DEF Returns
<1>9. CASE Trailer
  <2>1. UNCHANGED <<framingError, part>> /\ hpc = "trailer"
    BY <1>9 DEF Trailer
  <2>2. CASE done' /\ Returns
    BY <2>1, <2>2 DEF Returns
  <2>3. CASE ~done' /\ UNCHANGED <<hpc, outcome>>
    BY <2>1, <2>3
  <2> QED
    BY <1>9, <2>2, <2>3 DEF Trailer
<1>10. CASE Data
  <2>1. UNCHANGED <<framingError, line, part, outcome>> /\ hpc = "data"
        /\ hpc' \in {"after", "next"} /\ (hpc' = "after" => ~done')
    BY <1>10, DataGoes
  <2> QED
    BY <2>1
<1>11. CASE DataFails
  BY <1>11 DEF DataFails, Returns, progress
<1>12. CASE AfterChunk
  BY <1>12 DEF AfterChunk, Returns
<1>13. CASE Drop
  BY <1>13 DEF Drop, reader
<1>14. CASE SendBlock \/ Verdict
  BY <1>14 DEF SendBlock, Verdict, reader, progress
<1> QED
  BY <1>1, <1>2, <1>4, <1>5, <1>6, <1>7, <1>8, <1>9, <1>10, <1>11, <1>12, <1>13, <1>14
     DEF HttpNext, HttpService, ReadStep

LEMMA NeedInvStep ==
  ASSUME HttpTypeOK, OffInv, ReaderInv, HttpNext
  PROVE  NeedInv'
<1> USE DEF NeedInv, ReaderInv
<1>1. CASE Ask
  <2>1. hpc' = "next" /\ chunkRemaining' = 0
        /\ remaining' = IF request'.chunked THEN -1 ELSE request'.length
    BY <1>1 DEF Ask, OffInv
  <2> QED
    BY <2>1
<1>2. CASE Write \/ Close
  <2>1. UNCHANGED <<request, reader, progress, hpc>>
    BY <1>2 DEF Write, Close
  <2> QED
    BY <2>1, RoomKept DEF reader, progress
<1>4. CASE HeadIsRead
  BY <1>4 DEF HeadIsRead, client, reader
<1>5. CASE NextRead
  <2>1. UNCHANGED <<request, chunkRemaining, remaining, part, block>> /\ hpc = "next"
    BY <1>5 DEF NextRead, client, progress
  <2>2. CASE Returns
    BY <2>1, <2>2 DEF Returns
  <2>3. CASE ~Satisfied /\ ~done' /\ ~framingError
    <3>1. hpc' = IF request.chunked /\ chunkRemaining = 0 THEN "size" ELSE "data"
      BY <1>5, <2>3 DEF NextRead
    <3>2. ~request.chunked => remaining # 0
      BY <1>5, <2>3 DEF NextRead
    <3>3. Room # 0
      BY <2>3 DEF Satisfied
    <3>4. Room > 0
      BY <3>3, HttpNumbers DEF Room, HttpTypeOK, BlockTypes
    <3>5. Room' > 0
      BY <2>1, <3>4, RoomKept
    <3>6. chunkRemaining \in Nat
      BY DEF HttpTypeOK, ReaderTypes
    <3> QED
      BY <2>1, <3>1, <3>2, <3>5, <3>6
  <2> QED
    BY <1>5, <2>2, <2>3 DEF NextRead
<1>6. CASE InLine
  <2>1. UNCHANGED <<request, reader, part, block, hpc>>
    BY <1>6 DEF InLine, client
  <2> QED
    BY <2>1, RoomKept DEF reader
<1>7. CASE SizeLine
  <2>1. UNCHANGED <<request, remaining, part, block>> /\ hpc = "size"
    BY <1>7 DEF SizeLine, client
  <2>2. \/ UNCHANGED <<hpc, chunkRemaining>>
        \/ hpc' \in {"block", "end"} /\ UNCHANGED chunkRemaining
        \/ hpc' = "trailer" /\ UNCHANGED chunkRemaining
        \/ hpc' = "data" /\ chunkRemaining' = Number /\ Number > 0
    BY <1>7 DEF SizeLine, Returns
  <2>3. Room' = Room /\ Room > 0 /\ request.chunked /\ chunkRemaining = 0
    BY <2>1, RoomKept
  <2> QED
    BY <2>1, <2>2, <2>3
<1>8. CASE SizeLineFails \/ DataFails
  BY <1>8 DEF SizeLineFails, DataFails, Returns, client
<1>9. CASE Trailer
  <2>1. UNCHANGED <<request, chunkRemaining, remaining, part, block>>
    BY <1>9 DEF Trailer, client
  <2>2. hpc' \in {"block", "end"} \/ UNCHANGED hpc
    BY <1>9 DEF Trailer, Returns
  <2>3. Room' = Room /\ hpc = "trailer"
    BY <1>9, <2>1, RoomKept DEF Trailer
  <2> QED
    BY <2>1, <2>2, <2>3
<1>10. CASE Data
  <2>1. UNCHANGED request /\ hpc = "data"
        /\ hpc' = IF request.chunked /\ chunkRemaining' = 0 THEN "after" ELSE "next"
    BY <1>10, DataGoes DEF client
  <2>3. request.chunked => remaining' = remaining
    BY <1>10, DataGoes
  <2>4. ~request.chunked => chunkRemaining' = 0
    BY <1>10, DataGoes
  <2>2. hpc' \in {"after", "next"} /\ (hpc' = "after" => request.chunked /\ chunkRemaining' = 0)
    BY <2>1
  <2> QED
    BY <2>1, <2>2, <2>3, <2>4
<1>12. CASE AfterChunk
  <2>1. UNCHANGED <<request, chunkRemaining, remaining>> /\ hpc = "after"
    BY <1>12 DEF AfterChunk, client
  <2>2. hpc' \in {"block", "end", "next"} \/ UNCHANGED hpc
    BY <1>12 DEF AfterChunk, Returns
  <2> QED
    BY <2>1, <2>2
<1>13. CASE Drop \/ SendBlock \/ Verdict
  BY <1>13 DEF Drop, SendBlock, Verdict, client, reader
<1> QED
  BY <1>1, <1>2, <1>4, <1>5, <1>6, <1>7, <1>8, <1>9, <1>10, <1>12, <1>13
     DEF HttpNext, HttpService, ReadStep

LEMMA ClosedInvStep ==
  ASSUME HttpTypeOK, OffInv, ReaderInv, HttpNext
  PROVE  ClosedInv'
<1> USE DEF ReaderInv, ClosedInv
<1>1. CASE Nothing /\ UNCHANGED <<client, part>> /\ Returns
  BY <1>1 DEF Nothing, Returns, client
<1>2. CASE Takes(1) /\ UNCHANGED client
  <2>1. taken + 1 <= sent /\ taken \in Nat /\ sent \in Nat /\ peerClosed' = peerClosed
    BY <1>2, RequestIs DEF Takes, HttpTypeOK, ClientTypes, ReaderTypes
  <2> QED
    BY <2>1
<1>3. CASE UNCHANGED <<client, taken, peerClosed, part>> /\ Returns
  BY <1>3 DEF Returns, client
<1>4. CASE Ask
  BY <1>4 DEF Ask, OffInv
<1>5. CASE Write
  BY <1>5 DEF Write
<1>6. CASE Close
  BY <1>6 DEF Close, progress
<1>7. CASE Data
  <2>1. PICK n \in Nat : n > 0 /\ taken + n <= sent
    BY <1>7, DataTakes
  <2>2. taken \in Nat /\ sent \in Nat /\ peerClosed' = peerClosed
    BY <1>7, RequestIs DEF Data, Takes, HttpTypeOK, ClientTypes, ReaderTypes
  <2> QED
    BY <2>1, <2>2
<1>8. CASE HeadIsRead \/ NextRead \/ Drop \/ SendBlock \/ Verdict
  BY <1>8
     DEF HeadIsRead, NextRead, Drop, SendBlock, Verdict, Returns, client, progress, StageInv
<1>9. CASE InLine \/ SizeLine
  BY <1>2, <1>9 DEF InLine, SizeLine
<1>10. CASE SizeLineFails \/ DataFails
  BY <1>1, <1>3, <1>10 DEF SizeLineFails, DataFails, NoLine, progress
<1>11. CASE Trailer \/ AfterChunk
  BY <1>1, <1>2, <1>3, <1>11 DEF Trailer, AfterChunk, NoLine
<1> QED
  BY <1>4, <1>5, <1>6, <1>7, <1>8, <1>9, <1>10, <1>11 DEF HttpNext, HttpService, ReadStep

\* Every step keeps the types and the flags, in whatever framing.
LEMMA PlainStep ==
  ASSUME HttpTypeOK, OffInv, ReaderInv, HttpNext
  PROVE  HttpTypeOK' /\ OffInv' /\ ReaderInv'
<1>1. HttpTypeOK'
  BY ClientTypesStep, ReaderTypesStep, FlagTypesStep, BlockTypesStep, ResultTypesStep
     DEF HttpTypeOK
<1>2. OffInv'
  BY NeverOff DEF OffInv
<1>3. ReaderInv'
  BY StageInvStep, NeedInvStep, ClosedInvStep DEF ReaderInv
<1> QED
  BY <1>1, <1>2, <1>3

-----------------------------------------------------------------------------
(***************************************************************************)
(* Counting the payload                                                    *)
(***************************************************************************)
Payload(t, k) == {i \in 1..k : t[i][1] = "byte"}

\* The payload of the first k tokens is finite, and has a number.
LEMMA PayloadIs ==
  ASSUME NEW t, NEW k \in Nat
  PROVE  /\ IsFiniteSet(Payload(t, k)) /\ Count(t, k) = Cardinality(Payload(t, k))
         /\ Count(t, k) \in Nat
<1>1. IsFiniteSet(1..k) /\ Payload(t, k) \in SUBSET (1..k)
  BY FS_Interval DEF Payload
<1>2. IsFiniteSet(Payload(t, k))
  BY <1>1, FS_Subset
<1>3. Cardinality(Payload(t, k)) \in Nat
  BY <1>2, FS_CardinalityType
<1> QED
  BY <1>2, <1>3 DEF Payload, Count

LEMMA CountNothing == ASSUME NEW t PROVE Count(t, 0) = 0
<1>1. Payload(t, 0) = {}
  BY DEF Payload
<1> QED
  BY <1>1, FS_EmptySet, PayloadIs

LEMMA CountGrows ==
  ASSUME NEW t, NEW p \in Nat, NEW q \in Nat, p <= q
  PROVE  Count(t, p) <= Count(t, q)
<1>1. Payload(t, p) \in SUBSET Payload(t, q)
  BY DEF Payload
<1> QED
  BY <1>1, PayloadIs, FS_Subset

\* Tokens that are no payload do not count, ...
LEMMA CountNone ==
  ASSUME NEW t, NEW p \in Nat, NEW q \in Nat, p <= q,
         \A k \in (p + 1)..q : t[k][1] # "byte"
  PROVE  Count(t, q) = Count(t, p)
<1>1. Payload(t, p) = Payload(t, q)
  BY DEF Payload
<1> QED
  BY <1>1, PayloadIs

\* ... and n bytes count n.
LEMMA CountBytes ==
  ASSUME NEW t, NEW p \in Nat, NEW n \in Nat,
         \A k \in (p + 1)..(p + n) : t[k][1] = "byte"
  PROVE  Count(t, p + n) = Count(t, p) + n
<1> DEFINE more == (p + 1)..(p + n)
<1>1. Payload(t, p + n) = Payload(t, p) \cup more /\ Payload(t, p) \cap more = {}
  BY DEF Payload
<1>2. IsFiniteSet(more) /\ Cardinality(more) = n
  BY FS_Interval
<1> HIDE DEF more
<1>3. Cardinality(Payload(t, p) \cup more) = Cardinality(Payload(t, p)) + Cardinality(more)
  <2>1. Cardinality(Payload(t, p) \cap more) = 0
    BY <1>1, FS_EmptySet
  <2>2. /\ IsFiniteSet(Payload(t, p)) /\ Cardinality(Payload(t, p)) \in Nat
        /\ Cardinality(more) \in Nat
    BY <1>2, PayloadIs
  <2>3. Cardinality(Payload(t, p) \cup more)
          = Cardinality(Payload(t, p)) + Cardinality(more)
              - Cardinality(Payload(t, p) \cap more)
    BY <1>2, <2>2, FS_Union
  <2> QED
    BY <2>1, <2>2, <2>3
<1>4. p + n \in Nat
  OBVIOUS
<1> QED
  BY <1>1, <1>2, <1>3, <1>4, PayloadIs

\* A byte of payload is named for the bytes before it.
LEMMA BytesAreNumbered ==
  ASSUME ClientTypes, NEW p \in Nat, NEW n \in Nat, p + n <= Len(text),
         \A k \in (p + 1)..(p + n) : text[k][1] = "byte"
  PROVE  \A i \in 1..n : text[p + i] = Byte(Count(text, p) + i)
<1> SUFFICES ASSUME NEW i \in 1..n PROVE text[p + i] = Byte(Count(text, p) + i)
  OBVIOUS
<1>1. p + i \in DOMAIN text /\ text[p + i][1] = "byte" /\ i \in Nat /\ text = request.tokens
  BY RequestIs
<1>2. request \in Requests
  BY <1>1, RequestIs DEF ClientTypes, NoRequest
<1>3. text[p + i] = Byte(Count(text, p + i))
  BY <1>1, <1>2, HttpAssumption
<1>4. Count(text, p + i) = Count(text, p) + i
  <2>1. \A k \in (p + 1)..(p + i) : text[k][1] = "byte"
    BY <1>1
  <2> QED
    BY <1>1, <2>1, CountBytes
<1> QED
  BY <1>3, <1>4

-----------------------------------------------------------------------------
(***************************************************************************)
(* Why the reading stops                                                   *)
(***************************************************************************)
\* Reading stops for a reason.
LEMMA StopsInv ==
  ASSUME HttpTypeOK, ReaderInv, Returns, Stopped', UNCHANGED <<part, hurried>>, ~hurried,
         outcome = "none"
  PROVE  EndInv'
  BY DEF Returns, EndInv

LEMMA GoesOnInv ==
  ASSUME UNCHANGED <<outcome, hurried>>, ~hurried, outcome = "none", hpc' # "block"
  PROVE  EndInv'
  BY DEF EndInv

LEMMA NoLineStops ==
  ASSUME Nothing PROVE stalled' \/ peerClosed'
  BY DEF Nothing

\* Every step keeps what is said of the end of the reading.
LEMMA EndInvStep ==
  ASSUME HttpTypeOK, OffInv, ReaderInv, EndInv, HttpNext
  PROVE  EndInv'
<1>1. CASE Ask
  BY <1>1 DEF Ask, OffInv, EndInv, result
<1>2. CASE Write \/ Close
  <2>1. UNCHANGED <<request, reader, peerClosed, stalled, progress, hpc, result>> /\ Serving
    BY <1>2 DEF Write, Close
  <2>2. outcome = "none" /\ ~hurried
    BY <2>1 DEF Serving, ReaderInv, StageInv, EndInv
  <2>3. hpc' = "block" /\ block' = <<>> => Stopped'
    BY <2>1 DEF EndInv, Stopped, reader, progress
  <2> QED
    BY <2>1, <2>2, <2>3 DEF EndInv, result
<1>3. ASSUME hpc # "end" PROVE outcome = "none" /\ ~hurried
  BY <1>3 DEF ReaderInv, StageInv, EndInv
<1>4. CASE HeadIsRead
  <2>1. \/ hpc' = "next" /\ outcome' = "none"
        \/ /\ hpc' = "end" /\ outcome' = "answered" /\ part' = "head" /\ ~request'.chunked
           /\ ~request'.document /\ ~(remaining' > 0)
    BY <1>3, <1>4 DEF HeadIsRead, client, reader
  <2>2. remaining' \in Int /\ hurried' = hurried /\ ~hurried
    BY <1>3, <1>4 DEF HeadIsRead, reader, HttpTypeOK, ReaderTypes
  <2> QED
    BY <2>1, <2>2 DEF EndInv
<1>5. CASE NextRead
  <2>1. outcome = "none" /\ ~hurried /\ UNCHANGED <<part, block, framingError, hurried>>
        /\ hpc = "next"
    BY <1>3, <1>5 DEF NextRead, progress
  <2>2. CASE Returns /\ (Satisfied \/ done' \/ framingError)
    <3>1. CASE done' \/ framingError
      BY <2>1, <2>2, <3>1, StopsInv DEF Stopped
    <3>2. CASE Satisfied
      <4>1. part # "head"
        BY <1>5, <3>2, HttpNumbers DEF NextRead, Satisfied
      <4>2. block # <<>>
        <5>1. CASE block = <<>>
          <6>1. Room = Capacity
            BY <4>1, <5>1, HttpNumbers DEF Room
          <6> QED
            BY <3>2, <5>1, <6>1, HttpNumbers DEF Satisfied
        <5> QED
          BY <5>1
      <4> QED
        BY <2>1, <2>2, <4>1, <4>2 DEF Returns, EndInv
    <3> QED
      BY <2>2, <3>1, <3>2
  <2>3. CASE hpc' \in {"size", "data"} /\ UNCHANGED outcome
    BY <2>1, <2>3, GoesOnInv
  <2> QED
    BY <1>5, <2>2, <2>3 DEF NextRead
<1>6. CASE InLine
  BY <1>3, <1>6, GoesOnInv DEF InLine, result
<1>7. CASE SizeLine
  <2>1. outcome = "none" /\ ~hurried /\ UNCHANGED <<part, hurried>> /\ hpc = "size"
    BY <1>3, <1>7 DEF SizeLine
  <2>2. \/ framingError' = TRUE /\ Returns
        \/ hpc' \in {"size", "trailer", "data"} /\ UNCHANGED outcome
    BY <1>7 DEF SizeLine
  <2> QED
    BY <2>1, <2>2, StopsInv, GoesOnInv DEF Stopped
<1>8. CASE SizeLineFails
  <2>1. outcome = "none" /\ ~hurried /\ UNCHANGED <<part, hurried>> /\ Returns
    BY <1>3, <1>8 DEF SizeLineFails, progress
  <2>2. framingError' \/ peerClosed'
    BY <1>8 DEF SizeLineFails
  <2> QED
    BY <2>1, <2>2, StopsInv DEF Stopped
<1>9. CASE Trailer
  <2>1. outcome = "none" /\ ~hurried /\ UNCHANGED <<part, hurried>> /\ hpc = "trailer"
    BY <1>3, <1>9 DEF Trailer
  <2>2. \/ done' /\ Returns
        \/ UNCHANGED <<hpc, outcome>>
    BY <1>9 DEF Trailer
  <2> QED
    BY <2>1, <2>2, StopsInv, GoesOnInv DEF Stopped
<1>10. CASE Data
  <2>1. outcome = "none" /\ ~hurried /\ UNCHANGED <<outcome, hurried>> /\ hpc' # "block"
    BY <1>3, <1>10, DataGoes
  <2> QED
    BY <2>1, GoesOnInv
<1>11. CASE DataFails
  <2>1. outcome = "none" /\ ~hurried /\ UNCHANGED <<part, hurried>> /\ Returns /\ Nothing
    BY <1>3, <1>11 DEF DataFails, progress
  <2> QED
    BY <2>1, NoLineStops, StopsInv DEF Stopped
<1>12. CASE AfterChunk
  <2>1. outcome = "none" /\ ~hurried /\ UNCHANGED <<part, hurried>> /\ hpc = "after"
    BY <1>3, <1>12 DEF AfterChunk
  <2>2. \/ framingError' /\ Returns
        \/ hpc' \in {"after", "next"} /\ UNCHANGED outcome
    BY <1>12 DEF AfterChunk
  <2> QED
    BY <2>1, <2>2, StopsInv, GoesOnInv DEF Stopped
<1>13. CASE Drop
  <2>1. outcome = "none" /\ ~hurried /\ part' = "rest" /\ hpc = "block"
        /\ UNCHANGED <<reader, peerClosed, stalled>>
    BY <1>3, <1>13 DEF Drop
  <2>2. block = <<>> => Stopped'
    BY <2>1 DEF EndInv, Stopped, reader
  <2> QED
    BY <1>13, <2>1, <2>2 DEF Drop, EndInv
<1>14. CASE SendBlock
  <2>1. outcome = "none" /\ ~hurried /\ part' = "document"
    BY <1>3, <1>14 DEF SendBlock
  <2>2. \/ hpc' = "next" /\ outcome' = "none" /\ ~hurried'
        \/ hpc' = "end" /\ outcome' = "refused" /\ hurried' = TRUE
    BY <1>14, <2>1 DEF SendBlock
  <2> QED
    BY <2>1, <2>2 DEF EndInv
<1>15. CASE Verdict
  <2>1. outcome = "none" /\ ~hurried' /\ part' = "document" /\ hpc' = "end" /\ block' = <<>>
        /\ UNCHANGED <<request, reader, peerClosed, stalled, delivered>>
        /\ hpc = "block" /\ block = <<>>
    BY <1>3, <1>15 DEF Verdict, client, progress
  <2>2. Stopped'
    BY <2>1 DEF EndInv, Stopped, reader
  <2>3. atChunkBoundary' = atChunkBoundary
    BY <2>1 DEF atChunkBoundary, reader
  <2>4. outcome' = IF /\ done \/ (peerClosed /\ atChunkBoundary)
                      /\ ~framingError /\ delivered # <<>>
                   THEN "accepted" ELSE "refused"
    BY <1>15 DEF Verdict
  <2>5. UNCHANGED <<done, framingError, peerClosed, delivered>>
    BY <2>1 DEF reader
  <2> QED
    BY <2>1, <2>2, <2>3, <2>4, <2>5 DEF EndInv
<1> QED
  BY <1>1, <1>2, <1>4, <1>5, <1>6, <1>7, <1>8, <1>9, <1>10, <1>11, <1>12, <1>13, <1>14, <1>15
     DEF HttpNext, HttpService, ReadStep

-----------------------------------------------------------------------------
(***************************************************************************)
(* The grammar of chunks                                                   *)
(***************************************************************************)
LEMMA TokensDiffer ==
  /\ CR # LF /\ CR # Ext /\ CR # Text /\ LF # Ext /\ LF # Text
  /\ CR[1] = "cr" /\ LF[1] = "lf" /\ Ext[1] = "ext" /\ Text[1] = "text"
  /\ \A x \in Tokens : x[1] = "size" => x[2] \in Nat /\ x = Size(x[2])
  /\ \A n : Size(n)[1] = "size" /\ Size(n)[2] = n
  BY DEF CR, LF, Ext, Text, Tokens, Size

\* The chunk whose size is at i has its line end at j.
Framed(t, i, j) ==
  /\ SizeLineAt(t, i, j)
  /\ IF t[i][2] = 0 THEN TrailerAt(t, j) ELSE ChunkAt(t, j, t[i][2])

\* What there is of a line that starts with a size.
LEMMA LineEnds ==
  ASSUME NEW t \in Seq(Tokens), InChunks(t), NEW p \in Nat, p <= Len(t),
         NEW l \in Seq(Tokens), l # <<>>, SizeAt(t, p, l)
  PROVE  \E i \in DOMAIN t, j \in DOMAIN t :
           /\ i = p - Len(l) + 1 /\ t[i][1] = "size" /\ Framed(t, i, j) /\ p < j /\ i <= p
           /\ \A k \in i..p : t[k] # LF
<1> DEFINE i == p - Len(l) + 1
<1>1. Len(l) \in Nat /\ Len(l) > 0 /\ Len(l) <= p /\ l[1][1] = "size"
      /\ \A k \in 1..Len(l) : l[k] = t[p - Len(l) + k] /\ l[k] # LF
  BY DEF SizeAt, LineIs
<1>2. i \in DOMAIN t /\ t[i][1] = "size" /\ i <= p /\ i \in Nat
  <2>1. l[1] = t[p - Len(l) + 1]
    BY <1>1
  <2> QED
    BY <1>1, <2>1
<1>3. PICK j \in DOMAIN t : Framed(t, i, j)
  BY <1>2 DEF InChunks, Framed
<1>4. \A k \in i..p : t[k] # LF
  <2> SUFFICES ASSUME NEW k \in i..p PROVE t[k] # LF
    OBVIOUS
  <2>1. k - (p - Len(l)) \in 1..Len(l) /\ p - Len(l) + (k - (p - Len(l))) = k
    BY <1>1
  <2> QED
    BY <1>1, <2>1
<1>5. j > i /\ t[j] = LF /\ j \in Nat
  BY <1>2, <1>3 DEF Framed, SizeLineAt
<1>6. p < j
  BY <1>2, <1>4, <1>5
<1> HIDE DEF i
<1> QED
  BY <1>2, <1>3, <1>4, <1>6 DEF i

LEMMA NextInLine ==
  ASSUME NEW t \in Seq(Tokens), NEW i \in DOMAIN t, NEW j \in DOMAIN t, SizeLineAt(t, i, j),
         NEW p \in Nat, i <= p, p < j
  PROVE  /\ t[p + 1][1] # "byte"
         /\ t[p + 1] = LF <=> p + 1 = j
<1>1. t[j] = LF /\ i \in Nat /\ j \in Nat
  BY DEF SizeLineAt
<1>2. CASE p + 1 = j
  BY <1>1, <1>2, TokensDiffer
<1>3. CASE p + 1 # j
  <2>1. p + 1 \in (i + 1)..(j - 1)
    BY <1>1, <1>3
  <2>2. t[p + 1] \in {CR, Ext, Text}
    BY <2>1 DEF SizeLineAt
  <2> QED
    BY <1>3, <2>2, TokensDiffer
<1> QED
  BY <1>2, <1>3

\* A line is empty without its CR if it is empty or is CR.
LEMMA StrippedIs ==
  ASSUME line \in Seq(Tokens)
  PROVE  Stripped = <<>> <=> line = <<>> \/ line = <<CR>>
<1>1. CASE line = <<>>
  BY <1>1 DEF Stripped
<1>2. CASE line # <<>> /\ line[Len(line)] # CR
  BY <1>2 DEF Stripped, Last
<1>3. CASE line # <<>> /\ line[Len(line)] = CR
  <2>1. Stripped = SubSeq(line, 1, Len(line) - 1)
    BY <1>3 DEF Stripped, Last, Front
  <2>2. Len(line) \in Nat /\ Len(line) > 0
    BY <1>3
  <2>3. Len(Stripped) = Len(line) - 1
    <3>1. 1 \in 1..(Len(line) + 1) /\ Len(line) - 1 \in (1 - 1)..Len(line)
      BY <2>2
    <3>2. Len(SubSeq(line, 1, Len(line) - 1))
            = IF 1 <= Len(line) - 1 THEN (Len(line) - 1) - 1 + 1 ELSE 0
      BY <3>1, SubSeqProperties
    <3>3. \A n \in Nat : n > 0 => (IF 1 <= n - 1 THEN (n - 1) - 1 + 1 ELSE 0) = n - 1
      OBVIOUS
    <3>4. Len(Stripped) = Len(SubSeq(line, 1, Len(line) - 1))
      BY <2>1
    <3> QED
      BY <2>2, <3>2, <3>3, <3>4
  <2>4. CASE Len(line) = 1
    <3>1. line = <<CR>>
      BY <1>3, <2>4
    <3>2. Stripped = <<>>
      BY <2>1, <2>4
    <3> QED
      BY <3>1, <3>2
  <2>5. CASE Len(line) # 1
    <3>1. Len(Stripped) # 0 /\ Len(<<>>) = 0 /\ Len(<<CR>>) = 1
      BY <2>2, <2>3, <2>5
    <3> QED
      BY <1>3, <2>5, <3>1
  <2> QED
    BY <2>4, <2>5
<1> QED
  BY <1>1, <1>2, <1>3

\* The number of a whole size line is its first token's.
LEMMA NumberIs ==
  ASSUME NEW t \in Seq(Tokens), NEW i \in DOMAIN t, NEW j \in DOMAIN t, SizeLineAt(t, i, j),
         t[i][1] = "size", line \in Seq(Tokens), Len(line) = j - i,
         \A k \in 1..Len(line) : line[k] = t[i + k - 1]
  PROVE  Stripped # <<>> /\ Number = t[i][2] /\ t[i][2] \in Nat
<1>1. i \in Nat /\ j \in Nat /\ i < j /\ Len(line) > 0 /\ 1 \in DOMAIN line
      /\ DOMAIN line = 1..Len(line)
  BY DEF SizeLineAt
<1>2. line[1] = t[i] /\ t[i] \in Tokens /\ t[i][2] \in Nat
  BY <1>1, TokensDiffer
<1>3. Stripped # <<>>
  <2>1. line # <<>>
    BY <1>1
  <2>2. line # <<CR>>
    BY <1>2, TokensDiffer
  <2> QED
    BY <2>1, <2>2, StrippedIs
<1>4. 1 \in SizeText
  BY <1>1, <1>2, TokensDiffer DEF SizeText
<1>5. ASSUME NEW k \in SizeText PROVE k = 1
  <2> SUFFICES ASSUME k # 1 PROVE FALSE
    OBVIOUS
  <2>1. k \in 1..Len(line) /\ line[k] # CR /\ \A m \in 1..k : line[m] # Ext
    BY <1>1 DEF SizeText
  <2>2. i + k - 1 \in (i + 1)..(j - 1) /\ line[k] = t[i + k - 1]
    BY <1>1, <2>1
  <2>3. PICK m \in (i + 1)..(i + k - 1) : t[m] = Ext
    BY <2>1, <2>2 DEF SizeLineAt
  <2>4. m - i + 1 \in 1..k /\ m - i + 1 \in 1..Len(line) /\ i + (m - i + 1) - 1 = m
    BY <1>1, <2>1, <2>3
  <2>5. line[m - i + 1] = t[m]
    BY <2>4
  <2> QED
    BY <2>1, <2>3, <2>4, <2>5
<1>6. SizeText = {1}
  BY <1>4, <1>5
<1>7. Number = line[1][2]
  <2>1. (CHOOSE k \in SizeText : TRUE) = 1
    BY <1>6
  <2>2. SizeText # {} /\ \E k \in SizeText : SizeText = {k} /\ line[k][1] = "size"
    BY <1>2, <1>6
  <2> QED
    BY <2>1, <2>2 DEF Number
<1> QED
  BY <1>2, <1>3, <1>7

\* Lines of none, one and more tokens.
LEMMA LineSizes ==
  ASSUME NEW l \in Seq(Tokens)
  PROVE  /\ Len(l) \in Nat /\ (Len(l) = 0 \/ Len(l) = 1 \/ Len(l) > 1)
         /\ Len(l) = 0 <=> l = <<>>
         /\ Len(l) = 1 => (l = <<CR>> <=> l[1] = CR)
         /\ Len(l) > 1 => l # <<CR>>
<1>1. Len(l) \in Nat /\ Len(<<>>) = 0 /\ Len(<<CR>>) = 1 /\ <<CR>>[1] = CR
  OBVIOUS
<1>2. Len(l) = 0 <=> l = <<>>
  BY <1>1
<1>3. ASSUME Len(l) = 1, l[1] = CR PROVE l = <<CR>>
  BY <1>3
<1>4. ASSUME l = <<CR>> PROVE Len(l) = 1 /\ l[1] = CR
  BY <1>1, <1>4
<1>7. \A n \in Nat : (n = 0 \/ n = 1 \/ n > 1) /\ (n > 1 => n # 1)
  OBVIOUS
<1>8. Len(l) \in Nat
  OBVIOUS
<1>5. Len(l) = 0 \/ Len(l) = 1 \/ Len(l) > 1
  BY <1>7, <1>8, Zenon
<1>6. Len(l) > 1 => Len(l) # 1
  BY <1>7, <1>8, Zenon
<1> QED
  BY <1>1, <1>2, <1>3, <1>4, <1>5, <1>6

\* A token more of a line.
LEMMA LineGrows ==
  ASSUME NEW t \in Seq(Tokens), NEW p \in Nat, NEW l \in Seq(Tokens), LineIs(t, p, l),
         p + 1 <= Len(t), t[p + 1] # LF
  PROVE  /\ LineIs(t, p + 1, Append(l, t[p + 1]))
         /\ Len(Append(l, t[p + 1])) = Len(l) + 1
         /\ p + 1 - Len(Append(l, t[p + 1])) = p - Len(l)
         /\ l # <<>> => Append(l, t[p + 1])[1] = l[1]
<1> DEFINE m == Append(l, t[p + 1])
<1>1. t[p + 1] \in Tokens /\ Len(l) \in Nat /\ Len(l) <= p
  BY DEF LineIs
<1>2. Len(m) = Len(l) + 1 /\ m[Len(l) + 1] = t[p + 1] /\ \A k \in 1..Len(l) : m[k] = l[k]
  BY <1>1
<1> HIDE DEF m
<1>3. ASSUME NEW k \in 1..Len(m) PROVE m[k] = t[p + 1 - Len(m) + k] /\ m[k] # LF
  <2>1. CASE k = Len(l) + 1
    BY <1>1, <1>2, <2>1
  <2>2. CASE k # Len(l) + 1
    <3>1. k \in 1..Len(l)
      BY <1>1, <1>2, <2>2
    <3>2. p + 1 - Len(m) + k = p - Len(l) + k
      BY <1>1, <1>2
    <3> QED
      BY <1>2, <3>1, <3>2 DEF LineIs
  <2> QED
    BY <2>1, <2>2
<1>4. LineIs(t, p + 1, m)
  BY <1>1, <1>2, <1>3 DEF LineIs
<1>5. ASSUME l # <<>> PROVE m[1] = l[1]
  BY <1>1, <1>2, <1>5
<1>6. p + 1 - Len(m) = p - Len(l)
  BY <1>1, <1>2
<1> QED
  BY <1>2, <1>4, <1>5, <1>6 DEF m

LEMMA NoLineYet ==
  ASSUME NEW t, NEW p \in Nat
  PROVE  LineIs(t, p, <<>>) /\ p - Len(<<>>) = p
  BY DEF LineIs

\* After the size of the last chunk no byte comes and no size.
LEMMA NothingAfterLast ==
  ASSUME NEW t \in Seq(Tokens), InChunks(t), NEW i \in DOMAIN t, t[i] = Size(0),
         NEW k \in DOMAIN t, i < k
  PROVE  t[k][1] # "byte" /\ t[k][1] # "size"
<1>1. PICK j \in DOMAIN t : Framed(t, i, j)
  BY TokensDiffer DEF InChunks, Framed
<1>2. SizeLineAt(t, i, j) /\ TrailerAt(t, j)
  BY <1>1, TokensDiffer DEF Framed
<1>3. CASE k > j
  <2>1. t[k] \in {CR, LF, Ext, Text}
    BY <1>2, <1>3 DEF TrailerAt
  <2> QED
    BY <2>1, TokensDiffer
<1>4. CASE k = j
  BY <1>2, <1>4, TokensDiffer DEF SizeLineAt
<1>5. CASE k < j
  <2>1. k \in (i + 1)..(j - 1)
    BY <1>5
  <2>2. t[k] \in {CR, Ext, Text}
    BY <1>2, <2>1 DEF SizeLineAt
  <2> QED
    BY <2>2, TokensDiffer
<1> QED
  BY <1>3, <1>4, <1>5

LEMMA LastReadStays ==
  ASSUME NEW t \in Seq(Tokens), NEW p \in Nat, NEW q \in Nat, p <= q, LastRead(t, p)
  PROVE  LastRead(t, q)
<1>1. PICK i \in DOMAIN t, j \in DOMAIN t :
        t[i] = Size(0) /\ SizeLineAt(t, i, j) /\ TrailerAt(t, j) /\ j <= p
  BY DEF LastRead
<1>2. j <= q
  BY <1>1
<1> QED
  BY <1>1, <1>2 DEF LastRead

\* The payload has been read when the last chunk's line has.
LEMMA NoPayloadAfterLast ==
  ASSUME NEW t \in Seq(Tokens), InChunks(t), NEW p \in Nat, NEW q \in Nat, p <= q,
         q <= Len(t), LastRead(t, p)
  PROVE  Count(t, q) = Count(t, p) /\ EndsLast(t, q)
<1>1. PICK i \in DOMAIN t, j \in DOMAIN t :
        t[i] = Size(0) /\ SizeLineAt(t, i, j) /\ TrailerAt(t, j) /\ j <= p
  BY DEF LastRead
<1>2. i < j /\ t[j] = LF
  BY <1>1 DEF SizeLineAt
<1>3. \A k \in (p + 1)..q : t[k][1] # "byte"
  BY <1>1, <1>2, NothingAfterLast
<1>4. i \in 1..q /\ j \in 1..q
  BY <1>1, <1>2
<1> QED
  BY <1>1, <1>2, <1>3, <1>4, CountNone DEF EndsLast

\* What a line of a chunk size leads to.
LEMMA ChunkStarts ==
  ASSUME NEW t \in Seq(Tokens), NEW i \in DOMAIN t, NEW j \in DOMAIN t,
         Framed(t, i, j), t[i][1] = "size", t[i][2] \in Nat
  PROVE  /\ t[i][2] > 0 => InChunk(t, j, t[i][2])
         /\ t[i][2] = 0 => TrailingAt(t, j, <<>>)
<1>1. SizeLineAt(t, i, j) /\ i \in Nat /\ j \in Nat /\ i < j /\ t[j] = LF
  BY DEF Framed, SizeLineAt
<1>2. ASSUME t[i][2] > 0 PROVE InChunk(t, j, t[i][2])
  <2>1. ChunkAt(t, j, t[i][2])
    BY <1>2 DEF Framed
  <2>2. ~EndsChunk(t, j)
    <3> SUFFICES ASSUME EndsChunk(t, j) PROVE FALSE
      OBVIOUS
    <3>1. j > 2 /\ t[j - 2][1] = "byte" /\ t[j - 1] = CR
      BY DEF EndsChunk
    <3>2. CASE i = j - 1
      BY <3>1, <3>2, TokensDiffer
    <3>3. CASE i = j - 2
      BY <3>1, <3>3
    <3>4. CASE i < j - 2
      <4>1. j - 2 \in (i + 1)..(j - 1)
        BY <1>1, <3>4
      <4>2. t[j - 2] \in {CR, Ext, Text}
        BY <1>1, <4>1 DEF SizeLineAt
      <4> QED
        BY <3>1, <4>2, TokensDiffer
    <3> QED
      BY <1>1, <3>2, <3>3, <3>4
  <2>3. j + t[i][2] + 3 = (j + t[i][2] + 2) + 1
    BY <1>1
  <2> QED
    BY <2>1, <2>2, <2>3 DEF ChunkAt, InChunk, AtSize
<1>3. ASSUME t[i][2] = 0 PROVE TrailingAt(t, j, <<>>)
  <2>1. TrailerAt(t, j) /\ t[i] = Size(0)
    BY <1>3, TokensDiffer DEF Framed
  <2>2. LastRead(t, j)
    BY <1>1, <2>1 DEF LastRead
  <2>3. j < Len(t)
    BY <2>1 DEF TrailerAt
  <2> QED
    BY <1>1, <2>2, <2>3, NoLineYet DEF TrailingAt
<1> QED
  BY <1>2, <1>3

\* n bytes further into a chunk.
LEMMA ChunkGoes ==
  ASSUME NEW t \in Seq(Tokens), NEW p \in Nat, NEW c \in Nat, InChunk(t, p, c),
         NEW n \in Nat, n > 0, n <= c
  PROVE  /\ n < c => InChunk(t, p + n, c - n)
         /\ n = c => AfterAt(t, p + n, <<>>)
<1>1. t[p + n][1] = "byte" /\ t[p + n] # LF
  <2>1. p + n \in (p + 1)..(p + c)
    OBVIOUS
  <2> QED
    BY <2>1, TokensDiffer DEF InChunk
<1>2. ~EndsChunk(t, p + n)
  BY <1>1 DEF EndsChunk
<1>3. /\ (p + n) + (c - n) + 2 = p + c + 2 /\ (p + n) + (c - n) = p + c
      /\ (p + n) + (c - n) + 1 = p + c + 1
  OBVIOUS
<1>4. ASSUME n < c PROVE InChunk(t, p + n, c - n)
  <2>1. \A k \in (p + n + 1)..(p + n + (c - n)) : t[k][1] = "byte"
    BY <1>3 DEF InChunk
  <2> QED
    BY <1>2, <1>3, <2>1 DEF InChunk
<1>5. ASSUME n = c PROVE AfterAt(t, p + n, <<>>)
  BY <1>1, <1>5 DEF InChunk, AfterAt
<1> QED
  BY <1>4, <1>5

\* A client that stops elsewhere than after a chunk has not ended its document.
LEMMA NotEnded ==
  ASSUME NEW t \in Seq(Tokens), InChunks(t), NEW p \in Nat, p <= Len(t),
         \/ \E c \in Nat : c > 0 /\ InChunk(t, p, c)
         \/ \E l \in Seq(Tokens) : AfterAt(t, p, l) \/ (l # <<>> /\ SizeAt(t, p, l))
  PROVE  p # Len(t) /\ ~EndsChunk(t, p) /\ ~EndsLast(t, p)
<1>1. ASSUME NEW k \in DOMAIN t, t[k][1] \in {"byte", "size"}, k <= p + 1,
             \A m \in k..p : t[m] # LF
      PROVE  ~EndsLast(t, p)
  <2> SUFFICES ASSUME NEW i \in 1..p, NEW j \in 1..p, i < j, t[i] = Size(0), t[j] = LF
               PROVE  FALSE
    BY DEF EndsLast
  <2>1. i \in DOMAIN t /\ j \in DOMAIN t
    OBVIOUS
  <2>2. j < k
    BY <1>1, <2>1
  <2> QED
    BY <1>1, <2>1, <2>2, NothingAfterLast
<1>2. ASSUME NEW c \in Nat, c > 0, InChunk(t, p, c)
      PROVE  p # Len(t) /\ ~EndsChunk(t, p) /\ ~EndsLast(t, p)
  <2>1. p + 1 \in DOMAIN t /\ t[p + 1][1] = "byte"
    BY <1>2 DEF InChunk
  <2>2. ~EndsLast(t, p)
    BY <1>1, <2>1
  <2> QED
    BY <1>2, <2>1, <2>2 DEF InChunk
<1>3. ASSUME NEW l \in Seq(Tokens), AfterAt(t, p, l)
      PROVE  p # Len(t) /\ ~EndsChunk(t, p) /\ ~EndsLast(t, p)
  <2>1. CASE p > 0 /\ p + 2 <= Len(t) /\ t[p][1] = "byte"
    <3>1. p \in DOMAIN t /\ t[p] # LF
      BY <2>1, TokensDiffer
    <3>2. ~EndsLast(t, p)
      BY <1>1, <2>1, <3>1
    <3> QED
      BY <2>1, <3>1, <3>2 DEF EndsChunk
  <2>2. CASE p > 1 /\ p + 1 <= Len(t) /\ t[p - 1][1] = "byte" /\ t[p] = CR
    <3>1. p - 1 \in DOMAIN t /\ t[p - 1] # LF /\ t[p] # LF
      BY <2>2, TokensDiffer
    <3>2. \A m \in (p - 1)..p : t[m] # LF
      BY <3>1
    <3>3. ~EndsLast(t, p)
      BY <1>1, <2>2, <3>1, <3>2
    <3> QED
      BY <2>2, <3>1, <3>3 DEF EndsChunk
  <2> QED
    BY <1>3, <2>1, <2>2 DEF AfterAt
<1>4. ASSUME NEW l \in Seq(Tokens), l # <<>>, SizeAt(t, p, l)
      PROVE  p # Len(t) /\ ~EndsChunk(t, p) /\ ~EndsLast(t, p)
  <2>1. PICK i \in DOMAIN t, j \in DOMAIN t :
          /\ t[i][1] = "size" /\ p < j /\ i <= p /\ \A k \in i..p : t[k] # LF
    BY <1>4, LineEnds
  <2>2. ~EndsLast(t, p)
    BY <1>1, <2>1
  <2>3. t[p] # LF
    BY <2>1
  <2> QED
    BY <2>1, <2>2, <2>3 DEF EndsChunk
<1> QED
  BY <1>2, <1>3, <1>4

\* A size line is not too long.
LEMMA SizeLineFits ==
  ASSUME NEW t \in Seq(Tokens), InChunks(t), NEW p \in Nat, p <= Len(t),
         NEW l \in Seq(Tokens), l # <<>>, SizeAt(t, p, l)
  PROVE  Len(l) < MaxLine
<1>1. PICK i \in DOMAIN t, j \in DOMAIN t : i = p - Len(l) + 1 /\ Framed(t, i, j) /\ p < j
  BY LineEnds
<1>2. j - i < MaxLine
  BY <1>1 DEF Framed, SizeLineAt
<1> QED
  BY <1>1, <1>2, HttpNumbers

\* Nor is a line after the last chunk; only the empty one ends them.
LEMMA Trailing ==
  ASSUME NEW t \in Seq(Tokens), NEW p \in Nat,
         NEW l \in Seq(Tokens), TrailingAt(t, p, l)
  PROVE  /\ Len(l) < MaxLine /\ Len(l) \in Nat
         /\ t[p + 1] \in {CR, LF, Ext, Text}
         /\ t[p + 1] = LF => (p + 1 = Len(t) <=> l = <<>> \/ l = <<CR>>)
         /\ t[p + 1] # LF => p + 1 < Len(t)
<1> DEFINE q == p - Len(l)
<1>1. /\ LineIs(t, p, l) /\ p < Len(t) /\ t[q] = LF /\ Len(l) \in Nat /\ Len(l) <= p
      /\ q \in Nat
  BY DEF TrailingAt, LineIs
<1>2. PICK j \in DOMAIN t : TrailerAt(t, j) /\ j <= q
  BY DEF TrailingAt, LastRead
<1>3. ASSUME NEW m \in (q + 1)..p PROVE t[m] # LF
  <2>1. m - q \in 1..Len(l) /\ q + (m - q) = m
    BY <1>1
  <2> QED
    BY <1>1, <2>1 DEF LineIs
<1>4. p + 1 \in (j + 1)..Len(t)
  BY <1>1, <1>2
<1>5. t[p + 1] \in {CR, LF, Ext, Text} /\ (EmptyLineAt(t, p + 1) <=> p + 1 = Len(t))
  BY <1>2, <1>4 DEF TrailerAt
<1>6. Len(l) < MaxLine
  <2> SUFFICES ASSUME Len(l) >= MaxLine PROVE FALSE
    BY <1>1, HttpNumbers
  <2>1. q \in j..(Len(t) - MaxLine)
    BY <1>1, <1>2, HttpNumbers
  <2>2. PICK m \in (q + 1)..(q + MaxLine) : t[m] = LF
    BY <1>2, <2>1 DEF TrailerAt
  <2>3. m \in (q + 1)..p
    BY <1>1, HttpNumbers
  <2> QED
    BY <1>3, <2>2, <2>3
<1>7. ASSUME t[p + 1] = LF PROVE EmptyLineAt(t, p + 1) <=> l = <<>> \/ l = <<CR>>
  <2>1. p + 1 - 1 = p /\ p + 1 - 2 = p - 1
    OBVIOUS
  <2>2. CASE Len(l) = 0
    <3>1. q = p /\ l = <<>>
      BY <1>1, <2>2, LineSizes
    <3> QED
      BY <1>1, <1>7, <2>1, <3>1 DEF EmptyLineAt
  <2>3. CASE Len(l) = 1
    <3>1. q = p - 1 /\ l[1] = t[p] /\ t[p] # LF
      BY <1>1, <2>3 DEF LineIs
    <3>2. l # <<>> /\ (l = <<CR>> <=> t[p] = CR)
      BY <2>3, <3>1, LineSizes
    <3> QED
      BY <1>1, <1>7, <2>1, <3>1, <3>2 DEF EmptyLineAt
  <2>4. CASE Len(l) > 1
    <3>1. p \in (q + 1)..p /\ p - 1 \in (q + 1)..p
      BY <1>1, <2>4
    <3>2. t[p] # LF /\ t[p - 1] # LF
      BY <1>3, <3>1
    <3>3. l # <<>> /\ l # <<CR>>
      BY <2>4, LineSizes
    <3> QED
      BY <2>1, <3>2, <3>3 DEF EmptyLineAt
  <2> QED
    BY <2>2, <2>3, <2>4, LineSizes
<1>8. ASSUME t[p + 1] # LF PROVE p + 1 < Len(t)
  <2>1. ~EmptyLineAt(t, p + 1)
    BY <1>8 DEF EmptyLineAt
  <2> QED
    BY <1>1, <1>5, <2>1
<1> QED
  BY <1>1, <1>5, <1>6, <1>7, <1>8

-----------------------------------------------------------------------------
(***************************************************************************)
(* Steps in a sound request in chunks                                      *)
(***************************************************************************)
\* A sound request in chunks, under way.
ReadingChunks ==
  /\ HttpTypeOK /\ ReaderInv /\ hpc # "off"
  /\ request.chunked /\ InChunks(text) /\ ChunksInv

LEMMA ChunkedHas ==
  ASSUME ReadingChunks
  PROVE  /\ text \in Seq(Tokens) /\ Len(text) \in Nat
         /\ taken \in Nat /\ sent \in Nat /\ taken <= sent /\ sent <= Len(text)
         /\ line \in Seq(Tokens) /\ Len(line) \in Nat /\ chunkRemaining \in Nat
         /\ hpc \in {"size", "trailer", "data", "after"} => Place /\ ~done /\ ~framingError
         /\ hpc \in {"size", "trailer", "after"} => chunkRemaining = 0
<1>1. HttpTypeOK /\ ClientTypes /\ ReaderTypes /\ BlockTypes
  BY DEF ReadingChunks, HttpTypeOK
<1>2. text \in Seq(Tokens) /\ Len(text) \in Nat /\ text = request.tokens
  BY <1>1, RequestIs
<1>3. taken \in Nat /\ sent \in Nat /\ taken <= sent /\ sent <= Len(text)
  BY <1>1, <1>2 DEF ClientTypes, ReaderTypes
<1>4. line \in Seq(Tokens) /\ Len(line) \in Nat /\ chunkRemaining \in Nat
  BY <1>1 DEF BlockTypes, ReaderTypes
<1>5. hpc \in {"size", "trailer", "data", "after"} => Place /\ ~done /\ ~framingError
  BY DEF ReadingChunks, ReaderInv, StageInv, ChunksInv
<1>6. hpc \in {"size", "trailer", "after"} => chunkRemaining = 0
  BY DEF ReadingChunks, ReaderInv, NeedInv
<1> QED
  BY <1>2, <1>3, <1>4, <1>5, <1>6

LEMMA TextKept ==
  ASSUME UNCHANGED client
  PROVE  text' = text /\ UNCHANGED <<request, sent, shut>>
  BY DEF client, text

\* A line goes on.
LEMMA InLineGoes ==
  ASSUME ReadingChunks, InLine
  PROVE  /\ ~done' /\ Place' /\ taken' = taken + 1 /\ text[taken + 1][1] # "byte"
<1>1. /\ text \in Seq(Tokens) /\ taken \in Nat /\ taken <= Len(text) /\ line \in Seq(Tokens)
      /\ Place /\ ~done
  BY ChunkedHas DEF InLine
<1>2. /\ text' = text /\ taken' = taken + 1 /\ taken + 1 <= Len(text)
      /\ text[taken + 1] # LF /\ line' = Append(line, text[taken + 1])
      /\ hpc' = hpc /\ done' = done /\ hpc \in {"size", "trailer"}
  BY TextKept, TokenIs DEF InLine, ReadingChunks, reader
<1>3. CASE hpc = "size" /\ line = <<>>
  <2>1. text[taken + 1][1] = "size"
    BY <1>1, <1>2, <1>3 DEF Place, SizeAt, Boundary, AtSize
  <2>2. LineIs(text, taken, line)
    BY <1>1, <1>3, NoLineYet
  <2>3. LineIs(text, taken + 1, line') /\ Len(line') = Len(line) + 1
    BY <1>1, <1>2, <2>2, LineGrows
  <2>4. line' # <<>> /\ line'[1] = text[taken + 1]
    BY <1>1, <1>2, <1>3
  <2>5. SizeAt(text', taken', line')
    BY <1>2, <2>1, <2>3, <2>4 DEF SizeAt
  <2> QED
    BY <1>1, <1>2, <1>3, <2>1, <2>5 DEF Place
<1>4. CASE hpc = "size" /\ line # <<>>
  <2>1. SizeAt(text, taken, line)
    BY <1>1, <1>4 DEF Place
  <2>2. PICK i \in DOMAIN text, j \in DOMAIN text :
          Framed(text, i, j) /\ taken < j /\ i <= taken
    BY <1>1, <1>4, <2>1, LineEnds, ChunkedHas DEF ReadingChunks
  <2>3. text[taken + 1][1] # "byte"
    BY <1>1, <2>2, NextInLine DEF Framed
  <2>4. LineIs(text, taken, line) /\ line[1][1] = "size"
    BY <1>4, <2>1 DEF SizeAt
  <2>5. LineIs(text, taken + 1, line') /\ line'[1] = line[1] /\ Len(line') = Len(line) + 1
    BY <1>1, <1>2, <1>4, <2>4, LineGrows
  <2>6. line' # <<>>
    BY <1>1, <1>2
  <2>7. SizeAt(text', taken', line')
    BY <1>2, <2>4, <2>5, <2>6 DEF SizeAt
  <2> QED
    BY <1>1, <1>2, <1>4, <2>3, <2>7 DEF Place
<1>5. CASE hpc = "trailer"
  <2>1. TrailingAt(text, taken, line)
    BY <1>1, <1>5 DEF Place
  <2>2. text[taken + 1] \in {CR, LF, Ext, Text} /\ taken + 1 < Len(text)
    BY <1>1, <1>2, <2>1, Trailing
  <2>3. /\ LineIs(text, taken + 1, line')
        /\ Len(line') = Len(line) + 1 /\ Len(line) \in Nat
    BY <1>1, <1>2, <2>1, LineGrows DEF TrailingAt
  <2>4. TrailingAt(text', taken', line')
    <3>1. taken' - Len(line') = taken - Len(line)
      BY <1>1, <1>2, <2>3
    <3>2. LineIs(text', taken', line') /\ taken' < Len(text')
      BY <1>2, <2>2, <2>3
    <3>3. LastRead(text', taken' - Len(line')) /\ text'[taken' - Len(line')] = LF
      BY <1>2, <2>1, <3>1, Zenon DEF TrailingAt
    <3> QED
      BY <3>2, <3>3 DEF TrailingAt
  <2> QED
    BY <1>1, <1>2, <1>5, <2>2, <2>4, TokensDiffer DEF Place
<1> QED
  BY <1>2, <1>3, <1>4, <1>5

\* The line of a size ends.
LEMMA SizeLineGoes ==
  ASSUME ReadingChunks, SizeLine
  PROVE  /\ ~done' /\ ~framingError' /\ Place' /\ taken' = taken + 1
         /\ text[taken + 1][1] # "byte"
<1>1. /\ text \in Seq(Tokens) /\ taken \in Nat /\ taken <= Len(text) /\ line \in Seq(Tokens)
      /\ Place /\ ~done /\ ~framingError /\ chunkRemaining = 0 /\ SizeAt(text, taken, line)
      /\ Len(line) \in Nat
  BY ChunkedHas DEF SizeLine, Place
<1>2. /\ text' = text /\ taken' = taken + 1 /\ taken + 1 <= Len(text)
      /\ text[taken + 1] = LF /\ line' = <<>> /\ done' = done
  BY TextKept, TokenIs DEF SizeLine, ReadingChunks
<1>3. line # <<>>
  <2>1. ASSUME line = <<>> PROVE text[taken + 1][1] = "size"
    BY <1>1, <1>2, <2>1 DEF SizeAt, Boundary, AtSize
  <2> QED
    BY <1>2, <2>1, TokensDiffer
<1>4. PICK i \in DOMAIN text, j \in DOMAIN text :
        /\ i = taken - Len(line) + 1 /\ text[i][1] = "size" /\ Framed(text, i, j)
        /\ taken < j /\ i <= taken
  BY <1>1, <1>3, LineEnds DEF ReadingChunks
<1>5. SizeLineAt(text, i, j) /\ taken + 1 = j
  BY <1>1, <1>2, <1>4, NextInLine DEF Framed
<1>6. Stripped # <<>> /\ Number = text[i][2] /\ text[i][2] \in Nat
  <2>1. Len(line) = j - i
    BY <1>1, <1>4, <1>5
  <2>2. ASSUME NEW k \in 1..Len(line) PROVE line[k] = text[i + k - 1]
    <3>1. taken - Len(line) + k = i + k - 1
      BY <1>1, <1>4
    <3> QED
      BY <1>1, <1>3, <3>1 DEF SizeAt, LineIs
  <2> QED
    BY <1>1, <1>4, <1>5, <2>1, <2>2, NumberIs
<1>7. /\ text[i][2] > 0 => InChunk(text, j, text[i][2])
      /\ text[i][2] = 0 => TrailingAt(text, j, <<>>)
  BY <1>1, <1>4, <1>6, ChunkStarts
<1>8. CASE Number = 0
  <2>1. hpc' = "trailer" /\ framingError' = framingError
    BY <1>6, <1>8 DEF SizeLine
  <2>2. TrailingAt(text', taken', line')
    BY <1>2, <1>5, <1>6, <1>7, <1>8
  <2> QED
    BY <1>1, <1>2, <2>1, <2>2, TokensDiffer DEF Place
<1>9. CASE Number # 0
  <2>1. Number > 0
    BY <1>6, <1>9
  <2>2. hpc' = "data" /\ chunkRemaining' = Number /\ framingError' = framingError
    BY <1>6, <2>1 DEF SizeLine
  <2>3. InChunk(text', taken', chunkRemaining') /\ chunkRemaining' > 0
    BY <1>2, <1>5, <1>6, <1>7, <2>1, <2>2
  <2> QED
    BY <1>1, <1>2, <2>2, <2>3, TokensDiffer DEF Place
<1> QED
  BY <1>8, <1>9

LEMMA NothingComes ==
  ASSUME ReadingChunks, Nothing, UNCHANGED client
  PROVE  taken' = taken /\ (stalled' \/ (shut' /\ taken' = sent'))
  BY DEF Nothing, client

LEMMA NotEndedAt ==
  ASSUME request.chunked, text = request.tokens,
         sent # Len(text), ~EndsChunk(text, sent), ~EndsLast(text, sent)
  PROVE  ~EndsAt(sent)
  BY DEF EndsAt

\* No size line.
LEMMA SizeLineFailsGoes ==
  ASSUME ReadingChunks, SizeLineFails
  PROVE  /\ ~done' /\ taken' = taken
         /\ ~framingError' => Place'
         /\ framingError' => stalled' \/ (shut' /\ taken' = sent' /\ ~EndsAt(sent)')
<1>1. /\ text \in Seq(Tokens) /\ taken \in Nat /\ taken <= Len(text) /\ line \in Seq(Tokens)
      /\ ~done /\ chunkRemaining = 0 /\ SizeAt(text, taken, line)
  BY ChunkedHas DEF SizeLineFails, Place
<1>2. /\ text' = text /\ line' = line /\ done' = done /\ hpc' \in {"block", "end"}
      /\ chunkRemaining' = chunkRemaining /\ UNCHANGED <<request, sent, shut>>
      /\ framingError' = ~(peerClosed' /\ line = <<>>)
  BY TextKept DEF SizeLineFails, progress, Returns
<1>3. Nothing
  <2>1. Len(line) < MaxLine
    <3>1. CASE line = <<>>
      BY <3>1, HttpNumbers
    <3>2. CASE line # <<>>
      BY <1>1, <3>2, SizeLineFits DEF ReadingChunks
    <3> QED
      BY <3>1, <3>2
  <2> QED
    BY <2>1, HttpNumbers DEF SizeLineFails, NoLine
<1>4. taken' = taken /\ peerClosed' = shut /\ taken = sent /\ (shut \/ stalled')
  BY <1>3 DEF Nothing
<1>5. ASSUME ~framingError' PROVE Place'
  <2>1. Boundary(text, taken)
    BY <1>1, <1>2, <1>5 DEF SizeAt
  <2> QED
    BY <1>1, <1>2, <1>4, <2>1 DEF Place
<1>6. ASSUME framingError', ~stalled' PROVE shut' /\ taken' = sent' /\ ~EndsAt(sent)'
  <2>1. line # <<>>
    BY <1>2, <1>4, <1>6
  <2>2. taken # Len(text) /\ ~EndsChunk(text, taken) /\ ~EndsLast(text, taken)
    BY <1>1, <2>1, NotEnded DEF ReadingChunks
  <2>3. ~EndsAt(sent)
    BY <1>4, <2>2, NotEndedAt, RequestIs DEF ReadingChunks, HttpTypeOK
  <2>4. EndsAt(sent)' <=> EndsAt(sent)
    BY <1>2 DEF EndsAt, Document
  <2> QED
    BY <1>2, <1>4, <1>6, <2>3, <2>4
<1> QED
  BY <1>1, <1>2, <1>4, <1>5, <1>6

\* The lines after the last chunk.
LEMMA TrailerGoes ==
  ASSUME ReadingChunks, Trailer
  PROVE  /\ framingError' = framingError /\ ChunksInv'
         /\ \/ taken' = taken
            \/ taken' = taken + 1 /\ text[taken + 1][1] # "byte"
<1>1. /\ text \in Seq(Tokens) /\ taken \in Nat /\ taken <= Len(text) /\ line \in Seq(Tokens)
      /\ ~done /\ TrailingAt(text, taken, line) /\ Len(line) \in Nat
  BY ChunkedHas DEF Trailer, Place
<1>2. text' = text /\ framingError' = framingError /\ UNCHANGED <<sent, shut>>
  BY TextKept DEF Trailer
<1>3. /\ Len(line) < MaxLine
      /\ text[taken + 1] = LF => (taken + 1 = Len(text) <=> line = <<>> \/ line = <<CR>>)
  BY <1>1, Trailing
<1>4. LastRead(text, taken) /\ LastRead(text, taken + 1) /\ taken < Len(text)
  <2>1. LastRead(text, taken - Len(line)) /\ taken - Len(line) \in Nat /\ taken < Len(text)
    BY <1>1 DEF TrailingAt, LineIs
  <2> QED
    BY <1>1, <2>1, LastReadStays
<1>5. CASE /\ Takes(1) /\ Token = LF /\ done' = (Stripped = <<>>) /\ line' = <<>>
  <2>1. taken' = taken + 1 /\ text[taken + 1] = LF
    BY <1>5, TokenIs DEF ReadingChunks
  <2>2. CASE Stripped = <<>>
    <3>1. taken' = Len(text') /\ done'
      BY <1>1, <1>2, <1>3, <1>5, <2>1, <2>2, StrippedIs
    <3> QED
      BY <1>2, <1>4, <2>1, <3>1, TokensDiffer DEF ChunksInv
  <2>3. CASE Stripped # <<>>
    <3>1. ~done' /\ hpc' = "trailer"
      BY <1>5, <2>3 DEF Trailer
    <3>2. taken + 1 < Len(text)
      BY <1>1, <1>3, <1>4, <2>1, <2>3, StrippedIs
    <3>3. TrailingAt(text', taken', line')
      <4>1. taken + 1 \in Nat
        BY <1>1
      <4>2. TrailingAt(text, taken + 1, <<>>)
        BY <1>4, <2>1, <3>2, <4>1, NoLineYet DEF TrailingAt
      <4> QED
        BY <1>2, <1>5, <2>1, <4>2
    <3>4. Place'
      BY <3>1, <3>3 DEF Place
    <3> QED
      BY <1>2, <2>1, <3>1, <3>4, TokensDiffer DEF ChunksInv
  <2> QED
    BY <2>2, <2>3
<1>6. CASE NoLine /\ done' = TRUE
  <2>1. Nothing
    BY <1>3, <1>6, HttpNumbers DEF NoLine
  <2>2. taken' = taken /\ (stalled' \/ shut')
    BY <1>2, <2>1 DEF Nothing
  <2> QED
    BY <1>2, <1>4, <1>6, <2>2 DEF ChunksInv
<1> QED
  BY <1>5, <1>6 DEF Trailer

\* The two characters after a chunk.
LEMMA AfterChunkGoes ==
  ASSUME ReadingChunks, AfterChunk
  PROVE  /\ ~done'
         /\ ~framingError' => Place'
         /\ framingError' => stalled' \/ (shut' /\ taken' = sent' /\ ~EndsAt(sent)')
         /\ \/ taken' = taken
            \/ taken' = taken + 1 /\ text[taken + 1][1] # "byte"
<1>1. /\ text \in Seq(Tokens) /\ taken \in Nat /\ taken <= Len(text) /\ line \in Seq(Tokens)
      /\ ~done /\ ~framingError /\ AfterAt(text, taken, line) /\ chunkRemaining = 0
  BY ChunkedHas DEF AfterChunk, Place
<1>2. /\ text' = text /\ done' = done /\ chunkRemaining' = 0
      /\ UNCHANGED <<request, sent, shut>>
  BY <1>1, TextKept DEF AfterChunk
<1>3. CASE Takes(1) /\ line = <<>> /\ line' = <<Token>> /\ UNCHANGED <<framingError, hpc>>
  <2>1. taken' = taken + 1 /\ Token = text[taken + 1]
    BY <1>3, TokenIs DEF ReadingChunks
  <2>2. /\ taken > 0 /\ taken + 2 <= Len(text) /\ text[taken][1] = "byte"
        /\ text[taken + 1] = CR /\ text[taken + 2] = LF /\ AtSize(text, taken + 2)
    <3>1. <<>> # <<CR>>
      OBVIOUS
    <3> QED
      BY <1>1, <1>3, <3>1 DEF AfterAt
  <2>3. AfterAt(text, taken + 1, <<CR>>)
    <3>1. taken + 1 - 1 = taken /\ taken + 1 + 1 = taken + 2
      BY <1>1
    <3> QED
      BY <1>1, <2>2, <3>1 DEF AfterAt
  <2>4. Place'
    <3>1. AfterAt(text', taken', line') /\ hpc' = "after"
      BY <1>2, <1>3, <2>1, <2>2, <2>3 DEF AfterChunk
    <3> QED
      BY <3>1 DEF Place
  <2> QED
    BY <1>1, <1>2, <1>3, <2>1, <2>2, <2>4, TokensDiffer
<1>4. CASE /\ Takes(1) /\ line # <<>> /\ line' = <<>>
           /\ framingError' = (<<line[1], Token>> # <<CR, LF>>)
           /\ IF framingError' THEN Returns ELSE hpc' = "next" /\ UNCHANGED outcome
  <2>1. taken' = taken + 1 /\ Token = text[taken + 1]
    BY <1>4, TokenIs DEF ReadingChunks
  <2>2. /\ line = <<CR>> /\ taken > 1 /\ taken + 1 <= Len(text) /\ text[taken - 1][1] = "byte"
        /\ text[taken] = CR /\ text[taken + 1] = LF /\ AtSize(text, taken + 1)
    BY <1>1, <1>4 DEF AfterAt
  <2>3. ~framingError' /\ hpc' = "next"
    <3>1. line[1] = CR /\ Token = LF
      BY <2>1, <2>2
    <3> QED
      BY <1>4, <3>1
  <2>4. Boundary(text', taken')
    <3>1. EndsChunk(text, taken + 1)
      <4>1. taken + 1 - 2 = taken - 1 /\ taken + 1 - 1 = taken /\ taken + 1 > 2
        BY <1>1, <2>2
      <4>2. text[taken + 1 - 2][1] = "byte" /\ text[taken + 1 - 1] = CR
        BY <2>2, <4>1, Zenon
      <4> QED
        BY <1>1, <2>2, <4>1, <4>2 DEF EndsChunk
    <3>2. taken + 1 \in 0..Len(text)
      BY <1>1, <2>2
    <3>3. Boundary(text, taken + 1)
      BY <2>2, <3>1, <3>2 DEF Boundary
    <3> QED
      BY <1>2, <2>1, <3>3
  <2>5. Place'
    BY <1>2, <2>3, <2>4 DEF Place
  <2> QED
    BY <1>1, <1>2, <2>1, <2>2, <2>3, <2>5, TokensDiffer
<1>5. CASE Nothing /\ framingError' = TRUE
  <2>1. taken' = taken /\ taken = sent /\ (shut \/ stalled')
    BY <1>5 DEF Nothing
  <2>2. taken # Len(text) /\ ~EndsChunk(text, taken) /\ ~EndsLast(text, taken)
    BY <1>1, NotEnded DEF ReadingChunks
  <2>3. ~EndsAt(sent)
    BY <2>1, <2>2, NotEndedAt, RequestIs DEF ReadingChunks, HttpTypeOK
  <2>4. EndsAt(sent)' <=> EndsAt(sent)
    BY <1>2 DEF EndsAt, Document
  <2> QED
    BY <1>1, <1>2, <1>5, <2>1, <2>3, <2>4
<1> QED
  BY <1>3, <1>4, <1>5 DEF AfterChunk

\* Bytes of a chunk.
LEMMA DataGoesOn ==
  ASSUME ReadingChunks, Data
  PROVE  /\ ~done' /\ Place'
         /\ \A k \in (taken + 1)..taken' : text[k][1] = "byte"
<1>1. /\ text \in Seq(Tokens) /\ taken \in Nat /\ taken <= Len(text) /\ line \in Seq(Tokens)
      /\ ~done /\ ~framingError /\ Place /\ chunkRemaining \in Nat /\ hpc = "data"
  BY ChunkedHas DEF Data
<1>2. line = <<>> /\ chunkRemaining > 0
  BY <1>1 DEF ReadingChunks, ReaderInv, StageInv, NeedInv
<1>3. InChunk(text, taken, chunkRemaining)
  BY <1>1, <1>2 DEF Place
<1>4. /\ text' = text /\ line' = line /\ ~done'
      /\ hpc' = IF chunkRemaining' = 0 THEN "after" ELSE "next"
  BY DataGoes, TextKept DEF ReadingChunks
<1>5. PICK n \in Nat :
        /\ n > 0 /\ n <= Wanted /\ taken' = taken + n
        /\ chunkRemaining' = IF request.chunked THEN chunkRemaining - n ELSE 0
  BY DataTakes DEF ReadingChunks
<1>6. n <= chunkRemaining /\ chunkRemaining' = chunkRemaining - n
  BY <1>1, <1>5, WantedIs DEF ReadingChunks
<1>7. /\ n < chunkRemaining => InChunk(text, taken + n, chunkRemaining - n)
      /\ n = chunkRemaining => AfterAt(text, taken + n, <<>>)
  BY <1>1, <1>3, <1>5, <1>6, ChunkGoes
<1>8. \A k \in (taken + 1)..taken' : text[k][1] = "byte"
  BY <1>1, <1>3, <1>5, <1>6 DEF InChunk
<1>9. CASE n < chunkRemaining
  <2>1. hpc' = "next" /\ chunkRemaining' > 0
    BY <1>1, <1>4, <1>6, <1>9
  <2>2. InChunk(text', taken', chunkRemaining')
    BY <1>4, <1>5, <1>6, <1>7, <1>9
  <2> QED
    BY <1>4, <1>8, <2>1, <2>2 DEF Place
<1>10. CASE n = chunkRemaining
  <2>1. hpc' = "after"
    BY <1>1, <1>4, <1>6, <1>10
  <2>2. AfterAt(text', taken', line')
    BY <1>2, <1>4, <1>5, <1>7, <1>10
  <2> QED
    BY <1>4, <1>8, <2>1, <2>2 DEF Place
<1> QED
  BY <1>1, <1>5, <1>6, <1>9, <1>10

-----------------------------------------------------------------------------
(***************************************************************************)
(* Steps in a sound request                                                *)
(***************************************************************************)
\* A sound request, under way.
Underway ==
  /\ HttpTypeOK /\ ReaderInv /\ EndInv /\ hpc # "off"
  /\ Sound /\ FramingInv /\ ErrorInv /\ PayloadInv

LEMMA UnderwayHas ==
  ASSUME Underway
  PROVE  /\ text \in Seq(Tokens) /\ Len(text) \in Nat /\ text = request.tokens
         /\ taken \in Nat /\ sent \in Nat /\ taken <= sent /\ sent <= Len(text)
         /\ request.chunked => ReadingChunks
         /\ ~request.chunked => PlainInv
         /\ ~request.chunked =>
              /\ \A k \in DOMAIN text : text[k][1] = "byte"
              /\ request.length \in {-1, Len(text)}
              /\ request.length = -1 /\ ~request.document => Len(text) <= HeadSize
         /\ HttpTypeOK /\ ReaderInv /\ EndInv /\ ErrorInv /\ PayloadInv
<1>1. HttpTypeOK /\ ClientTypes /\ ReaderTypes
  BY DEF Underway, HttpTypeOK
<1>2. text \in Seq(Tokens) /\ Len(text) \in Nat /\ text = request.tokens
  BY <1>1, RequestIs
<1>3. taken \in Nat /\ sent \in Nat /\ taken <= sent /\ sent <= Len(text)
  BY <1>1, <1>2 DEF ClientTypes, ReaderTypes
<1>4. request.chunked => ReadingChunks
  BY <1>2 DEF Underway, ReadingChunks, Sound, FramingInv
<1>5. ~request.chunked => PlainInv
  BY DEF Underway, FramingInv
<1>6. ~request.chunked =>
              /\ \A k \in DOMAIN text : text[k][1] = "byte"
              /\ request.length \in {-1, Len(text)}
              /\ request.length = -1 /\ ~request.document => Len(text) <= HeadSize
  BY <1>2 DEF Underway, Sound
<1> QED
  BY <1>1, <1>2, <1>3, <1>4, <1>5, <1>6 DEF Underway

LEMMA SoundKept ==
  ASSUME UNCHANGED request
  PROVE  text' = text /\ (Sound' <=> Sound)
  BY DEF text, Sound

LEMMA EndsKept ==
  ASSUME UNCHANGED <<request, sent>>
  PROVE  EndsAt(sent)' <=> EndsAt(sent)
  BY DEF EndsAt, Document

\* A request begins.
LEMMA AskStep ==
  ASSUME OffInv, Ask, Sound', HttpTypeOK'
  PROVE  FramingInv' /\ ErrorInv' /\ PayloadInv'
<1>1. /\ hpc' = "next" /\ taken' = 0 /\ chunkRemaining' = 0 /\ ~done' /\ ~framingError'
      /\ ~peerClosed' /\ part' = "head" /\ block' = <<>> /\ delivered' = <<>>
      /\ outcome' = "none"
      /\ remaining' = IF request'.chunked THEN -1 ELSE request'.length
  BY DEF Ask, OffInv, progress, result
<1>2. text' = request'.tokens /\ text' \in Seq(Tokens) /\ Len(text') \in Nat
      /\ request'.length \in Nat \cup {-1}
  BY RequestHas DEF text, HttpTypeOK, ClientTypes
<1>3. ASSUME request'.chunked PROVE ChunksInv'
  <2>1. text' # <<>> /\ text'[1][1] = "size"
    BY <1>2, <1>3 DEF Sound, InChunks
  <2>2. Boundary(text', 0)
    BY <1>2, <2>1 DEF Boundary, AtSize
  <2>3. Place'
    BY <1>1, <2>2 DEF Place
  <2> QED
    BY <1>1, <2>3 DEF ChunksInv
<1>4. ASSUME ~request'.chunked PROVE PlainInv'
  <2>1. request'.length \in {-1, Len(text')}
    BY <1>2, <1>4 DEF Sound
  <2> QED
    BY <1>1, <1>2, <1>4, <2>1 DEF PlainInv
<1>5. PayloadInv'
  <2>1. Count(text', 0) = 0
    BY CountNothing
  <2>2. Len(<<>>) = 0 /\ Numbered(<<>>, 0)
    BY DEF Numbered
  <2> QED
    BY <1>1, <2>1, <2>2 DEF PayloadInv
<1> QED
  BY <1>1, <1>3, <1>4, <1>5 DEF FramingInv, ErrorInv

\* A step that reads nothing leaves the framing where it was.
LEMMA ChunksQuiet ==
  ASSUME ReadingChunks, UNCHANGED <<request, taken, chunkRemaining, done, framingError, line>>,
         stalled => stalled', shut => shut',
         \/ hpc' = hpc
         \/ hpc \in {"next", "data", "block"} /\ hpc' \in {"next", "data", "block", "end"}
         \/ hpc = "next" /\ hpc' = "size" /\ chunkRemaining = 0
  PROVE  ChunksInv'
<1>1. text' = text /\ chunkRemaining \in Nat
  BY SoundKept, ChunkedHas
<1>2. ASSUME ~done, ~framingError PROVE Place'
  <2>1. Place
    BY <1>2 DEF ReadingChunks, ChunksInv
  <2>2. CASE hpc' = hpc
    BY <1>1, <2>1, <2>2 DEF Place
  <2>3. CASE hpc \in {"next", "data", "block"} /\ hpc' \in {"next", "data", "block", "end"}
    BY <1>1, <2>1, <2>3 DEF Place
  <2>4. CASE hpc = "next" /\ hpc' = "size" /\ chunkRemaining = 0
    <3>1. line = <<>>
      BY <1>2, <2>4 DEF ReadingChunks, ReaderInv, StageInv
    <3>2. Boundary(text, taken)
      BY <2>1, <2>4 DEF Place
    <3>3. SizeAt(text', taken', line')
      BY <1>1, <3>1, <3>2 DEF SizeAt
    <3> QED
      BY <2>4, <3>3 DEF Place
  <2> QED
    BY <2>2, <2>3, <2>4
<1>3. ASSUME done PROVE LastRead(text, taken)' /\ (taken = Len(text) \/ stalled \/ shut)'
  BY <1>1, <1>3 DEF ReadingChunks, ChunksInv
<1> QED
  BY <1>2, <1>3 DEF ChunksInv

LEMMA ErrorQuiet ==
  ASSUME ErrorInv, UNCHANGED <<request, taken, framingError>>, stalled => stalled',
         \/ UNCHANGED <<sent, shut>>
         \/ ~shut
  PROVE  ErrorInv'
<1>1. CASE UNCHANGED <<sent, shut>>
  BY <1>1, EndsKept DEF ErrorInv
<1>2. CASE ~shut
  BY <1>2 DEF ErrorInv
<1> QED
  BY <1>1, <1>2

LEMMA PayloadKept ==
  ASSUME PayloadInv, UNCHANGED <<part, block, delivered, hurried>>,
         outcome # "answered", outcome' # "answered", Count(text', taken') = Count(text, taken)
  PROVE  PayloadInv'
  BY DEF PayloadInv

\* Whoever writes or closes.
LEMMA ClientStep ==
  ASSUME Underway, Write \/ Close
  PROVE  FramingInv' /\ ErrorInv' /\ PayloadInv'
<1>1. /\ UNCHANGED <<request, taken, peerClosed, stalled, hpc, chunkRemaining, remaining,
                     done, framingError, line, part, block, delivered, outcome, hurried>>
      /\ ~shut /\ hpc \notin {"off", "end"}
  BY DEF Write, Close, reader, progress, result, Serving
<1>2. text' = text
  BY <1>1, SoundKept
<1>3. ASSUME request.chunked PROVE ChunksInv'
  BY <1>1, <1>3, ChunksQuiet, UnderwayHas
<1>4. ASSUME ~request.chunked PROVE PlainInv'
  BY <1>1, <1>2, <1>4, UnderwayHas DEF PlainInv
<1>5. ErrorInv'
  BY <1>1, ErrorQuiet, UnderwayHas
<1>6. outcome = "none"
  BY <1>1, UnderwayHas DEF ReaderInv, StageInv
<1>7. PayloadInv'
  BY <1>1, <1>2, <1>6, PayloadKept, UnderwayHas
<1> QED
  BY <1>1, <1>3, <1>4, <1>5, <1>7 DEF FramingInv

LEMMA NoByteTaken ==
  ASSUME text' = text, taken \in Nat,
         \/ taken' = taken
         \/ taken' = taken + 1 /\ text[taken + 1][1] # "byte"
  PROVE  Count(text', taken') = Count(text, taken)
<1>1. CASE taken' = taken
  BY <1>1
<1>2. CASE taken' = taken + 1 /\ text[taken + 1][1] # "byte"
  <2>1. \A k \in (taken + 1)..(taken + 1) : text[k][1] # "byte"
    BY <1>2
  <2>2. Count(text, taken + 1) = Count(text, taken)
    BY <2>1, CountNone
  <2> QED
    BY <1>2, <2>2
<1> QED
  BY <1>1, <1>2

\* A step of the reader on a line.
LEMMA LinesStep ==
  ASSUME Underway, InLine \/ SizeLine \/ SizeLineFails \/ Trailer \/ AfterChunk
  PROVE  FramingInv' /\ ErrorInv' /\ PayloadInv'
<1>1. /\ hpc \in {"size", "trailer", "after"}
      /\ UNCHANGED <<request, sent, shut, part, block, delivered, hurried>>
      /\ UNCHANGED outcome \/ Returns
  BY DEF InLine, SizeLine, SizeLineFails, Trailer, AfterChunk, client, progress, result
<1>2. /\ request.chunked /\ ReadingChunks /\ text' = text /\ taken \in Nat
      /\ ~framingError /\ ~done
  <2>1. request.chunked /\ ~framingError /\ ~done
    BY <1>1, UnderwayHas DEF ReaderInv, NeedInv, StageInv
  <2> QED
    BY <1>1, <2>1, UnderwayHas, SoundKept
<1>3. /\ ChunksInv'
      /\ framingError' => stalled' \/ (shut' /\ taken' = sent' /\ ~EndsAt(sent)')
      /\ \/ taken' = taken
         \/ taken' = taken + 1 /\ text[taken + 1][1] # "byte"
  <2>1. CASE InLine
    <3>1. framingError' = framingError
      BY <2>1 DEF InLine, reader
    <3> QED
      BY <1>2, <2>1, <3>1, InLineGoes DEF ChunksInv
  <2>2. CASE SizeLine
    BY <1>2, <2>2, SizeLineGoes DEF ChunksInv
  <2>3. CASE SizeLineFails
    BY <1>2, <2>3, SizeLineFailsGoes DEF ChunksInv
  <2>4. CASE Trailer
    BY <1>2, <2>4, TrailerGoes
  <2>5. CASE AfterChunk
    BY <1>2, <2>5, AfterChunkGoes DEF ChunksInv
  <2> QED
    BY <2>1, <2>2, <2>3, <2>4, <2>5
<1>4. FramingInv'
  BY <1>1, <1>2, <1>3 DEF FramingInv
<1>5. ErrorInv'
  BY <1>3 DEF ErrorInv
<1>6. PayloadInv'
  <2>1. outcome = "none"
    BY <1>1, UnderwayHas DEF ReaderInv, StageInv
  <2>2. outcome' # "answered"
    BY <1>1, <2>1 DEF Returns
  <2>3. Count(text', taken') = Count(text, taken)
    BY <1>2, <1>3, NoByteTaken
  <2> QED
    BY <1>1, <2>1, <2>2, <2>3, PayloadKept, UnderwayHas
<1> QED
  BY <1>4, <1>5, <1>6

\* Before the next read, or when none comes.
LEMMA NextReadStep ==
  ASSUME Underway, NextRead
  PROVE  FramingInv' /\ ErrorInv' /\ PayloadInv'
<1>1. /\ hpc = "next"
      /\ UNCHANGED <<request, sent, shut, taken, chunkRemaining, remaining, framingError,
                     peerClosed, stalled, line, part, block, delivered, hurried>>
  BY DEF NextRead, client, progress
<1>2. /\ request.chunked => done' = done
      /\ done' = (done \/ (~Satisfied /\ ~request.chunked /\ remaining = 0))
  <2>1. done \in BOOLEAN
    BY UnderwayHas DEF HttpTypeOK, FlagTypes
  <2>2. done' = (done \/ (~Satisfied /\ ~request.chunked /\ remaining = 0))
    BY DEF NextRead
  <2> QED
    BY <2>1, <2>2
<1>3. \/ hpc' \in {"block", "end"} /\ outcome' \in {outcome, "malformed"}
      \/ /\ hpc' = IF request.chunked /\ chunkRemaining = 0 THEN "size" ELSE "data"
         /\ outcome' = outcome
  BY DEF NextRead, Returns
<1>4. text' = text
  BY <1>1, SoundKept
<1>5. ASSUME request.chunked PROVE ChunksInv'
  <2>1. done' = done
    BY <1>2, <1>5
  <2>2. \/ hpc' \in {"next", "data", "block", "end"}
        \/ hpc' = "size" /\ chunkRemaining = 0
    BY <1>3
  <2> QED
    BY <1>1, <1>5, <2>1, <2>2, ChunksQuiet, UnderwayHas
<1>6. ASSUME ~request.chunked PROVE PlainInv'
  <2>1. PlainInv /\ taken \in Nat /\ Len(text) \in Nat
    BY <1>6, UnderwayHas
  <2>2. CASE request.length = -1
    <3>1. remaining = -1 /\ ~(remaining = 0)
      BY <2>1, <2>2 DEF PlainInv
    <3>2. done' = done \/ (done' /\ ~done /\ remaining = 0)
      BY <1>2, UnderwayHas DEF HttpTypeOK, FlagTypes
    <3>3. done' = done
      BY <3>1, <3>2
    <3> QED
      BY <1>1, <2>1, <2>2, <3>1, <3>3 DEF PlainInv
  <2>3. CASE request.length # -1
    <3>1. /\ remaining = Len(text) - taken /\ (done => taken = Len(text))
          /\ taken = Len(text) /\ taken > 0 => done
      BY <2>1, <2>3 DEF PlainInv
    <3>2. done' <=> done \/ (~Satisfied /\ ~request.chunked /\ remaining = 0)
      BY <1>2
    <3>3. done' => taken = Len(text)
      <4>1. remaining = 0 => taken = Len(text)
        BY <2>1, <3>1
      <4> QED
        BY <3>1, <3>2, <4>1
    <3>4. taken = Len(text) /\ taken > 0 => done'
      BY <3>1, <3>2
    <3> QED
      BY <1>1, <1>4, <2>3, <3>1, <3>3, <3>4 DEF PlainInv
  <2> QED
    BY <2>2, <2>3
<1>7. ErrorInv'
  BY <1>1, ErrorQuiet, UnderwayHas
<1>8. PayloadInv'
  <2>1. outcome = "none"
    BY <1>1, UnderwayHas DEF ReaderInv, StageInv
  <2> QED
    BY <1>1, <1>3, <1>4, <2>1, PayloadKept, UnderwayHas
<1> QED
  BY <1>1, <1>5, <1>6, <1>7, <1>8 DEF FramingInv

\* Nothing comes where payload is due.
LEMMA DataFailsStep ==
  ASSUME Underway, DataFails
  PROVE  FramingInv' /\ ErrorInv' /\ PayloadInv'
<1>1. /\ hpc = "data" /\ hpc' \in {"block", "end"} /\ taken' = taken
      /\ UNCHANGED <<request, sent, shut, chunkRemaining, remaining, framingError, line, part,
                     block, delivered, hurried>>
      /\ outcome' \in {outcome, "malformed"}
      /\ done' = (~request.chunked /\ part # "head" /\ remaining < 0 /\ peerClosed')
      /\ stalled => stalled'
  BY DEF DataFails, Nothing, Returns, client, progress
<1>2. text' = text /\ ~framingError /\ ~done
  BY <1>1, SoundKept, UnderwayHas DEF ReaderInv, StageInv
<1>3. ASSUME request.chunked PROVE ChunksInv'
  <2>1. ~done'
    BY <1>1, <1>3
  <2>2. done' = done
    BY <1>1, <1>2, <1>3, UnderwayHas DEF HttpTypeOK, FlagTypes
  <2> QED
    BY <1>1, <1>3, <2>2, ChunksQuiet, UnderwayHas
<1>4. ASSUME ~request.chunked PROVE PlainInv'
  <2>1. PlainInv /\ taken \in Nat /\ Len(text) \in Nat /\ taken <= Len(text) /\ remaining # 0
    BY <1>1, <1>4, UnderwayHas DEF ReaderInv, NeedInv
  <2>2. CASE request.length = -1
    <3>1. remaining = -1
      BY <2>1, <2>2 DEF PlainInv
    <3>2. remaining < 0
      BY <3>1
    <3>3. done' <=> peerClosed' /\ part' # "head"
      BY <1>1, <1>4, <3>2
    <3> QED
      BY <1>1, <2>2, <3>1, <3>3 DEF PlainInv
  <2>3. CASE request.length # -1
    <3>1. remaining = Len(text) - taken
      BY <2>1, <2>3 DEF PlainInv
    <3>2. ~(remaining < 0) /\ taken # Len(text)
      BY <2>1, <3>1
    <3>3. ~done'
      BY <1>1, <3>2
    <3> QED
      BY <1>1, <1>2, <2>3, <3>1, <3>2, <3>3 DEF PlainInv
  <2> QED
    BY <2>2, <2>3
<1>5. ErrorInv'
  BY <1>1, <1>2 DEF ErrorInv
<1>6. PayloadInv'
  <2>1. outcome = "none"
    BY <1>1, UnderwayHas DEF ReaderInv, StageInv
  <2> QED
    BY <1>1, <1>2, <2>1, PayloadKept, UnderwayHas
<1> QED
  BY <1>1, <1>3, <1>4, <1>5, <1>6 DEF FramingInv

\* Payload that goes on where other payload ends.
LEMMA NumberedJoin ==
  ASSUME NEW a \in Seq(Tokens), NEW b \in Seq(Tokens), NEW m \in Nat,
         Numbered(a, m), Numbered(b, m + Len(a))
  PROVE  Numbered(a \o b, m) /\ Len(a \o b) = Len(a) + Len(b)
<1>1. /\ Len(a) \in Nat /\ Len(b) \in Nat /\ Len(a \o b) = Len(a) + Len(b)
      /\ \A i \in 1..Len(a) : (a \o b)[i] = a[i]
      /\ \A i \in 1..Len(b) : (a \o b)[Len(a) + i] = b[i]
  OBVIOUS
<1> SUFFICES ASSUME NEW i \in 1..(Len(a) + Len(b)) PROVE (a \o b)[i] = Byte(m + i)
  BY <1>1 DEF Numbered
<1>2. CASE i <= Len(a)
  BY <1>1, <1>2 DEF Numbered
<1>3. CASE i > Len(a)
  <2> DEFINE k == i - Len(a)
  <2>1. k \in 1..Len(b) /\ Len(a) + k = i /\ m + Len(a) + k = m + i
    BY <1>1, <1>3
  <2> HIDE DEF k
  <2>2. (a \o b)[Len(a) + k] = b[k]
    BY <1>1, <2>1
  <2>3. b[k] = Byte(m + Len(a) + k)
    BY <2>1 DEF Numbered
  <2> QED
    BY <2>1, <2>2, <2>3
<1> QED
  BY <1>1, <1>2, <1>3

\* Payload is read.
LEMMA DataStep ==
  ASSUME Underway, Data
  PROVE  FramingInv' /\ ErrorInv' /\ PayloadInv'
<1>1. /\ hpc = "data" /\ UNCHANGED <<client, framingError, part, outcome, delivered, hurried>>
      /\ done' = (remaining' = 0)
  BY DataGoes, UnderwayHas
<1>2. /\ text' = text /\ ~framingError /\ ~done /\ outcome = "none" /\ ~hurried
      /\ UNCHANGED <<request, sent, shut>>
  BY <1>1, TextKept, UnderwayHas DEF ReaderInv, StageInv, EndInv
<1>3. PICK n \in Nat :
        /\ n > 0 /\ n <= Wanted /\ taken + n <= sent /\ taken' = taken + n
        /\ block' = block \o SubSeq(text, taken + 1, taken + n)
        /\ SubSeq(text, taken + 1, taken + n) \in Seq(Tokens)
        /\ Len(SubSeq(text, taken + 1, taken + n)) = n
        /\ \A i \in 1..n : SubSeq(text, taken + 1, taken + n)[i] = text[taken + i]
        /\ remaining' = IF remaining > 0 THEN remaining - n ELSE remaining
  BY DataTakes, UnderwayHas
<1>4. /\ taken \in Nat /\ sent \in Nat /\ taken <= sent /\ sent <= Len(text)
      /\ Len(text) \in Nat /\ taken + n <= Len(text)
  BY <1>3, UnderwayHas
<1>5. \A k \in (taken + 1)..(taken + n) : text[k][1] = "byte"
  <2>1. CASE request.chunked
    BY <1>3, <2>1, DataGoesOn, UnderwayHas
  <2>2. CASE ~request.chunked
    <3>1. \A k \in (taken + 1)..(taken + n) : k \in DOMAIN text
      BY <1>4, UnderwayHas
    <3> QED
      BY <2>2, <3>1, UnderwayHas
  <2> QED
    BY <2>1, <2>2
<1>6. ASSUME request.chunked PROVE ChunksInv'
  BY <1>6, DataGoesOn, UnderwayHas DEF ChunksInv
<1>7. ASSUME ~request.chunked PROVE PlainInv'
  <2>1. PlainInv /\ remaining # 0 /\ ClosedInv
    BY <1>1, <1>7, UnderwayHas DEF ReaderInv, NeedInv
  <2>2. CASE request.length = -1
    <3>1. remaining = -1
      BY <2>1, <2>2 DEF PlainInv
    <3>2. remaining' = -1
      BY <1>3, <3>1
    <3>3. ~(remaining' = 0)
      BY <3>2
    <3>4. taken # sent
      BY <1>3, <1>4
    <3>5. ~peerClosed /\ peerClosed' = peerClosed
      BY <2>1, <3>4 DEF ClosedInv, Data, Takes
    <3> QED
      BY <1>1, <1>2, <2>2, <3>2, <3>3, <3>5 DEF PlainInv
  <2>3. CASE request.length # -1
    <3>1. remaining = Len(text) - taken
      BY <2>1, <2>3 DEF PlainInv
    <3>2. remaining > 0
      BY <1>4, <2>1, <3>1
    <3>3. remaining' = Len(text) - taken'
      BY <1>3, <1>4, <3>1, <3>2
    <3>4. remaining' = 0 <=> taken' = Len(text)
      BY <1>3, <1>4, <3>3
    <3> QED
      BY <1>1, <1>2, <2>3, <3>3, <3>4 DEF PlainInv
  <2> QED
    BY <2>2, <2>3
<1>8. PayloadInv'
  <2> DEFINE s == SubSeq(text, taken + 1, taken + n)
             got == Count(text, taken)
  <2>1. got \in Nat /\ Count(text', taken') = got + n
    BY <1>2, <1>3, <1>4, <1>5, CountBytes, PayloadIs
  <2>2. \A i \in 1..n : text[taken + i] = Byte(got + i)
    BY <1>3, <1>4, <1>5, BytesAreNumbered, UnderwayHas DEF HttpTypeOK
  <2>3. s \in Seq(Tokens) /\ Len(s) = n /\ block' = block \o s /\ Numbered(s, got)
    BY <1>3, <2>2 DEF Numbered
  <2>4. block \in Seq(Tokens) /\ Len(block) \in Nat /\ delivered \in Seq(Tokens)
        /\ Len(delivered) \in Nat
    BY UnderwayHas DEF HttpTypeOK, BlockTypes, ResultTypes
  <2> HIDE DEF s, got
  <2>5. ASSUME part = "head" PROVE Numbered(block', 0) /\ Len(block') = got + n
    <3>1. Numbered(block, 0) /\ Len(block) = got
      BY <1>2, <2>5, UnderwayHas DEF PayloadInv, got
    <3>2. 0 + Len(block) = got
      BY <2>4, <3>1
    <3>3. Numbered(block \o s, 0) /\ Len(block \o s) = Len(block) + Len(s)
      BY <2>3, <2>4, <3>1, <3>2, NumberedJoin
    <3> QED
      BY <2>3, <3>1, <3>3
  <2>6. ASSUME part = "document"
        PROVE  /\ Numbered(delivered, HeadSize)
               /\ Numbered(block', HeadSize + Len(delivered))
               /\ HeadSize + Len(delivered) + Len(block') = got + n
    <3>1. /\ Numbered(delivered, HeadSize) /\ Numbered(block, HeadSize + Len(delivered))
          /\ HeadSize + Len(delivered) + Len(block) = got
      BY <1>2, <2>6, UnderwayHas DEF PayloadInv, got
    <3>2. HeadSize + Len(delivered) \in Nat
      BY <2>4, HttpNumbers
    <3>3. /\ Numbered(block \o s, HeadSize + Len(delivered))
          /\ Len(block \o s) = Len(block) + Len(s)
      BY <2>3, <2>4, <3>1, <3>2, NumberedJoin
    <3>4. HeadSize + Len(delivered) + (Len(block) + n) = got + n
      BY <2>1, <2>4, <3>1, <3>2
    <3> QED
      BY <2>3, <3>1, <3>3, <3>4
  <2>7. part # "document" => delivered = <<>>
    BY UnderwayHas DEF PayloadInv
  <2>8. part = "document" => HeadSize + Len(delivered) + Len(block') <= got + n
    BY <2>1, <2>6
  <2> QED
    BY <1>1, <1>2, <2>1, <2>5, <2>6, <2>7, <2>8 DEF PayloadInv
<1> QED
  BY <1>1, <1>2, <1>6, <1>7, <1>8 DEF FramingInv, ErrorInv

\* What is done with what was read.
LEMMA UseStep ==
  ASSUME Underway, HeadIsRead \/ Drop \/ SendBlock \/ Verdict
  PROVE  FramingInv' /\ ErrorInv' /\ PayloadInv'
<1>1. /\ UNCHANGED <<request, sent, shut, taken, chunkRemaining, remaining, done, framingError,
                     peerClosed, stalled, line>>
      /\ hpc \in {"next", "block"} /\ hpc' \in {"next", "end"}
  BY DEF HeadIsRead, Drop, SendBlock, Verdict, client, reader, progress
<1>2. text' = text /\ outcome = "none" /\ ~hurried
  BY <1>1, SoundKept, UnderwayHas DEF ReaderInv, StageInv, EndInv
<1>3. ASSUME request.chunked PROVE ChunksInv'
  BY <1>1, <1>3, ChunksQuiet, UnderwayHas
<1>4. ASSUME ~request.chunked PROVE PlainInv'
  <2>1. peerClosed => (part' # "head" <=> part # "head")
    <3>1. peerClosed => part # "head"
      BY <1>1, UnderwayHas DEF ReaderInv, ClosedInv
    <3>2. part # "head" => part' = part
      BY DEF HeadIsRead, Drop, SendBlock, Verdict, progress
    <3> QED
      BY <3>1, <3>2
  <2>2. PlainInv
    BY <1>4, UnderwayHas
  <2> QED
    BY <1>1, <1>2, <2>1, <2>2 DEF PlainInv
<1>5. ErrorInv'
  BY <1>1, ErrorQuiet, UnderwayHas
<1>6. PayloadInv'
  <2> DEFINE got == Count(text, taken)
  <2>1. got \in Nat /\ Count(text', taken') = got /\ Len(<<>>) = 0 /\ <<>> \in Seq(Tokens)
        /\ \A k : Numbered(<<>>, k)
    BY <1>1, <1>2, PayloadIs, UnderwayHas DEF Numbered
  <2>2. block \in Seq(Tokens) /\ Len(block) \in Nat /\ delivered \in Seq(Tokens)
        /\ Len(delivered) \in Nat /\ PayloadInv
    BY UnderwayHas DEF HttpTypeOK, BlockTypes, ResultTypes
  <2> HIDE DEF got
  <2>3. CASE HeadIsRead
    <3>1. /\ part = "head" /\ Room = 0 /\ block' = <<>> /\ delivered' = delivered
          /\ part' \in {"head", "document", "rest"} /\ (part' = "head" => outcome' = "answered")
      BY <2>3 DEF HeadIsRead
    <3>2. Len(block) = got /\ delivered = <<>>
      BY <1>2, <2>2, <3>1 DEF PayloadInv, got
    <3>3. got = HeadSize
      BY <2>2, <3>1, <3>2, HttpNumbers DEF Room
    <3>4. HeadSize + 0 + 0 = HeadSize /\ HeadSize <= HeadSize
      BY HttpNumbers
    <3> QED
      BY <2>1, <3>1, <3>2, <3>3, <3>4 DEF PayloadInv
  <2>4. CASE Drop
    BY <2>2, <2>4 DEF Drop, PayloadInv
  <2>5. CASE Verdict
    BY <1>2, <2>1, <2>2, <2>5 DEF Verdict, PayloadInv, got, progress
  <2>6. CASE SendBlock
    <3>1. /\ part = "document" /\ part' = part /\ block' = <<>>
          /\ \/ delivered' = delivered \o block
             \/ delivered' = delivered /\ hurried'
      BY <2>6 DEF SendBlock
    <3>2. /\ Numbered(delivered, HeadSize) /\ Numbered(block, HeadSize + Len(delivered))
          /\ HeadSize + Len(delivered) + Len(block) = got
      BY <1>2, <2>2, <3>1 DEF PayloadInv, got
    <3>3. /\ Numbered(delivered \o block, HeadSize)
          /\ Len(delivered \o block) = Len(delivered) + Len(block)
      BY <2>2, <3>2, HttpNumbers, NumberedJoin
    <3>4. CASE delivered' = delivered \o block
      <4>1. HeadSize + Len(delivered') + 0 = got /\ got <= got
        BY <2>1, <2>2, <3>2, <3>3, <3>4, HttpNumbers
      <4> QED
        BY <2>1, <3>1, <3>3, <3>4, <4>1 DEF PayloadInv
    <3>5. CASE delivered' = delivered /\ hurried'
      <4>1. HeadSize + Len(delivered) + 0 <= got
        BY <2>1, <2>2, <3>2, HttpNumbers
      <4> QED
        BY <2>1, <3>1, <3>2, <3>5, <4>1 DEF PayloadInv
    <3> QED
      BY <3>1, <3>4, <3>5
  <2> QED
    BY <2>3, <2>4, <2>5, <2>6
<1> QED
  BY <1>1, <1>3, <1>4, <1>5, <1>6 DEF FramingInv

\* Every step keeps what is said of a sound request.
LEMMA SoundInvStep ==
  ASSUME HttpInv, HttpNext, HttpTypeOK'
  PROVE  SoundInv'
<1> SUFFICES ASSUME Sound' PROVE FramingInv' /\ ErrorInv' /\ PayloadInv'
  BY DEF SoundInv
<1>1. CASE Ask
  BY <1>1, AskStep DEF HttpInv
<1>2. CASE Write \/ Close \/ HttpService
  <2>1. UNCHANGED request /\ hpc # "off"
    BY <1>2 DEF Write, Close, Serving, HttpService, ReadStep, HeadIsRead, NextRead, InLine,
       SizeLine, SizeLineFails, Trailer, Data, DataFails, AfterChunk, Drop, SendBlock, Verdict,
       client
  <2>2. Underway
    BY <2>1, SoundKept DEF HttpInv, SoundInv, Underway
  <2> QED
    BY <1>2, <2>2, ClientStep, LinesStep, NextReadStep, DataFailsStep, DataStep, UseStep
       DEF HttpService, ReadStep
<1> QED
  BY <1>1, <1>2 DEF HttpNext

\* Every step keeps the invariant.
LEMMA HttpInvStep ==
  ASSUME HttpInv, HttpNext
  PROVE  HttpInv'
  BY PlainStep, EndInvStep, SoundInvStep DEF HttpInv

-----------------------------------------------------------------------------
(***************************************************************************)
(* What the invariant says                                                 *)
(***************************************************************************)
\* No request has been read.
LEMMA HttpInvInit == HttpInit => HttpInv
<1> SUFFICES ASSUME HttpInit PROVE HttpInv
  OBVIOUS
<1>1. HttpTypeOK /\ OffInv /\ ReaderInv
  BY HttpInitTypes
<1>2. EndInv
  BY DEF HttpInit, EndInv
<1>3. PayloadInv
  <2>1. Count(text, 0) = 0
    BY CountNothing
  <2>2. Len(<<>>) = 0 /\ Numbered(<<>>, 0)
    BY DEF Numbered
  <2>3. taken = 0 /\ part = "head" /\ block = <<>> /\ delivered = <<>> /\ outcome = "none"
    BY DEF HttpInit
  <2> QED
    BY <2>1, <2>2, <2>3 DEF PayloadInv
<1>4. FramingInv /\ ErrorInv
  BY DEF HttpInit, FramingInv, ErrorInv
<1> QED
  BY <1>1, <1>2, <1>3, <1>4 DEF HttpInv, SoundInv

LEMMA DocumentIs ==
  ASSUME NEW k \in Nat
  PROVE  /\ Count(text, k) \in Nat
         /\ Count(text, k) <= HeadSize => Document(k) = <<>>
         /\ \A d \in Seq(Tokens) :
              Numbered(d, HeadSize) /\ HeadSize + Len(d) = Count(text, k) => d = Document(k)
<1> DEFINE n == Count(text, k) - HeadSize
<1>1. Count(text, k) \in Nat /\ HeadSize \in Nat
  BY PayloadIs, HttpNumbers
<1>2. Document(k) = [i \in 1..(IF n > 0 THEN n ELSE 0) |-> Byte(HeadSize + i)]
  BY DEF Document, text
<1>3. ASSUME Count(text, k) <= HeadSize PROVE Document(k) = <<>>
  <2>1. (IF n > 0 THEN n ELSE 0) = 0
    BY <1>1, <1>3
  <2> HIDE DEF n
  <2>2. Document(k) = [i \in 1..0 |-> Byte(HeadSize + i)]
    BY <1>2, <2>1
  <2> QED
    BY <2>2
<1>4. ASSUME NEW d \in Seq(Tokens), Numbered(d, HeadSize), HeadSize + Len(d) = Count(text, k)
      PROVE  d = Document(k)
  <2>1. Len(d) \in Nat /\ DOMAIN d = 1..Len(d)
    OBVIOUS
  <2>2. (IF n > 0 THEN n ELSE 0) = Len(d)
    BY <1>1, <1>4, <2>1
  <2> HIDE DEF n
  <2>3. Document(k) = [i \in 1..Len(d) |-> Byte(HeadSize + i)]
    BY <1>2, <2>2
  <2>4. d = [i \in 1..Len(d) |-> d[i]]
    OBVIOUS
  <2>5. \A i \in 1..Len(d) : d[i] = Byte(HeadSize + i)
    BY <1>4 DEF Numbered
  <2> QED
    BY <2>3, <2>4, <2>5
<1> QED
  BY <1>1, <1>3, <1>4

\* What reaches the printer.
LEMMA InvIsPayload == HttpInv => DeliveredIsPayload
<1> SUFFICES ASSUME HttpInv, Sound PROVE IsPrefix(delivered, Document(Len(text)))
  BY DEF DeliveredIsPayload, text
<1>1. PayloadInv /\ HttpTypeOK
  BY DEF HttpInv, SoundInv
<1>2. /\ taken \in Nat /\ sent \in Nat /\ taken <= Len(text) /\ Len(text) \in Nat
      /\ delivered \in Seq(Tokens) /\ Len(delivered) \in Nat /\ Len(block) \in Nat
  BY <1>1, RequestIs DEF HttpTypeOK, ClientTypes, ReaderTypes, BlockTypes, ResultTypes
<1> DEFINE all == Count(text, Len(text))
           n == IF all - HeadSize > 0 THEN all - HeadSize ELSE 0
           d == Document(Len(text))
<1>3. all \in Nat /\ Count(text, taken) \in Nat /\ Count(text, taken) <= all
  BY <1>2, PayloadIs, CountGrows
<1>4. n \in Nat
  BY <1>3, HttpNumbers
<1>5. d = [i \in 1..n |-> Byte(HeadSize + i)]
  BY DEF Document, text
<1>6. Numbered(delivered, HeadSize) /\ Len(delivered) <= n
  <2>1. CASE part = "document"
    <3>1. /\ Numbered(delivered, HeadSize)
          /\ HeadSize + Len(delivered) + Len(block) <= Count(text, taken)
      BY <1>1, <2>1 DEF PayloadInv
    <3> QED
      BY <1>2, <1>3, <3>1, HttpNumbers
  <2>2. CASE part # "document"
    <3>1. delivered = <<>> /\ Len(<<>>) = 0
      BY <1>1, <2>2 DEF PayloadInv
    <3> QED
      BY <1>4, <3>1 DEF Numbered
  <2> QED
    BY <2>1, <2>2
<1> HIDE DEF n
<1>7. Len(d) = n /\ d \in Seq({Byte(HeadSize + i) : i \in 1..n})
  BY <1>4, <1>5
<1> HIDE DEF d, all
<1>8. SubSeq(delivered, 1, Len(delivered)) = SubSeq(d, 1, Len(delivered))
  <2> DEFINE a == SubSeq(delivered, 1, Len(delivered))
             b == SubSeq(d, 1, Len(delivered))
             S == Tokens \cup {Byte(HeadSize + i) : i \in 1..n}
  <2>1. delivered \in Seq(S) /\ d \in Seq(S)
    BY <1>2, <1>7
  <2>2. /\ a = [i \in 1..Len(delivered) |-> delivered[i]]
        /\ b = [i \in 1..Len(delivered) |-> d[i]]
    BY <1>2, <1>4, <1>6, <1>7
  <2>3. \A i \in 1..Len(delivered) : delivered[i] = d[i]
    BY <1>2, <1>4, <1>5, <1>6 DEF Numbered
  <2> QED
    BY <2>2, <2>3
<1> QED
  BY <1>6, <1>7, <1>8 DEF IsPrefix, d

\* A request under way or at its end.
LEMMA IsUnderway ==
  ASSUME HttpInv, Sound, outcome # "none"
  PROVE  Underway /\ hpc = "end"
<1>1. hpc = "end"
  BY DEF HttpInv, ReaderInv, StageInv
<1> QED
  BY <1>1 DEF HttpInv, SoundInv, Underway

\* When no more is expected, all the payload that the client has written is read.
LEMMA AllRead ==
  ASSUME Underway, done
  PROVE  /\ Count(text, sent) = Count(text, taken)
         /\ request.chunked => EndsLast(text, sent) /\ (taken = sent \/ stalled \/ shut)
         /\ ~request.chunked =>
              \/ request.length = -1 /\ peerClosed /\ taken = sent /\ shut
              \/ taken = sent /\ sent = Len(text)
<1>1. /\ text \in Seq(Tokens) /\ taken \in Nat /\ sent \in Nat /\ taken <= sent
      /\ sent <= Len(text) /\ Len(text) \in Nat
  BY UnderwayHas
<1>2. CASE request.chunked
  <2>1. LastRead(text, taken) /\ (taken = Len(text) \/ stalled \/ shut) /\ InChunks(text)
    BY <1>2, UnderwayHas DEF ReadingChunks, ChunksInv
  <2>2. Count(text, sent) = Count(text, taken) /\ EndsLast(text, sent)
    BY <1>1, <2>1, NoPayloadAfterLast
  <2>3. taken = Len(text) => taken = sent
    BY <1>1
  <2> QED
    BY <1>2, <2>1, <2>2, <2>3
<1>3. CASE ~request.chunked
  <2>1. PlainInv /\ ClosedInv
    BY <1>3, UnderwayHas DEF ReaderInv
  <2>2. CASE request.length = -1
    BY <1>3, <2>1, <2>2 DEF PlainInv, ClosedInv
  <2>3. CASE request.length # -1
    <3>1. taken = Len(text)
      BY <2>1, <2>3 DEF PlainInv
    <3>2. taken = sent /\ sent = Len(text)
      BY <1>1, <3>1
    <3> QED
      BY <1>3, <3>2
  <2> QED
    BY <2>2, <2>3
<1> QED
  BY <1>2, <1>3

\* Why a document is refused.
LEMMA InvHasACause == HttpInv => RefusedHasACause
<1> SUFFICES ASSUME HttpInv, outcome \in {"malformed", "refused"}, Sound, ~stalled, ~hurried
             PROVE  ~EndsAt(sent)
  BY DEF RefusedHasACause
<1>1. Underway /\ hpc = "end"
  BY IsUnderway
<1>2. /\ HttpTypeOK /\ EndInv /\ ErrorInv /\ PayloadInv /\ ClosedInv
      /\ text \in Seq(Tokens) /\ text = request.tokens
      /\ taken \in Nat /\ sent \in Nat /\ Len(text) \in Nat /\ sent <= Len(text)
      /\ Count(text, taken) \in Nat /\ chunkRemaining \in Nat
  BY <1>1, UnderwayHas, PayloadIs DEF ReaderInv, HttpTypeOK, ReaderTypes
<1>3. Stopped /\ (done \/ framingError \/ peerClosed)
  BY <1>2 DEF EndInv, Stopped
<1>4. CASE framingError
  BY <1>2, <1>4 DEF ErrorInv
<1>5. ASSUME Count(text, sent) <= HeadSize PROVE ~EndsAt(sent)
  BY <1>2, <1>5, DocumentIs DEF EndsAt
<1>6. ASSUME done \/ peerClosed PROVE Count(text, sent) = Count(text, taken)
  BY <1>1, <1>2, <1>6, AllRead DEF ClosedInv
<1>7. CASE outcome = "malformed" /\ ~framingError
  <2>1. part = "head" /\ Len(block) = Count(text, taken) /\ Len(block) <= HeadSize
    BY <1>2, <1>7 DEF EndInv, PayloadInv, HttpTypeOK, BlockTypes
  <2> QED
    BY <1>2, <1>3, <1>5, <1>6, <1>7, <2>1
<1>8. CASE outcome = "refused" /\ ~framingError
  <2>1. /\ part = "document" /\ block = <<>>
        /\ ~((done \/ (peerClosed /\ atChunkBoundary)) /\ delivered # <<>>)
    BY <1>2, <1>8 DEF EndInv
  <2>2. CASE delivered = <<>>
    <3>1. HeadSize + Len(delivered) + Len(block) = Count(text, taken) /\ Len(<<>>) = 0
      BY <1>2, <2>1 DEF PayloadInv
    <3>2. Count(text, taken) = HeadSize
      BY <1>2, <2>1, <2>2, <3>1, HttpNumbers
    <3> QED
      BY <1>2, <1>3, <1>5, <1>6, <1>8, <3>2
  <2>3. CASE ~done /\ peerClosed /\ ~atChunkBoundary
    <3>1. taken = sent
      BY <1>2, <2>3 DEF ClosedInv
    <3>2. CASE request.chunked
      <4>1. chunkRemaining > 0
        BY <1>2, <1>8, <2>3, <3>2 DEF atChunkBoundary
      <4>2. InChunk(text, taken, chunkRemaining) /\ InChunks(text)
        BY <1>1, <1>8, <2>3, <3>2, <4>1, UnderwayHas DEF ReadingChunks, ChunksInv, Place
      <4>3. sent # Len(text) /\ ~EndsChunk(text, sent) /\ ~EndsLast(text, sent)
        BY <1>2, <3>1, <4>1, <4>2, NotEnded
      <4> QED
        BY <1>2, <3>2, <4>3, NotEndedAt
    <3>3. CASE ~request.chunked
      <4>1. PlainInv
        BY <1>1, <3>3, UnderwayHas
      <4>2. request.length # -1
        BY <2>1, <2>3, <4>1 DEF PlainInv
      <4>3. ~(taken = Len(text) /\ taken > 0)
        BY <2>3, <4>1, <4>2 DEF PlainInv
      <4>4. CASE taken = 0
        <5>1. Count(text, sent) = 0
          BY <3>1, <4>4, CountNothing
        <5> QED
          BY <1>5, <5>1, HttpNumbers
      <4>5. CASE sent # Len(text)
        BY <1>2, <3>3, <4>2, <4>5 DEF EndsAt
      <4> QED
        BY <1>2, <3>1, <4>3, <4>4, <4>5
    <3> QED
      BY <3>2, <3>3
  <2> QED
    BY <1>3, <1>8, <2>1, <2>2, <2>3
<1> QED
  BY <1>4, <1>7, <1>8

\* What an accepted document is.
LEMMA InvIsWhole == HttpInv => (Sound => AcceptedIsWhole)
<1> SUFFICES ASSUME HttpInv, outcome = "accepted", Sound
             PROVE  delivered = Document(sent) /\ EndsAt(sent)
  BY DEF AcceptedIsWhole
<1>1. Underway /\ hpc = "end"
  BY IsUnderway
<1>2. /\ HttpTypeOK /\ EndInv /\ PayloadInv /\ ClosedInv
      /\ text \in Seq(Tokens) /\ text = request.tokens
      /\ taken \in Nat /\ sent \in Nat /\ Len(text) \in Nat /\ sent <= Len(text)
      /\ Count(text, taken) \in Nat /\ chunkRemaining \in Nat
      /\ delivered \in Seq(Tokens) /\ Len(delivered) \in Nat
  BY <1>1, UnderwayHas, PayloadIs DEF ReaderInv, HttpTypeOK, ReaderTypes, ResultTypes
<1>3. /\ part = "document" /\ block = <<>> /\ ~hurried /\ ~framingError /\ delivered # <<>>
      /\ done \/ (peerClosed /\ atChunkBoundary)
  BY <1>2 DEF EndInv
<1>4. /\ Numbered(delivered, HeadSize)
      /\ HeadSize + Len(delivered) + Len(block) = Count(text, taken) /\ Len(<<>>) = 0
  BY <1>2, <1>3 DEF PayloadInv
<1>5. Count(text, sent) = Count(text, taken)
  BY <1>1, <1>2, <1>3, AllRead DEF ClosedInv
<1>6. delivered = Document(sent)
  <2>1. HeadSize + Len(delivered) = Count(text, sent)
    BY <1>2, <1>3, <1>4, <1>5, HttpNumbers
  <2> QED
    BY <1>2, <1>4, <2>1, DocumentIs
<1>7. \/ sent = Len(text)
      \/ ~request.chunked /\ request.length = -1
      \/ request.chunked /\ (EndsChunk(text, sent) \/ EndsLast(text, sent))
  <2>1. CASE done
    BY <1>1, <2>1, AllRead
  <2>2. CASE ~done /\ peerClosed /\ atChunkBoundary
    <3>1. request.chunked /\ chunkRemaining = 0 /\ taken = sent
      BY <1>2, <2>2 DEF atChunkBoundary, ClosedInv
    <3>2. Boundary(text, taken)
      BY <1>1, <1>3, <2>2, <3>1, UnderwayHas DEF ReadingChunks, ChunksInv, Place
    <3>3. taken # 0
      <4>1. Count(text, taken) # 0
        BY <1>2, <1>4, HttpNumbers
      <4> QED
        BY <4>1, CountNothing
    <3> QED
      BY <3>1, <3>2, <3>3 DEF Boundary
  <2> QED
    BY <1>3, <2>1, <2>2
<1> QED
  BY <1>2, <1>3, <1>6, <1>7 DEF EndsAt

\* What was read of a request that is answered.
LEMMA InvIsRead == HttpInv => AnsweredIsRead
<1> SUFFICES ASSUME HttpInv, outcome = "answered", Sound, ~stalled, ~hurried, ~shut
             PROVE  taken = sent
  BY DEF AnsweredIsRead
<1>1. Underway /\ hpc = "end"
  BY IsUnderway
<1>2. /\ HttpTypeOK /\ EndInv /\ ErrorInv /\ PayloadInv /\ ClosedInv
      /\ text \in Seq(Tokens) /\ text = request.tokens
      /\ taken \in Nat /\ sent \in Nat /\ Len(text) \in Nat
      /\ sent <= Len(text) /\ taken <= sent
  BY <1>1, UnderwayHas DEF ReaderInv
<1>3. CASE part = "rest" /\ Stopped
  <2>1. done
    BY <1>2, <1>3 DEF Stopped, ErrorInv, ClosedInv
  <2> QED
    BY <1>1, <2>1, AllRead
<1>4. CASE part = "head" /\ ~request.chunked /\ ~request.document /\ remaining <= 0
  <2>1. PlainInv
    BY <1>1, <1>4, UnderwayHas
  <2>2. CASE request.length = -1
    <3>1. Len(text) <= HeadSize /\ \A k \in DOMAIN text : text[k][1] = "byte"
      BY <1>1, <1>4, <2>2, UnderwayHas
    <3>2. Count(text, taken) = HeadSize
      BY <1>2, <1>4 DEF PayloadInv
    <3>3. Count(text, 0 + taken) = Count(text, 0) + taken
      <4>1. \A k \in (0 + 1)..(0 + taken) : text[k][1] = "byte"
        BY <1>2, <3>1
      <4> QED
        BY <1>2, <4>1, CountBytes
    <3>4. taken = HeadSize
      BY <1>2, <3>2, <3>3, CountNothing
    <3> QED
      BY <1>2, <3>1, <3>4, HttpNumbers
  <2>3. CASE request.length # -1
    <3>1. remaining = Len(text) - taken
      BY <2>1, <2>3 DEF PlainInv
    <3> QED
      BY <1>2, <1>4, <3>1
  <2> QED
    BY <2>2, <2>3
<1> QED
  BY <1>2, <1>3, <1>4 DEF EndInv

-----------------------------------------------------------------------------
(***************************************************************************)
(* The theorems                                                            *)
(***************************************************************************)
\* The other reader's steps leave all of it alone.
LEMMA HttpUnchanged ==
  ASSUME HttpInv, UNCHANGED httpVars
  PROVE  HttpInv'
<1>1. /\ UNCHANGED <<request, sent, shut, taken, chunkRemaining, remaining, done, framingError>>
      /\ UNCHANGED <<peerClosed, stalled, line, part, block, hpc, delivered, outcome, hurried>>
  BY DEF httpVars, client, reader, progress, result
<1>2. text' = text /\ Room' = Room /\ (Sound' <=> Sound) /\ (EndsAt(sent)' <=> EndsAt(sent))
  BY <1>1, SoundKept, RoomKept, EndsKept
<1>3. HttpTypeOK' /\ OffInv'
  BY <1>1 DEF HttpInv, HttpTypeOK, ClientTypes, ReaderTypes, FlagTypes, BlockTypes, ResultTypes,
     OffInv
<1>4. ReaderInv'
  BY <1>1, <1>2 DEF HttpInv, ReaderInv, StageInv, NeedInv, ClosedInv
<1>5. EndInv'
  BY <1>1 DEF HttpInv, EndInv, Stopped, atChunkBoundary
<1>6. ASSUME Sound PROVE FramingInv'
  BY <1>1, <1>2, <1>6 DEF HttpInv, SoundInv, FramingInv, ChunksInv, Place, PlainInv
<1>7. ASSUME Sound PROVE ErrorInv' /\ PayloadInv'
  BY <1>1, <1>2, <1>7 DEF HttpInv, SoundInv, ErrorInv, PayloadInv
<1> QED
  BY <1>2, <1>3, <1>4, <1>5, <1>6, <1>7 DEF HttpInv, SoundInv

\* One of the two readers moves, and the other is off.
LEMMA BothStep ==
  ASSUME HttpInv, [Next]_vars
  PROVE  HttpInv'
<1>1. CASE HttpNext
  BY <1>1, HttpInvStep
<1>2. CASE UNCHANGED httpVars
  BY <1>2, HttpUnchanged
<1> QED
  BY <1>1, <1>2 DEF Next, vars

LEMMA InvHolds == Spec => []HttpInv
<1>1. Init => HttpInv
  BY HttpInvInit DEF Init
<1>2. HttpInv /\ [Next]_vars => HttpInv'
  BY BothStep
<1> QED
  BY <1>1, <1>2, PTL DEF Spec

\* A RAW connection's steps are those of its own specification.
LEMMA RawSteps == [Next]_vars => [RawInputNext]_rawInputVars
  BY DEF Next, vars, rawInputVars

RawOutside ==
  /\ input \in Inputs \cup {<<>>} /\ peer \in {"open", "fin", "reset"}
  /\ rpc \in {"off", "read", "scan", "drain", "flush", "close"}

LEMMA RawOutsideStep ==
  ASSUME RawOutside, [RawInputNext]_rawInputVars
  PROVE  RawOutside'
  BY DEF RawOutside, RawInputNext, RawInputServer, Sends, Ends, Accept, ReadSocket, Scan,
     EndOfRead, SendPiece, Abort, Finish, NextPoll, CloseTransport, Over, rawInputVars,
     connection

LEMMA RawTypes ==
  ASSUME RawOutside, DetectorInv, RingInv
  PROVE  RawInputTypeOK
<1>1. Counts
  BY DEF DetectorInv
<1>2. /\ received \in 0..Len(input) /\ scanned \in 0..received
      /\ arrived \in received..Len(input)
  BY <1>1 DEF Counts
<1> QED
  BY <1>1, <1>2 DEF RawOutside, Counts, RingInv, Cells, Contents, RawInputTypeOK

\* Every variable of both readers keeps its type: no line and no block outgrows its
\* buffer, and the RAW ring's positions stay in it.
THEOREM NetworkInputTypes == Spec => []TypeOK
<1>1. Init => DetectorInv /\ RingInv /\ RawOutside
  BY DetectorInit, RingInit DEF Init, RawInputInit, RawOutside
<1>2. DetectorInv /\ RingInv /\ RawOutside /\ [Next]_vars
        => DetectorInv' /\ RingInv' /\ RawOutside'
  BY RawSteps, DetectorStep, RingStep, RawOutsideStep
<1>3. DetectorInv /\ RingInv /\ RawOutside => RawInputTypeOK
  BY RawTypes
<1>4. HttpInv => HttpTypeOK
  BY DEF HttpInv
<1>5. HttpTypeOK /\ RawInputTypeOK => TypeOK
  BY DEF TypeOK
<1> QED
  BY <1>1, <1>2, <1>3, <1>4, <1>5, InvHolds, PTL DEF Spec

\* What reaches the printer of a document in sound framing is its payload from the
\* first byte on, without a gap and without a byte of the framing, wherever the client
\* cuts its writes and whatever the sizes of the chunks, the head and the blocks.
THEOREM OnlyPayloadIsDelivered == Spec => []DeliveredIsPayload
  BY InvHolds, InvIsPayload, PTL

\* A document in sound framing that is accepted was delivered to the last byte that
\* its client wrote, and the client had ended it there: no connection that breaks off
\* within a chunk, or short of the announced length, passes for a whole document.
THEOREM AcceptedDocumentsAreWhole == Spec => [](Sound => AcceptedIsWhole)
  BY InvHolds, InvIsWhole, PTL

\* A document in sound framing that its client has ended is refused only if the client
\* fell silent, the printer failed or the time for it was up.
THEOREM RefusalHasACause == Spec => []RefusedHasACause
  BY InvHolds, InvHasACause, PTL

\* A request without a document is answered when everything its client wrote has been
\* read, unless the client fell silent or closed or the two seconds were up.
THEOREM AnsweredRequestIsRead == Spec => []AnsweredIsRead
  BY InvHolds, InvIsRead, PTL
=============================================================================
