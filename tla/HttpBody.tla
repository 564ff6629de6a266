------------------------------ MODULE HttpBody ------------------------------
(***************************************************************************)
(* How the body of a request is read (BodyReader of ipp_pcl3_service.cpp)  *)
(* and when a document counts as complete: handleClient() reads the head,  *)
(* which is the IPP header and attributes, byte by byte, and what follows  *)
(* it in blocks, which a document operation sends to the printer.          *)
(*                                                                         *)
(* The client writes its body piece by piece and may fall silent or close  *)
(* the connection anywhere; every read of the service meets what has come  *)
(* so far.  A token stands for the bytes that the reader tells apart: the  *)
(* digits of a chunk size, the text after them, CR, LF, a byte of payload. *)
(***************************************************************************)
EXTENDS Integers, Sequences, SequencesExt, FiniteSetsExt

CONSTANTS
  Requests,  \* bound: the requests that clients make, as [chunked, length, tokens,
             \* document]: Content-Length, or -1; whether it is a document operation
  HeadSize,  \* bound: payload bytes of the IPP header and attributes
  Capacity,  \* BODY_BUFFER, and the size of the scratch buffer
  MaxLine    \* the longest size line, 128 bytes

Size(n) == <<"size", n>>
Byte(i) == <<"byte", i>>
CR      == <<"cr", 0>>
LF      == <<"lf", 0>>
Ext     == <<"ext", 0>>   \* ";" and what follows it on a size line
Text    == <<"text", 0>>  \* anything else
Tokens  == ({"size", "byte"} \X Nat) \cup {CR, LF, Ext, Text}

\* The number of bytes of payload among the first k tokens.
Count(tokens, k) == Cardinality({i \in 1..k : tokens[i][1] = "byte"})

\* The bytes of payload are called by their numbers.
ASSUME HttpAssumption ==
  /\ HeadSize \in Nat \ {0} /\ Capacity \in Nat \ {0} /\ MaxLine \in Nat \ {0}
  /\ Requests \subseteq [chunked : BOOLEAN, length : Nat \cup {-1}, tokens : Seq(Tokens),
                         document : BOOLEAN]
  /\ \A r \in Requests : \A k \in DOMAIN r.tokens :
       r.tokens[k][1] = "byte" => r.tokens[k] = Byte(Count(r.tokens, k))

VARIABLES
  request,         \* what the client has to say
  sent, shut,      \* tokens of it written; the connection closed by the client
  taken,           \* tokens read
  chunkRemaining, remaining, done, framingError, peerClosed,  \* BodyReader
  line,            \* what rawLine() has of a line, or the byte after a chunk
  part,            \* what is read: the "head", a "document", or the "rest"
  block,           \* what the read under way has gathered
  hpc,             \* the next step of the reader
  delivered,       \* bytes of the document that sendDirect() took
  outcome,         \* of the request, "none" until it has one
  stalled, hurried \* a read timed out; the printer or the clock ended the request

client   == <<request, sent, shut>>
reader   == <<chunkRemaining, remaining, done, framingError>>
progress == <<line, part, block>>
result   == <<delivered, outcome, hurried>>
httpVars == <<client, taken, reader, peerClosed, stalled, progress, hpc, result>>

NoRequest ==
  [chunked |-> FALSE, length |-> -1, tokens |-> <<>>, document |-> FALSE]

HttpInit ==
  /\ request = NoRequest /\ sent = 0 /\ shut = FALSE /\ taken = 0
  /\ chunkRemaining = 0 /\ remaining = -1 /\ done = FALSE
  /\ framingError = FALSE /\ peerClosed = FALSE
  /\ line = <<>> /\ part = "head" /\ block = <<>> /\ hpc = "off"
  /\ delivered = <<>> /\ outcome = "none" /\ stalled = FALSE /\ hurried = FALSE

-----------------------------------------------------------------------------
(***************************************************************************)
(* The client                                                              *)
(***************************************************************************)

\* The header of the request has been read, and its body is expected.
Ask ==
  /\ hpc = "off" /\ hpc' = "next"
  /\ request' \in Requests
  /\ remaining' = IF request'.chunked THEN -1 ELSE request'.length
  /\ UNCHANGED <<sent, shut, taken, chunkRemaining, done, framingError, peerClosed, stalled,
                 progress, result>>

Serving == hpc \notin {"off", "end"}

Write ==
  /\ Serving /\ ~shut
  /\ sent' \in sent + 1 .. Len(request.tokens)
  /\ UNCHANGED <<request, shut, taken, reader, peerClosed, stalled, progress, hpc, result>>

Close ==
  /\ Serving /\ ~shut
  /\ shut' = TRUE
  /\ UNCHANGED <<request, sent, taken, reader, peerClosed, stalled, progress, hpc, result>>

-----------------------------------------------------------------------------
(***************************************************************************)
(* Reading                                                                 *)
(***************************************************************************)

\* readClientByte(), readClientBlock(): n tokens are there and are taken.
Takes(n) == taken + n <= sent /\ taken' = taken + n /\ UNCHANGED <<peerClosed, stalled>>

\* Nothing comes: the client has closed, or it stays silent until the timeout.
Nothing ==
  /\ taken = sent
  /\ peerClosed' = shut /\ stalled' = (stalled \/ ~shut)
  /\ UNCHANGED taken

Token == request.tokens[taken + 1]

\* The read under way ends: a block with what it has, the head as a failure.
Returns ==
  IF part = "head" THEN hpc' = "end" /\ outcome' = "malformed"
  ELSE hpc' = "block" /\ UNCHANGED outcome

Room == (IF part = "head" THEN HeadSize ELSE Capacity) - Len(block)

\* The head is there.  What follows it is read if it is a document, and drained if
\* the request says that it has more.
HeadIsRead ==
  /\ hpc = "next" /\ part = "head" /\ Room = 0
  /\ block' = <<>>
  /\ IF request.document \/ request.chunked \/ remaining > 0
     THEN /\ hpc' = "next" /\ part' = (IF request.document THEN "document" ELSE "rest")
          /\ UNCHANGED outcome
     ELSE hpc' = "end" /\ outcome' = "answered" /\ UNCHANGED part
  /\ UNCHANGED <<client, taken, reader, peerClosed, stalled, line, delivered, hurried>>

\* Without chunks, a block is what one read returns.
Satisfied == Room = 0 \/ (~request.chunked /\ part # "head" /\ block # <<>>)

\* readByte() and readBlock() before a byte of payload.
NextRead ==
  /\ hpc = "next" /\ ~(part = "head" /\ Room = 0)
  /\ done' = (done \/ (~Satisfied /\ ~request.chunked /\ remaining = 0))
  /\ IF Satisfied \/ done' \/ framingError
     THEN Returns
     ELSE /\ hpc' = IF request.chunked /\ chunkRemaining = 0 THEN "size" ELSE "data"
          /\ UNCHANGED outcome
  /\ UNCHANGED <<client, taken, chunkRemaining, remaining, framingError, peerClosed, stalled,
                 progress, delivered, hurried>>

\* nextChunk() and its rawLine(), a token at a time; the line without its CR.
Stripped == IF line # <<>> /\ Last(line) = CR THEN Front(line) ELSE line

\* Where the line has text before its extension.
SizeText == {k \in DOMAIN line : line[k] # CR /\ \A m \in 1..k : line[m] # Ext}

\* strtoul(): -1 where it stops before the end; nothing at all is zero.
Number ==
  CASE SizeText = {} -> 0
    [] \E k \in SizeText : SizeText = {k} /\ line[k][1] = "size" ->
         line[CHOOSE k \in SizeText : TRUE][2]
    [] OTHER -> -1

\* Variant: a line has no end but its LF.
InLineUnbounded ==
  /\ hpc \in {"size", "trailer"}
  /\ Takes(1) /\ Token # LF
  /\ line' = Append(line, Token)
  /\ UNCHANGED <<client, reader, part, block, hpc, result>>

\* A character that does not end the line.
InLine ==
  /\ hpc \in {"size", "trailer"} /\ Len(line) < MaxLine
  /\ Takes(1) /\ Token # LF
  /\ line' = Append(line, Token)
  /\ UNCHANGED <<client, reader, part, block, hpc, result>>

SizeLine ==
  /\ hpc = "size" /\ Len(line) < MaxLine
  /\ Takes(1) /\ Token = LF
  /\ line' = <<>>
  /\ \/ Stripped = <<>> /\ UNCHANGED <<hpc, chunkRemaining, framingError, outcome>>
     \/ /\ Stripped # <<>> /\ Number = -1
        /\ framingError' = TRUE /\ Returns /\ UNCHANGED chunkRemaining
     \/ /\ Stripped # <<>> /\ Number = 0
        /\ hpc' = "trailer" /\ UNCHANGED <<chunkRemaining, framingError, outcome>>
     \/ /\ Stripped # <<>> /\ Number > 0
        /\ hpc' = "data" /\ chunkRemaining' = Number /\ UNCHANGED <<framingError, outcome>>
  /\ UNCHANGED <<client, remaining, done, part, block, delivered, hurried>>

\* rawLine() has no line to give: it is too long, or the rest of it does not come.
NoLine ==
  \/ Len(line) = MaxLine /\ UNCHANGED <<taken, peerClosed, stalled>>
  \/ Len(line) < MaxLine /\ Nothing

\* Variant: whoever closes between two chunks is taken for one who broke off.
SizeLineFailsAlways ==
  /\ hpc = "size" /\ NoLine
  /\ framingError' = TRUE /\ Returns
  /\ UNCHANGED <<client, chunkRemaining, remaining, done, progress, delivered, hurried>>

\* Variant: without a line, the next one is waited for.
SizeLineAwaited ==
  /\ hpc = "size" /\ NoLine
  /\ framingError' = (line # <<>>)
  /\ IF framingError' THEN Returns ELSE UNCHANGED <<hpc, outcome>>
  /\ UNCHANGED <<client, chunkRemaining, remaining, done, progress, delivered, hurried>>

\* An error, unless the client closed before the first byte of the line.
SizeLineFails ==
  /\ hpc = "size" /\ NoLine
  /\ framingError' = ~(peerClosed' /\ line = <<>>) /\ Returns
  /\ UNCHANGED <<client, chunkRemaining, remaining, done, progress, delivered, hurried>>

\* Variant: the lines after the last chunk are left unread.
TrailerUnread ==
  /\ hpc = "trailer" /\ done' = TRUE /\ line' = <<>> /\ Returns
  /\ UNCHANGED <<client, taken, peerClosed, stalled, chunkRemaining, remaining, framingError,
                 part, block, delivered, hurried>>

\* The last chunk has come, and the lines up to the empty one are read if they come.
Trailer ==
  /\ hpc = "trailer"
  /\ \/ /\ Len(line) < MaxLine /\ Takes(1) /\ Token = LF
        /\ done' = (Stripped = <<>>) /\ line' = <<>>
     \/ NoLine /\ done' = TRUE /\ UNCHANGED line
  /\ IF done' THEN Returns ELSE UNCHANGED <<hpc, outcome>>
  /\ UNCHANGED <<client, chunkRemaining, remaining, framingError, part, block, delivered,
                 hurried>>

\* Variant: what is left of the chunk is not looked at.
WantedByRoom == IF part = "head" THEN 1 ELSE Room

\* As much payload as there is room and need for; one byte for the head.
Wanted ==
  Min({IF part = "head" THEN 1 ELSE Room,
       IF request.chunked THEN chunkRemaining ELSE IF remaining > 0 THEN remaining ELSE Room})

Data ==
  /\ hpc = "data"
  /\ LET n == Min({Wanted, sent - taken})
     IN  /\ n > 0 /\ Takes(n)
         /\ block' = block \o SubSeq(request.tokens, taken + 1, taken + n)
         /\ chunkRemaining' = IF request.chunked THEN chunkRemaining - n ELSE 0
         /\ remaining' = IF remaining > 0 THEN remaining - n ELSE remaining
  /\ done' = (remaining' = 0)
  /\ hpc' = IF request.chunked /\ chunkRemaining' = 0 THEN "after" ELSE "next"
  /\ UNCHANGED <<client, framingError, line, part, result>>

\* A body of unknown length is over when its client closes.
DataFails ==
  /\ hpc = "data" /\ Nothing
  /\ done' = (~request.chunked /\ part # "head" /\ remaining < 0 /\ peerClosed')
  /\ Returns
  /\ UNCHANGED <<client, chunkRemaining, remaining, framingError, progress, delivered, hurried>>

\* CR and LF end a chunk.
AfterChunk ==
  /\ hpc = "after"
  /\ \/ /\ Takes(1) /\ line = <<>>
        /\ line' = <<Token>> /\ UNCHANGED <<framingError, hpc, outcome>>
     \/ /\ Takes(1) /\ line # <<>> /\ line' = <<>>
        /\ framingError' = (<<line[1], Token>> # <<CR, LF>>)
        /\ IF framingError' THEN Returns ELSE hpc' = "next" /\ UNCHANGED outcome
     \/ Nothing /\ line' = <<>> /\ framingError' = TRUE /\ Returns
  /\ UNCHANGED <<client, chunkRemaining, remaining, done, part, block, delivered, hurried>>

ReadStep ==
  \/ HeadIsRead \/ NextRead \/ InLine \/ SizeLine \/ SizeLineFails \/ Trailer
  \/ Data \/ DataFails \/ AfterChunk

-----------------------------------------------------------------------------
(***************************************************************************)
(* What is done with a block                                               *)
(***************************************************************************)

\* The rest of a request that is no document is thrown away, for two seconds.
Drop ==
  /\ hpc = "block" /\ part = "rest"
  /\ \/ block # <<>> /\ hpc' = "next" /\ UNCHANGED <<outcome, hurried>>
     \/ block # <<>> /\ hpc' = "end" /\ outcome' = "answered" /\ hurried' = TRUE
     \/ block = <<>> /\ hpc' = "end" /\ outcome' = "answered" /\ UNCHANGED hurried
  /\ block' = <<>>
  /\ UNCHANGED <<client, taken, reader, peerClosed, stalled, line, part, delivered>>

\* sendDirect(), which may fail, and the deadline of the document.
SendBlock ==
  /\ hpc = "block" /\ part = "document" /\ block # <<>>
  /\ block' = <<>>
  /\ \/ delivered' = delivered \o block /\ hpc' = "next" /\ UNCHANGED <<outcome, hurried>>
     \/ /\ delivered' \in {delivered, delivered \o block}
        /\ hpc' = "end" /\ outcome' = "refused" /\ hurried' = TRUE
  /\ UNCHANGED <<client, taken, reader, peerClosed, stalled, line, part>>

atChunkBoundary == request.chunked /\ ~framingError /\ ~done /\ chunkRemaining = 0

\* Variant: a client that closes has said all it had to say.
VerdictOnClose ==
  /\ hpc = "block" /\ part = "document" /\ block = <<>>
  /\ hpc' = "end"
  /\ outcome' = IF (done \/ peerClosed) /\ ~framingError /\ delivered # <<>>
                THEN "accepted" ELSE "refused"
  /\ UNCHANGED <<client, taken, reader, peerClosed, stalled, progress, delivered, hurried>>

\* The end of streamDocument().
Verdict ==
  /\ hpc = "block" /\ part = "document" /\ block = <<>>
  /\ hpc' = "end"
  /\ outcome' = IF /\ done \/ (peerClosed /\ atChunkBoundary)
                   /\ ~framingError /\ delivered # <<>>
                THEN "accepted" ELSE "refused"
  /\ UNCHANGED <<client, taken, reader, peerClosed, stalled, progress, delivered, hurried>>

HttpService == ReadStep \/ Drop \/ SendBlock \/ Verdict

HttpNext == Ask \/ Write \/ Close \/ HttpService

-----------------------------------------------------------------------------
(***************************************************************************)
(* Properties                                                              *)
(***************************************************************************)
ClientTypes ==
  request \in Requests \cup {NoRequest} /\ sent \in 0..Len(request.tokens)

ReaderTypes ==
  taken \in 0..sent /\ chunkRemaining \in Nat /\ remaining \in Nat \cup {-1}

FlagTypes ==
  /\ shut \in BOOLEAN /\ done \in BOOLEAN /\ framingError \in BOOLEAN
  /\ peerClosed \in BOOLEAN /\ stalled \in BOOLEAN /\ hurried \in BOOLEAN

\* No line and no block grows beyond its buffer.
BlockTypes ==
  /\ line \in Seq(Tokens) /\ Len(line) <= MaxLine
  /\ part \in {"head", "document", "rest"}
  /\ block \in Seq(Tokens) /\ Len(block) <= (IF part = "head" THEN HeadSize ELSE Capacity)

ResultTypes ==
  /\ hpc \in {"off", "next", "size", "trailer", "data", "after", "block", "end"}
  /\ outcome \in {"none", "malformed", "answered", "accepted", "refused"}
  /\ delivered \in Seq(Tokens)

HttpTypeOK == ClientTypes /\ ReaderTypes /\ FlagTypes /\ BlockTypes /\ ResultTypes

\* The bytes of the document among the first k tokens of the request.
Document(k) ==
  LET n == Count(request.tokens, k) - HeadSize
  IN  [i \in 1..(IF n > 0 THEN n ELSE 0) |-> Byte(HeadSize + i)]

\* The k-th token ends a chunk, or comes after the line of the last one.
EndsChunk(t, k) == k > 2 /\ t[k - 2][1] = "byte" /\ t[k - 1] = CR /\ t[k] = LF

EndsLast(t, k) == \E i \in 1..k, j \in 1..k : i < j /\ t[i] = Size(0) /\ t[j] = LF

\* Whether a client that closes after k tokens has ended a document there: it has
\* written everything, or a whole chunk, or the line of the last one, or it has
\* announced neither length nor chunks.
EndsAt(k) ==
  LET t == request.tokens
  IN  /\ Document(k) # <<>>
      /\ \/ k = Len(t)
         \/ ~request.chunked /\ request.length = -1
         \/ request.chunked /\ (EndsChunk(t, k) \/ EndsLast(t, k))

\* A line that starts with a size at i and ends at j; other text is an extension.
SizeLineAt(t, i, j) ==
  /\ i < j /\ j - i < MaxLine /\ t[j] = LF
  /\ \A k \in (i + 1)..(j - 1) :
       t[k] = CR \/ (t[k] \in {Ext, Text} /\ \E m \in (i + 1)..k : t[m] = Ext)

\* n bytes after j, CR and LF, and the next size or the end.
ChunkAt(t, j, n) ==
  /\ j + n + 2 <= Len(t)
  /\ \A k \in (j + 1)..(j + n) : t[k][1] = "byte"
  /\ t[j + n + 1] = CR /\ t[j + n + 2] = LF
  /\ j + n + 2 = Len(t) \/ t[j + n + 3][1] = "size"

EmptyLineAt(t, k) == t[k] = LF /\ (t[k - 1] = LF \/ (t[k - 1] = CR /\ t[k - 2] = LF))

\* Lines after j, none too long, of which only the last is empty.
TrailerAt(t, j) ==
  /\ j < Len(t)
  /\ \A k \in (j + 1)..Len(t) :
       t[k] \in {CR, LF, Ext, Text} /\ (EmptyLineAt(t, k) <=> k = Len(t))
  /\ \A k \in j..(Len(t) - MaxLine) : \E m \in (k + 1)..(k + MaxLine) : t[m] = LF

InChunks(t) ==
  /\ t # <<>> /\ t[1][1] = "size"
  /\ \A i \in DOMAIN t : t[i][1] = "size" =>
       \E j \in DOMAIN t :
         /\ SizeLineAt(t, i, j)
         /\ IF t[i][2] = 0 THEN TrailerAt(t, j) ELSE ChunkAt(t, j, t[i][2])

\* The framing of the request is that of HTTP: chunks, the last of which may be
\* missing, or payload only, which without a length is a document's or the head.
Sound ==
  LET t == request.tokens
  IN  IF request.chunked THEN InChunks(t)
      ELSE /\ \A k \in DOMAIN t : t[k][1] = "byte"
           /\ request.length \in {-1, Len(t)}
           /\ request.length = -1 /\ ~request.document => Len(t) <= HeadSize

\* What reaches the printer is the document from its first byte on, without a gap
\* and without a byte of HTTP's framing, wherever the blocks and the writes end.
DeliveredIsPayload == Sound => IsPrefix(delivered, Document(Len(request.tokens)))

\* A document that is accepted was delivered to the last byte that its client wrote,
\* also where a size, an end or a line of its framing is wrong; one in sound framing
\* had been ended there by its client.
AcceptedIsWhole ==
  outcome = "accepted" =>
    delivered = Document(sent) /\ (Sound => EndsAt(sent))

\* A document in sound framing is refused only if the client fell silent or broke it
\* off or had none to send, or if the printer or the clock ended it.
RefusedHasACause ==
  outcome \in {"malformed", "refused"} /\ Sound =>
    stalled \/ hurried \/ ~EndsAt(sent)

\* A request that is no document is answered when all of it has been read, as the
\* unread rest would turn the end of the connection into a reset.
AnsweredIsRead ==
  outcome = "answered" /\ Sound => stalled \/ hurried \/ shut \/ taken = sent
=============================================================================
