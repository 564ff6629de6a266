--------------------------- MODULE MCNetworkInput ---------------------------
(***************************************************************************)
(* The clients that TLC explores.  The head of a request is two bytes and  *)
(* a block holds two, so that a chunk may end within the head, between     *)
(* head and document, and within or at the end of a block; some bodies     *)
(* break HTTP's framing in one place.  A RAW client sends up to three      *)
(* pieces, beginnings of the end-of-job sequence among them, through a     *)
(* ring that is shorter than the sequence.                                 *)
(***************************************************************************)
EXTENDS NetworkInput

Bytes(from, n) == [i \in 1..n |-> Byte(from + i)]
Chunk(n, from) == <<Size(n), CR, LF>> \o Bytes(from, n) \o <<CR, LF>>
LastChunk == <<Size(0), CR, LF, CR, LF>>

SoundChunks ==
  {Chunk(5, 0) \o LastChunk,
   Chunk(1, 0) \o Chunk(3, 1) \o LastChunk,
   Chunk(3, 0) \o Chunk(1, 3) \o Chunk(1, 4) \o LastChunk,
   Chunk(2, 0) \o LastChunk,
   Chunk(2, 0) \o Chunk(2, 2) \o <<Size(0), Ext, CR, LF, Text, CR, LF, CR, LF>>,
   <<Size(4), Ext, CR, LF>> \o Bytes(0, 4) \o <<CR, LF>>}

\* A size one too large or too small, no size at all, an empty line before one, no CR,
\* and a size line that is too long.
UnsoundChunks ==
  {Chunk(2, 0) \o <<Size(2), CR, LF>> \o Bytes(2, 1) \o <<CR, LF>> \o LastChunk,
   Chunk(2, 0) \o <<Size(1), CR, LF>> \o Bytes(2, 2) \o <<CR, LF>> \o LastChunk,
   Chunk(3, 0) \o <<Text, CR, LF>> \o Bytes(3, 1) \o <<CR, LF>> \o LastChunk,
   Chunk(3, 0) \o <<CR, LF>> \o Chunk(1, 3) \o LastChunk,
   <<Size(3), CR, LF>> \o Bytes(0, 3) \o <<LF>> \o Chunk(2, 3) \o LastChunk,
   Chunk(3, 0) \o <<Size(1), Ext, Text, Text, CR, LF>> \o Bytes(3, 1) \o <<CR, LF>>}

Chunked(tokens, document) ==
  [chunked |-> TRUE, length |-> -1, tokens |-> tokens, document |-> document]

Plain(n, length, document) ==
  [chunked |-> FALSE, length |-> length, tokens |-> Bytes(0, n), document |-> document]

MCRequests ==
  {Chunked(t, d) : t \in SoundChunks, d \in BOOLEAN}
    \cup {Chunked(t, TRUE) : t \in UnsoundChunks}
    \cup {Plain(n, n, d) : n \in {2, 5}, d \in BOOLEAN}
    \cup {Plain(5, -1, TRUE), Plain(2, -1, FALSE), Plain(4, 5, TRUE)}

Beginnings == {SubSeq(PJL_EOJ, 1, k) : k \in {0, 1, 3, 7}}

MCInputs ==
  {a \o b \o PJL_EOJ \o c : a \in Beginnings, b \in Beginnings, c \in {<<>>, <<"x", "@">>}}
    \cup {a \o <<"x">> \o b : a \in Beginnings, b \in Beginnings}
=============================================================================
