------------------------------ MODULE RawInput ------------------------------
(***************************************************************************)
(* The bytes of a RAW 9100 connection (handleRawServer() and its helpers   *)
(* in usb_printer_backend.cpp): they are read into a ring, scanned for the *)
(* PJL end-of-job sequence, and sent to the printer from the ring.  What   *)
(* the end of a connection means for the print job is RawServer's.         *)
(*                                                                         *)
(* Reading, scanning a byte and sending a piece are steps, and the client  *)
(* may send or end the connection between any two.  A cell of the ring is  *)
(* blank once it has been sent, so that a byte sent twice would show.      *)
(***************************************************************************)
EXTENDS Integers, Sequences

CONSTANTS
  Inputs,    \* bound: what a client may send, sequences of characters
  RingSize,  \* USB_BUFFER_SIZE
  RxChunk,   \* RAW_RX_CHUNK
  UsbChunk   \* RAW_USB_CHUNK

Characters == {"@", "P", "J", "L", " ", "E", "O", "x"}

ASSUME RawInputAssumption ==
  /\ Inputs \subseteq Seq(Characters)
  /\ RingSize \in Nat \ {0} /\ RxChunk \in Nat \ {0} /\ UsbChunk \in Nat \ {0}

VARIABLES
  input, arrived,  \* what the client has to send, and how much of it has come
  peer,            \* the client's end: "open", "fin" or "reset"
  received,        \* bytes read from the socket
  scanned,         \* bytes that the detector has seen
  match,           \* state of the detector: characters of PJL_EOJ matched
  ring, ringWritePos, ringReadPos, ringDataLen,
  pushed,          \* what sendDirect() took
  rpc,             \* the next step of handleRawServer(), "off" without a client
  eoj              \* the end-of-job sequence was seen

connection  == <<input, arrived, peer>>
detector    == <<scanned, match>>
ringVars    == <<ring, ringWritePos, ringReadPos, ringDataLen>>
rawInputVars == <<connection, received, detector, ringVars, pushed, rpc, eoj>>

PJL_EOJ == <<"@", "P", "J", "L", " ", "E", "O", "J">>
PJL_EOJ_LEN == 8

Blank == "blank"

RawInputInit ==
  /\ input = <<>> /\ arrived = 0 /\ peer = "open"
  /\ received = 0 /\ scanned = 0 /\ match = 0
  /\ ring = [i \in 0 .. RingSize - 1 |-> Blank]
  /\ ringWritePos = 0 /\ ringReadPos = 0 /\ ringDataLen = 0
  /\ pushed = <<>> /\ rpc = "off" /\ eoj = FALSE

Least(a, b) == IF a <= b THEN a ELSE b

-----------------------------------------------------------------------------
(***************************************************************************)
(* The client                                                              *)
(***************************************************************************)
Sends ==
  /\ rpc \notin {"off", "close"} /\ peer = "open"
  /\ arrived' \in arrived + 1 .. Len(input)
  /\ UNCHANGED <<input, peer, received, detector, ringVars, pushed, rpc, eoj>>

Ends ==
  /\ rpc \notin {"off", "close"} /\ peer = "open"
  /\ peer' \in {"fin", "reset"}
  /\ UNCHANGED <<input, arrived, received, detector, ringVars, pushed, rpc, eoj>>

-----------------------------------------------------------------------------
(***************************************************************************)
(* The server                                                              *)
(***************************************************************************)

\* A client is accepted by a printer that is idle.
Accept ==
  /\ rpc = "off" /\ rpc' = "read"
  /\ input' \in Inputs
  /\ scanned' = 0 /\ match' = 0 /\ received' = 0 /\ pushed' = <<>>
  /\ UNCHANGED <<arrived, peer, ringVars, eoj>>

Available == arrived - received

want == Least(Least(Available, RxChunk), RingSize - ringDataLen)

\* Variant: a read may run past the end of the ring.
firstPartWhole == want

\* What fits up to the end of the ring.
firstPart == Least(want, RingSize - ringWritePos)

ReadSocket ==
  /\ rpc = "read" /\ Available > 0 /\ ringDataLen < RingSize
  /\ ring' = [i \in 0 .. RingSize - 1 |->
                IF i \in ringWritePos .. ringWritePos + firstPart - 1
                THEN input[received + 1 + i - ringWritePos] ELSE ring[i]]
  /\ ringWritePos' = (ringWritePos + firstPart) % RingSize
  /\ ringDataLen' = ringDataLen + firstPart
  /\ received' = received + firstPart
  /\ rpc' = "scan"
  /\ UNCHANGED <<connection, detector, ringReadPos, pushed, eoj>>

\* Variant: a character that does not go on with the sequence cannot begin it.
feedNoResync(m, c) == IF m < PJL_EOJ_LEN /\ c = PJL_EOJ[m + 1] THEN m + 1 ELSE 0

\* PjlDetector::feed(): the state after a character.
feed(m, c) ==
  IF m < PJL_EOJ_LEN /\ c = PJL_EOJ[m + 1] THEN m + 1 ELSE IF c = "@" THEN 1 ELSE 0

\* The scan stops at the end of the sequence, with the detector reset, or with the
\* bytes of the read.
Scan ==
  /\ rpc = "scan"
  /\ scanned' = scanned + 1
  /\ LET m == feed(match, input[scanned + 1])
     IN  \/ m = PJL_EOJ_LEN /\ match' = 0 /\ eoj' = TRUE /\ rpc' = "flush"
         \/ /\ m # PJL_EOJ_LEN /\ match' = m /\ UNCHANGED eoj
            /\ rpc' = (IF scanned' = received THEN "read" ELSE "scan")
  /\ UNCHANGED <<connection, received, ringVars, pushed>>

EndOfRead ==
  /\ rpc = "read" /\ (Available = 0 \/ ringDataLen = RingSize)
  /\ rpc' = "drain"
  /\ UNCHANGED <<connection, received, detector, ringVars, pushed, eoj>>

\* What drainRingToUsb() sends at a time.
Piece == Least(Least(ringDataLen, UsbChunk), RingSize - ringReadPos)

SendPiece ==
  /\ rpc \in {"drain", "flush"} /\ ringDataLen > 0
  /\ pushed' = pushed \o [i \in 1 .. Piece |-> ring[ringReadPos + i - 1]]
  /\ ring' = [i \in 0 .. RingSize - 1 |->
                IF i \in ringReadPos .. ringReadPos + Piece - 1 THEN Blank ELSE ring[i]]
  /\ ringReadPos' = (ringReadPos + Piece) % RingSize
  /\ ringDataLen' = ringDataLen - Piece
  /\ UNCHANGED <<connection, received, detector, ringWritePos, rpc, eoj>>

\* resetRawTransportState(): the connection is over.
Over ==
  /\ input' = <<>> /\ arrived' = 0 /\ peer' = "open"
  /\ received' = 0 /\ scanned' = 0 /\ match' = 0
  /\ ring' = [i \in 0 .. RingSize - 1 |-> Blank]
  /\ ringWritePos' = 0 /\ ringReadPos' = 0 /\ ringDataLen' = 0
  /\ pushed' = <<>> /\ rpc' = "off" /\ eoj' = FALSE

\* A failed send, an idle timeout, or an end that is no clean one.
Abort ==
  /\ \/ rpc \in {"drain", "flush"} /\ ringDataLen > 0
     \/ rpc = "drain" /\ ringDataLen = 0
  /\ Over

\* finishRawConnection() with data: at the end-of-job sequence, and when the client
\* has gone and nothing of it is left to read.
Finish ==
  /\ ringDataLen = 0 /\ pushed # <<>>
  /\ rpc = "flush" \/ (rpc = "drain" /\ peer # "open" /\ Available = 0)
  /\ rpc' = "close"
  /\ UNCHANGED <<connection, received, detector, ringVars, pushed, eoj>>

\* The handler is entered again.
NextPoll ==
  /\ rpc = "drain" /\ ringDataLen = 0
  /\ peer = "open" \/ Available > 0
  /\ rpc' = "read"
  /\ UNCHANGED <<connection, received, detector, ringVars, pushed, eoj>>

\* After the close guard.
CloseTransport == rpc = "close" /\ Over

RawInputServer ==
  \/ Accept \/ ReadSocket \/ Scan \/ EndOfRead \/ SendPiece \/ Abort \/ Finish \/ NextPoll
  \/ CloseTransport

RawInputNext == Sends \/ Ends \/ RawInputServer

RawInputSpec == RawInputInit /\ [][RawInputNext]_rawInputVars

-----------------------------------------------------------------------------
(***************************************************************************)
(* Properties                                                              *)
(***************************************************************************)
RawInputTypeOK ==
  /\ input \in Inputs \cup {<<>>}
  /\ received \in 0..Len(input) /\ scanned \in 0..received /\ match \in 0 .. PJL_EOJ_LEN - 1
  /\ arrived \in received..Len(input)
  /\ peer \in {"open", "fin", "reset"}
  /\ ring \in [0 .. RingSize - 1 -> Characters \cup {Blank}]
  /\ ringWritePos \in 0 .. RingSize - 1 /\ ringReadPos \in 0 .. RingSize - 1
  /\ ringDataLen \in 0..RingSize
  /\ pushed \in Seq(Characters \cup {Blank})
  /\ rpc \in {"off", "read", "scan", "drain", "flush", "close"}
  /\ eoj \in BOOLEAN

\* The end-of-job sequence ends at the j-th byte of what the client sends.
EojAt(j) ==
  j >= PJL_EOJ_LEN /\ \A i \in 1..PJL_EOJ_LEN : input[j - PJL_EOJ_LEN + i] = PJL_EOJ[i]

\* The job ends at the first end-of-job sequence among the bytes scanned and at no
\* other place, whatever precedes it and however the reads cut it in pieces.
EndsWithEoj == eoj <=> \E j \in 1..scanned : EojAt(j)

\* The cell that holds the k-th byte of the ring.
Cell(k) == (ringReadPos + k - 1) % RingSize

\* What was sent to the printer and what the ring still holds are the bytes read
\* from the client, in order; when the job is finished, all of them were sent, and
\* with no end-of-job sequence the client had nothing more to say.
BytesInOrder ==
  /\ pushed \o [k \in 1..ringDataLen |-> ring[Cell(k)]] = SubSeq(input, 1, received)
  /\ rpc = "close" => ringDataLen = 0 /\ (eoj \/ received = arrived)
=============================================================================
