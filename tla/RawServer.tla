----------------------------- MODULE RawServer -----------------------------
(***************************************************************************)
(* The RAW 9100 server (handleRawServer and its helpers in                 *)
(* usb_printer_backend.cpp): one TCP client at a time, whose bytes go to   *)
(* the backend as they come.                                               *)
(*                                                                         *)
(* A chunk is what one read returns: "data", or "eoj" if the PJL           *)
(* end-of-job sequence ends in it.  The RAW ring is emptied in the handler *)
(* that fills it, so it is empty between handlers: its bytes and the       *)
(* search for the sequence are RawInput's.  The idle timeouts and the      *)
(* close guard are flags that time raises.                                 *)
(***************************************************************************)
EXTENDS PrinterBackend, Sequences, SequencesExt

CONSTANTS
  MaxConns,   \* bound: TCP connections made
  MaxChunks   \* bound: chunks sent by all clients

ASSUME RawAssumption == MaxConns \in Nat /\ MaxChunks \in Nat

VARIABLES
  waiting,    \* a connection waits to be accepted
  fd,         \* rawClient holds a socket
  inbox,      \* chunks received and not read
  peer,       \* the client's end: "open", "fin" or "reset"
  got,        \* rawBytesReceived > 0
  stale,      \* the idle timeout that applies has passed since rawLastDataMs
  closing,    \* "no", or the steps of rawTransportClosing and its guard
  conns, chunks

rawVars == <<waiting, fd, inbox, peer, got, stale, closing, conns, chunks>>

RawInit ==
  /\ waiting = FALSE /\ fd = FALSE /\ inbox = <<>> /\ peer = "open"
  /\ got = FALSE /\ stale = FALSE /\ closing = "no"
  /\ conns = 0 /\ chunks = 0

rawClientConnected == fd \/ closing # "no"

\* Variant: the socket is closed but the closing flag stays up.
ResetKeepsClosing ==
  /\ fd' = FALSE /\ inbox' = <<>> /\ peer' = "open" /\ got' = FALSE /\ stale' = FALSE
  /\ UNCHANGED <<closing, waiting, conns, chunks>>

\* The socket is stopped and resetRawTransportState() runs.
ResetTransport ==
  /\ fd' = FALSE /\ inbox' = <<>> /\ peer' = "open" /\ got' = FALSE /\ stale' = FALSE
  /\ closing' = "no"
  /\ UNCHANGED <<waiting, conns, chunks>>

\* abortRawConnection() after bytes of this client were sent (g) or not.
AbortConnection(b, g) ==
  /\ be' = IF g THEN Aborted(b) ELSE b
  /\ ResetTransport

\* finishRawConnection(): without data the client is dropped at once.  Otherwise
\* nothing that it has sent or still does is looked at from now on.
FinishConnection(b, g) ==
  \/ ~g /\ be' = b /\ ResetTransport
  \/ /\ g
     /\ \E flushed \in BOOLEAN : be' = Finished(b, flushed)
     /\ closing' = "closing" /\ got' = TRUE
     /\ inbox' = <<>> /\ peer' = "open" /\ stale' = FALSE
     /\ UNCHANGED <<waiting, fd, conns, chunks>>

-----------------------------------------------------------------------------
(***************************************************************************)
(* handleRawServer()                                                       *)
(***************************************************************************)

\* serviceRawTransportClose(): the guard is armed, waited for, and then the
\* client is let go.
RawClose ==
  /\ closing # "no"
  /\ be' = be
  /\ \/ /\ closing = "closing" /\ closing' = "guard"
        /\ UNCHANGED <<waiting, fd, inbox, peer, got, stale, conns, chunks>>
     \/ closing = "guard" /\ UNCHANGED rawVars
     \/ closing = "expired" /\ ResetTransport

\* A client is accepted by a printer that is idle, and turned away otherwise.
RawAccept ==
  /\ closing = "no" /\ ~fd /\ waiting
  /\ waiting' = FALSE
  /\ fd' = (be.state = "IDLE")
  /\ be' = be
  /\ UNCHANGED <<inbox, peer, got, stale, closing, conns, chunks>>

RawNobody ==
  /\ closing = "no" /\ ~fd /\ ~waiting
  /\ UNCHANGED <<be, rawVars>>

\* What follows the drain: the timeouts, then the peer's end.  A reset after
\* data counts as the end of the job or not, by its errno.
RawChecks(b, g, s) ==
  \/ s /\ AbortConnection(b, g)
  \/ ~s /\ peer = "fin" /\ FinishConnection(b, g)
  \/ ~s /\ peer = "reset" /\ g /\ FinishConnection(b, g)
  \/ ~s /\ peer = "reset" /\ AbortConnection(b, g)
  \/ /\ ~s /\ peer = "open"
     /\ be' = b /\ got' = g /\ stale' = s /\ inbox' = <<>>
     /\ UNCHANGED <<waiting, fd, peer, closing, conns, chunks>>

RawQuiet ==
  /\ closing = "no" /\ fd /\ inbox = <<>>
  /\ RawChecks(be, got, stale)

\* All that has come in is read and drained to the stream; a drain held up by
\* the printer may outlast the idle timeout.
RawStream ==
  /\ closing = "no" /\ fd /\ inbox # <<>> /\ ~Contains(inbox, "eoj")
  /\ ~Refuses(be)
  /\ \E slow \in BOOLEAN : RawChecks(Sent(be, "raw"), TRUE, slow)

\* The job ends with the chunk that holds PJL EOJ; what came after it is not read.
RawEoj ==
  /\ closing = "no" /\ fd /\ Contains(inbox, "eoj")
  /\ ~Refuses(be)
  /\ FinishConnection(Sent(be, "raw"), TRUE)

\* sendDirect() fails: turned away, or the stream gave up and the job is aborted.
RawSendFails ==
  /\ closing = "no" /\ fd /\ inbox # <<>>
  /\ IF Refuses(be) THEN AbortConnection(be, got)
     ELSE \E g \in {got, TRUE} : AbortConnection(Aborted(Sent(be, "raw")), g)

HandleRaw ==
  \/ RawClose \/ RawAccept \/ RawNobody
  \/ RawQuiet \/ RawStream \/ RawEoj \/ RawSendFails

-----------------------------------------------------------------------------
(***************************************************************************)
(* Clients and time                                                        *)
(***************************************************************************)
Connect ==
  /\ ~waiting /\ conns < MaxConns
  /\ waiting' = TRUE /\ conns' = conns + 1
  /\ UNCHANGED <<fd, inbox, peer, got, stale, closing, chunks>>

SendChunk ==
  /\ fd /\ closing = "no" /\ peer = "open" /\ chunks < MaxChunks
  /\ \E c \in {"data", "eoj"} : inbox' = Append(inbox, c)
  /\ chunks' = chunks + 1
  /\ UNCHANGED <<waiting, fd, peer, got, stale, closing, conns>>

EndConnection ==
  /\ fd /\ closing = "no" /\ peer = "open"
  /\ peer' \in {"fin", "reset"}
  /\ UNCHANGED <<waiting, fd, inbox, got, stale, closing, conns, chunks>>

IdleTimeout ==
  /\ fd /\ closing = "no" /\ ~stale
  /\ stale' = TRUE
  /\ UNCHANGED <<waiting, fd, inbox, peer, got, closing, conns, chunks>>

GuardExpires ==
  /\ closing = "guard"
  /\ closing' = "expired"
  /\ UNCHANGED <<waiting, fd, inbox, peer, got, stale, conns, chunks>>

RawClient == Connect \/ SendChunk \/ EndConnection

RawTypeOK ==
  /\ waiting \in BOOLEAN /\ fd \in BOOLEAN /\ got \in BOOLEAN /\ stale \in BOOLEAN
  /\ inbox \in Seq({"data", "eoj"})
  /\ peer \in {"open", "fin", "reset"}
  /\ closing \in {"no", "closing", "guard", "expired"}
  /\ conns \in 0..MaxConns /\ chunks \in 0..MaxChunks
=============================================================================
