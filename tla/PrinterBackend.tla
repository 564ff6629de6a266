--------------------------- MODULE PrinterBackend ---------------------------
(***************************************************************************)
(* The state machine of the one print job the bridge can carry             *)
(* (UsbPrinterBackend in usb_printer_backend.cpp), over the printer state  *)
(* that the USB client task publishes (UsbHostManager).                    *)
(*                                                                         *)
(* The backend is a record, be, and each of its calls is an operator from  *)
(* record to record, because the RAW and IPP servers make several calls in *)
(* one handler.  What a call finds in the stream (queued, failed, timed    *)
(* out, flushed) is a choice of the caller: UsbStream says when it can be  *)
(* which.  Milliseconds are three ages of a drain: before the minimum      *)
(* guard, before the status timeout, after it.                             *)
(***************************************************************************)
EXTENDS Integers, FiniteSets

CONSTANT Printers   \* bound: what the printers that come have to print on

ASSUME PrintersAssumption == Printers \subseteq {"unusable", "usable"}

VARIABLES
  host,       \* UsbHostManager::state_
  found,      \* device_.printer: "no" while not found, "unusable" if it has no
              \* Bulk OUT endpoint to print on (InterfaceChoice), else "usable"
  status,     \* device_.portStatus: "none" while not valid
  be          \* UsbPrinterBackend

hostVars == <<host, found, status>>

\* What the port status byte says.  "emptyError" sets both bits, of which a drain
\* asks the paper first and poll() the error; other mixtures act as one of these.
Reports == {"ready", "paperEmpty", "error", "emptyError", "deselected"}

PaperEmpty == status \in {"paperEmpty", "emptyError"}
StatusError == status \in {"error", "emptyError"}

\* A RAW client, or the document of a Print-Job or of a Send-Document.
Senders == {"raw", "print", "send"}

HasDocument(b) == b.senders \ {"raw"} # {}

BackendInit ==
  /\ host = "running" /\ found = "no" /\ status = "none"
  /\ be = [state     |-> "OFFLINE",
           drain     |-> FALSE,     \* drainPending_
           age       |-> 0,         \* now - drainStartedMs_, 0 without a drain
           sampled   |-> FALSE,     \* a valid status has come since the drain began
           owed      |-> 0,         \* history: jobs begun, less those counted (in
                                    \* jobsCompleted_, jobsFailed_) or dropped
           senders   |-> {},        \* history: whose bytes the job in progress holds
           unflushed |-> FALSE,     \* history: some of them not flushed since pushed
           torn      |-> FALSE]     \* history: the IPP document's job was aborted

-----------------------------------------------------------------------------
(***************************************************************************)
(* Calls                                                                   *)
(***************************************************************************)

\* With the drain goes what the history says of the job: it is over, or about to begin.
NoDrain(b) == [b EXCEPT !.drain = FALSE, !.age = 0, !.sampled = FALSE,
                        !.senders = {}, !.unflushed = FALSE]

\* sendDirect() turns the block away, changing nothing.
Refuses(b) == found # "usable" \/ b.state \notin {"IDLE", "PRINTING"}

\* sendDirect() queues the block; from IDLE this starts a transport job.
Sent(b, who) ==
  IF b.state = "IDLE"
  THEN [NoDrain(b) EXCEPT !.state = "PRINTING", !.owed = @ + 1,
                          !.senders = {who}, !.unflushed = TRUE]
  ELSE [b EXCEPT !.senders = @ \cup {who}, !.unflushed = TRUE]

\* Variant: an abort is counted even if the job was aborted before.
AbortedCountsAgain(b) ==
  [NoDrain(b) EXCEPT !.state = "ERROR", !.owed = @ - 1,
                      !.torn = @ \/ (b.state = "PRINTING" /\ HasDocument(b))]

\* abortRawJob()
Aborted(b) ==
  [NoDrain(b) EXCEPT !.state = "ERROR",
                      !.owed = IF b.state = "ERROR" THEN @ ELSE @ - 1,
                      !.torn = @ \/ (b.state = "PRINTING" /\ HasDocument(b))]

\* Variant: the drain starts without waiting for the stream.
FinishedUnflushed(b, flushed) ==
  IF b.state # "PRINTING" \/ b.drain THEN b
  ELSE [b EXCEPT !.drain = TRUE, !.age = 0, !.sampled = FALSE]

\* finishRawJob(); flushed is the result of UsbStream::flush().
Finished(b, flushed) ==
  IF b.state # "PRINTING" \/ b.drain THEN b
  ELSE IF flushed
       THEN [b EXCEPT !.drain = TRUE, !.age = 0, !.sampled = FALSE, !.unflushed = FALSE]
       ELSE Aborted(b)

\* The printer says no: the job counts as failed.
Faulted(b, state) ==
  [NoDrain(b) EXCEPT !.state = state, !.owed = @ - 1,
                      !.torn = @ \/ HasDocument(b)]

\* Variant: without the timeout, a de-selected printer holds the job for ever.
DrainedNoTimeout(b) ==
  IF ~b.drain \/ b.state # "PRINTING" THEN b
  ELSE CASE PaperEmpty -> Faulted(b, "OFFLINE")
         [] StatusError /\ ~PaperEmpty -> Faulted(b, "ERROR")
         [] status = "deselected" -> b
         [] OTHER -> IF b.age = 0 \/ (status # "none" /\ ~b.sampled /\ b.age < 2) THEN b
                     ELSE [NoDrain(b) EXCEPT !.state = "IDLE", !.owed = @ - 1]

\* completeDrainIfReady()
Drained(b) ==
  IF ~b.drain \/ b.state # "PRINTING" THEN b
  ELSE CASE PaperEmpty -> Faulted(b, "OFFLINE")
         [] StatusError /\ ~PaperEmpty -> Faulted(b, "ERROR")
         [] status = "deselected" ->
              IF b.age < 2 THEN b
              ELSE [NoDrain(b) EXCEPT !.state = "OFFLINE", !.owed = @ - 1]
         [] OTHER -> IF b.age = 0 \/ (status # "none" /\ ~b.sampled /\ b.age < 2) THEN b
                     ELSE [NoDrain(b) EXCEPT !.state = "IDLE", !.owed = @ - 1]

\* The switch at the end of poll(): between jobs the state follows the printer.
Followed(b) ==
  IF b.state = "PRINTING" THEN b
  ELSE [b EXCEPT !.state =
          CASE host = "ready" /\ found # "usable" -> "ERROR"
            [] host = "ready" /\ found = "usable" /\ status \in {"none", "ready"} -> "IDLE"
            [] host = "ready" /\ found = "usable" /\ StatusError -> "ERROR"
            [] OTHER -> "OFFLINE"]

-----------------------------------------------------------------------------
(***************************************************************************)
(* The USB client task and time, at any moment                             *)
(***************************************************************************)
onEnumerationStarted ==
  /\ host = "running" /\ found = "no"
  /\ host' = "enumerating"
  /\ UNCHANGED <<found, status, be>>

\* The device that is published may have no interface to print on.
onEnumerated ==
  /\ host = "enumerating"
  /\ host' = "ready" /\ found' \in Printers /\ status' = "none"
  /\ UNCHANGED be

\* A failed enumeration, or an error of the USB client's event loop: the latter
\* takes a working printer out of the ready state without closing it.
onEnumerationError ==
  /\ host \in {"enumerating", "ready"}
  /\ host' = "running"
  /\ UNCHANGED <<found, status, be>>

onDetached ==
  /\ found # "no"
  /\ host' = "running" /\ found' = "no" /\ status' = "none"
  /\ be' = [be EXCEPT !.sampled = FALSE]

\* Only a transfer that succeeded is recorded; a failed one leaves the old status.
\* The fields are written one by one while the loop task may read them: it can see
\* any report before the time stamp that makes it a fresh one.
onPortStatusTransfer ==
  /\ found # "no"
  /\ status' \in Reports
  /\ \E stamped \in BOOLEAN : be' = [be EXCEPT !.sampled = be.drain /\ (@ \/ stamped)]
  /\ UNCHANGED <<host, found>>

DrainAges ==
  /\ be.drain /\ be.age < 2
  /\ be' = [be EXCEPT !.age = @ + 1]
  /\ UNCHANGED hostVars

HostEvent ==
  \/ onEnumerationStarted \/ onEnumerated \/ onEnumerationError
  \/ onDetached \/ onPortStatusTransfer

States == {"OFFLINE", "IDLE", "PRINTING", "ERROR"}

BackendTypeOK ==
  /\ host \in {"running", "enumerating", "ready"}
  /\ found \in {"no", "unusable", "usable"}
  /\ status \in Reports \cup {"none"}
  /\ be \in [state : States, drain : BOOLEAN, age : 0..2, sampled : BOOLEAN,
             owed : Int, senders : SUBSET Senders,
             unflushed : BOOLEAN, torn : BOOLEAN]
=============================================================================
