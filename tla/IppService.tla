----------------------------- MODULE IppService -----------------------------
(***************************************************************************)
(* The job half of the IPP server (ipp_pcl3_service.cpp): the one job it   *)
(* remembers, and the operations that change it.  The HTTP and attribute   *)
(* layers decide only whether a request is well formed and about the right *)
(* job; one that is not is refused without any effect.                     *)
(***************************************************************************)
EXTENDS PrinterBackend

Operations == {"Print-Job", "Create-Job", "Send-Document", "Cancel-Job", "Close-Job"}

CONSTANTS
  Ops,          \* the operations that clients use
  MaxRequests,  \* bound: requests made
  MaxBlocks     \* bound: blocks in one document

ASSUME IppAssumption ==
  Ops \subseteq Operations /\ MaxRequests \in Nat /\ MaxBlocks \in Nat

VARIABLES
  jobId,       \* lastJobId_, 0 before the first job
  jobState,    \* lastJobState_
  pending,     \* pendingJob_: created, its document not sent
  processing,  \* jobStartedProcessing_, which is also lastJobBytes_ > 0
  inDocument,  \* streamDocument() is running
  blocks, reqs

ippVars == <<jobId, jobState, pending, processing, inDocument, blocks, reqs>>

\* The job-state values of ipp_pcl3_service.h, and that of no job yet.
NoState == 0
Pending == 3
Processing == 4
Stopped == 6
Canceled == 7
JobAborted == 8
Completed == 9

JobStates == {NoState, Pending, Processing, Stopped, Canceled, JobAborted, Completed}

Terminal == {Canceled, JobAborted, Completed}

IppInit ==
  /\ jobId = 0 /\ jobState = NoState /\ pending = FALSE /\ processing = FALSE
  /\ inDocument = FALSE /\ blocks = 0 /\ reqs = 0

-----------------------------------------------------------------------------
\* The job takes the state s, unless it has ended or awaits its first byte.
RefreshTo(s) ==
  /\ IF jobId = 0 \/ jobState \notin {Pending, Processing} \/ (jobState = Pending /\ ~processing)
     THEN UNCHANGED <<jobState, pending>>
     ELSE jobState' = s /\ pending' = (pending /\ be.state = "PRINTING")
  /\ UNCHANGED <<be, jobId, processing, inDocument, blocks, reqs>>

\* Variant: a stopped job is reported with the value IPP gives to processing.
RefreshStopsAsFive ==
  RefreshTo(CASE be.state = "IDLE"    -> Completed
              [] be.state = "ERROR"   -> JobAborted
              [] be.state = "OFFLINE" -> 5
              [] OTHER                -> jobState)

\* Variant: a printer that stops leaves the job as it is.
RefreshForgetsStopped ==
  RefreshTo(CASE be.state = "IDLE"    -> Completed
              [] be.state = "ERROR"   -> JobAborted
              [] OTHER                -> jobState)

\* refreshJobState(): what has become of the job is read off the backend.
RefreshJobState ==
  RefreshTo(CASE be.state = "IDLE"    -> Completed
              [] be.state = "ERROR"   -> JobAborted
              [] be.state = "OFFLINE" -> Stopped
              [] OTHER                -> jobState)

-----------------------------------------------------------------------------
(***************************************************************************)
(* handleClient(), one disjunct per operation                              *)
(***************************************************************************)
Asked(op) == op \in Ops /\ reqs < MaxRequests /\ reqs' = reqs + 1

NewJob(awaits) ==
  /\ jobId' = jobId + 1 /\ jobState' = Pending /\ pending' = awaits /\ processing' = FALSE
  /\ be' = [be EXCEPT !.torn = FALSE]

\* Variant: a document is taken while a RAW client is connected.
PrintJobBesideRaw(rawConnected) ==
  /\ Asked("Print-Job")
  /\ IF be.state = "IDLE" THEN NewJob(FALSE) /\ inDocument' = TRUE
     ELSE UNCHANGED <<be, jobId, jobState, pending, processing, inDocument>>
  /\ blocks' = 0

\* Print-Job is turned away while a RAW client or an earlier job has the printer.
PrintJob(rawConnected) ==
  /\ Asked("Print-Job")
  /\ IF ~rawConnected /\ be.state = "IDLE" THEN NewJob(FALSE) /\ inDocument' = TRUE
     ELSE UNCHANGED <<be, jobId, jobState, pending, processing, inDocument>>
  /\ blocks' = 0

\* Create-Job looks at the backend's state only.
CreateJob ==
  /\ Asked("Create-Job")
  /\ IF be.state = "IDLE" THEN NewJob(TRUE)
     ELSE UNCHANGED <<be, jobId, jobState, pending, processing>>
  /\ UNCHANGED <<inDocument, blocks>>

\* Send-Document looks only at whether its job awaits a document.
SendDocument ==
  /\ Asked("Send-Document")
  /\ IF pending /\ jobId # 0 THEN inDocument' = TRUE /\ processing' = FALSE
     ELSE UNCHANGED <<inDocument, processing>>
  /\ blocks' = 0
  /\ UNCHANGED <<be, jobId, jobState, pending>>

\* Variant: the state of the job is not asked.
CancelJobAlways ==
  /\ Asked("Cancel-Job")
  /\ IF jobId = 0
     THEN UNCHANGED <<be, jobState, pending>>
     ELSE /\ be' = IF be.state = "PRINTING" THEN Aborted(be) ELSE be
          /\ jobState' = Canceled /\ pending' = FALSE
  /\ UNCHANGED <<jobId, processing, inDocument, blocks>>

\* Cancel-Job aborts what the backend is printing, whosever job it is.
CancelJob ==
  /\ Asked("Cancel-Job")
  /\ IF jobId = 0 \/ jobState \in Terminal
     THEN UNCHANGED <<be, jobState, pending>>
     ELSE /\ be' = IF be.state = "PRINTING" THEN Aborted(be) ELSE be
          /\ jobState' = Canceled /\ pending' = FALSE
  /\ UNCHANGED <<jobId, processing, inDocument, blocks>>

CloseJob ==
  /\ Asked("Close-Job")
  /\ IF pending THEN pending' = FALSE /\ jobState' = Completed
     ELSE UNCHANGED <<pending, jobState>>
  /\ UNCHANGED <<be, jobId, processing, inDocument, blocks>>

\* No client, or a request that changes nothing (Get-*, Validate-Job, malformed).
NoJobRequest == UNCHANGED <<be, ippVars>>

-----------------------------------------------------------------------------
(***************************************************************************)
(* streamDocument() and what follows it                                    *)
(***************************************************************************)
\* Only Send-Document's job awaited its document.
Sender == IF pending THEN "send" ELSE "print"

DocumentBlock ==
  /\ inDocument /\ blocks < MaxBlocks /\ ~Refuses(be)
  /\ be' = Sent(be, Sender)
  /\ processing' = TRUE
  /\ jobState' = IF processing THEN jobState ELSE Processing
  /\ blocks' = blocks + 1
  /\ UNCHANGED <<jobId, pending, inDocument, reqs>>

DocumentFails(b) ==
  /\ be' = IF processing THEN Aborted(b) ELSE b
  /\ jobState' = JobAborted

\* The body is complete and not empty, and the job is finished; or it is broken,
\* empty or past its deadline; or a block could not be sent.
DocumentResult ==
  /\ inDocument /\ inDocument' = FALSE
  /\ \/ /\ processing
        /\ \E flushed \in BOOLEAN : be' = Finished(be, flushed)
        /\ UNCHANGED jobState
     \/ DocumentFails(be)
     \/ ~Refuses(be) /\ DocumentFails(Aborted(Sent(be, Sender)))
  /\ blocks' = 0
  /\ UNCHANGED <<jobId, processing, reqs>>

\* Variant: the job goes on awaiting the document that it was sent.
DocumentLeftPending == DocumentResult /\ UNCHANGED pending

DocumentEnds == DocumentResult /\ pending' = FALSE

IppTypeOK ==
  /\ jobId \in Nat /\ jobState \in JobStates
  /\ pending \in BOOLEAN /\ processing \in BOOLEAN /\ inDocument \in BOOLEAN
  /\ blocks \in 0..MaxBlocks /\ reqs \in 0..MaxRequests
=============================================================================
