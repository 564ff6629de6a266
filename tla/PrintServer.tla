---------------------------- MODULE PrintServer ----------------------------
(***************************************************************************)
(* The loop task of HP-print-server.ino with both print servers on it:     *)
(* loop() calls UsbPrinterBackend::poll(), which ends a drain, serves the  *)
(* RAW client and then follows the printer, and IppPcl3Service::poll(),    *)
(* which refreshes the job and serves one request to its end.  The USB     *)
(* client task and the network act between any two of these steps; the     *)
(* RAW server does not run while a document is streamed.                   *)
(***************************************************************************)
EXTENDS RawServer, IppService

VARIABLE at   \* where the loop task is

vars == <<hostVars, be, rawVars, ippVars, at>>

Init == BackendInit /\ RawInit /\ IppInit /\ at = "drain"

-----------------------------------------------------------------------------
Goto(from, to) == at = from /\ at' = to

PollDrain ==
  /\ Goto("drain", "raw")
  /\ be' = Drained(be)
  /\ UNCHANGED <<hostVars, rawVars, ippVars>>

PollRaw ==
  /\ Goto("raw", "switch")
  /\ HandleRaw
  /\ UNCHANGED <<hostVars, ippVars>>

PollSwitch ==
  /\ Goto("switch", "refresh")
  /\ be' = Followed(be)
  /\ UNCHANGED <<hostVars, rawVars, ippVars>>

IppRefresh ==
  /\ Goto("refresh", "accept")
  /\ RefreshJobState
  /\ UNCHANGED <<hostVars, rawVars>>

IppAccept ==
  /\ at = "accept"
  /\ \/ PrintJob(rawClientConnected)
     \/ CreateJob
     \/ SendDocument
     \/ CancelJob
     \/ CloseJob
     \/ NoJobRequest
  /\ at' = IF inDocument' THEN "doc" ELSE "drain"
  /\ UNCHANGED <<hostVars, rawVars>>

IppDocument ==
  /\ at = "doc"
  /\ DocumentBlock \/ DocumentEnds
  /\ at' = IF inDocument' THEN "doc" ELSE "drain"
  /\ UNCHANGED <<hostVars, rawVars>>

LoopStep ==
  \/ PollDrain \/ PollRaw \/ PollSwitch \/ IppRefresh \/ IppAccept \/ IppDocument

-----------------------------------------------------------------------------
UsbTask == HostEvent /\ UNCHANGED <<rawVars, ippVars, at>>

Network == RawClient /\ UNCHANGED <<hostVars, be, ippVars, at>>

DrainAge == DrainAges /\ UNCHANGED <<rawVars, ippVars, at>>

Idle == IdleTimeout /\ UNCHANGED <<hostVars, be, ippVars, at>>

Guard == GuardExpires /\ UNCHANGED <<hostVars, be, ippVars, at>>

Next == LoopStep \/ UsbTask \/ Network \/ DrainAge \/ Idle \/ Guard

Spec == Init /\ [][Next]_vars

\* The loop task is never blocked for good (its watchdog restarts it if it is),
\* and the clock runs.  Nothing is asked of the printer or of the clients.
FairSpec ==
  Spec /\ WF_vars(LoopStep) /\ WF_vars(DrainAge) /\ WF_vars(Idle) /\ WF_vars(Guard)

-----------------------------------------------------------------------------
(***************************************************************************)
(* Properties                                                              *)
(***************************************************************************)

\* Every variable has its type; a job state is one that the header lists, or
\* that of no job.
TypeOK ==
  /\ BackendTypeOK /\ RawTypeOK /\ IppTypeOK
  /\ at \in {"drain", "raw", "switch", "refresh", "accept", "doc"}

\* Between requests, a job that awaits its document is a pending one: Close-Job
\* completes the job on the strength of the flag alone.
PendingAwaits == pending /\ ~inDocument => jobState = Pending

\* A canceled, aborted or completed job stays so until another takes its place,
\* whatever the printer and the clients do.
TerminalStable ==
  [][jobId' = jobId /\ jobState \in Terminal => jobState' = jobState]_vars

\* The bytes of a RAW job and those of an IPP document are never in one USB job.
OneSender == Cardinality(be.senders) <= 1

\* The document of a Print-Job shares its USB job with nobody, whatever RAW clients and
\* the other operations do meanwhile.
PrintJobAlone == "print" \in be.senders => be.senders = {"print"}

\* Once the post-job guard runs, every byte of the job has been flushed, unless two
\* senders share the job: then one may still send under the guard of the other.
TailDrained == be.drain /\ OneSender => ~be.unflushed

InProgress == IF be.state = "PRINTING" THEN 1 ELSE 0

\* A RAW client has sent bytes, and the job that took them has been ended over its head.
RawJobTaken == fd /\ closing = "no" /\ got /\ be.state # "PRINTING"

\* Every job begun is counted at its end, once: as completed or failed, except that a
\* printer which stays de-selected ends it as neither.  A RAW client whose job was taken
\* from it is counted once more when it is aborted; and only a Cancel-Job takes it, or the
\* document of a Send-Document that is being sent or is in the job.
CountedOnce ==
  [][/\ \/ be'.owed - be.owed = InProgress' - InProgress
        \/ RawJobTaken /\ ~fd' /\ be'.owed = be.owed - 1
     /\ RawJobTaken' =>
          \/ RawJobTaken
          \/ at = "accept" /\ jobState' = Canceled
          \/ (inDocument /\ pending) \/ "send" \in be.senders]_vars

\* A job reported as completed was not aborted on its way to the printer.
CompletedIsPrinted == jobState = Completed => ~be.torn

\* A job ends, whatever the printer reports and even if its client disappears.
JobEnds == be.state = "PRINTING" ~> be.state # "PRINTING"

\* An IPP job that is processing reaches another state.
JobResolves == jobState = Processing ~> jobState # Processing

\* A RAW client is let go in the end, and another can be served.
ConnectionEnds == rawClientConnected ~> ~rawClientConnected
=============================================================================
