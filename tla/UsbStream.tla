----------------------------- MODULE UsbStream -----------------------------
(***************************************************************************)
(* The staging ring between the Arduino loop task and the USB writer task  *)
(* (usb_stream.cpp), together with the calls its only producer makes       *)
(* (UsbPrinterBackend::sendDirect, finishRawJob and abortRawJob).          *)
(*                                                                         *)
(* Two tasks run on two cores and share head_, tail_, used_, busy_,        *)
(* failed_ and the ring; wake_ is a binary semaphore.  Every access to the *)
(* shared fields that the code makes outside one critical section is a     *)
(* step of its own: both memcpy calls, the reads of failed_, used_ and     *)
(* busy_ in flush(), the two stores that end a failed transfer in run().   *)
(*                                                                         *)
(* A byte is the pair <<job, position in the job's document>>, so loss,    *)
(* duplication, reordering and bytes of another job are all visible.  What *)
(* the USB host does with a chunk is one step, Write or WriteFails;        *)
(* error texts, logging and the watchdog resets are left out.              *)
(***************************************************************************)
EXTENDS Integers, Sequences

CONSTANTS
  Capacity,   \* capacity_, USB_STREAM_BUFFER_SIZE
  Chunk,      \* STREAM_CHUNK, BULK_OUT_CHUNK_SIZE
  MaxPush,    \* largest length given to push(), IPP_BODY_BUFFER_SIZE
  Word,       \* modulus of size_t arithmetic
  MaxDoc,     \* bound: bytes of one job's document
  MaxJobs     \* bound: jobs started

\* config.h gives 64 KB to the ring and to the IPP body buffer, 16 KB to a
\* chunk; size_t holds the sums the code forms without wrapping.
ASSUME StreamAssumption ==
  /\ Capacity \in Nat \ {0}
  /\ Chunk \in 1..Capacity
  /\ MaxPush \in 1..Capacity
  /\ Word \in Nat /\ Word > 2 * Capacity
  /\ MaxDoc \in Nat
  /\ MaxJobs \in Nat

VARIABLES
  ring, head, tail, used, wake, busy, failed,   \* fields of UsbStream
  ppc, len, off, phead, pspace, tries,          \* the loop task
  job, doc, verdict,                            \* the job it is sending
  wpc, wtail, wavail, staging,                  \* the writer task
  sent                                          \* bytes of this job the USB host took

shared   == <<ring, head, tail, used, wake, busy, failed>>
locals   == <<len, off, phead, pspace, tries>>
jobVars  == <<job, doc, verdict>>
writer   == <<wpc, wtail, wavail, staging, sent>>
producer == <<ppc, locals, jobVars>>
vars     == <<shared, producer, writer>>

Cells == 0..(Capacity - 1)
Byte  == Nat \X Nat

\* Distance from ring index a forward to ring index c.
Dist(a, c) == (c - a + Capacity) % Capacity

Least(a, b) == IF a <= b THEN a ELSE b

\* Variant: the index is not brought back into the ring.
ForwardUnwrapped(i, n) == i + n

\* Ring index i moved n bytes on.
Forward(i, n) == (i + n) % Capacity

\* Variants: a ring that keeps one cell empty, and one that counts a cell too many.
FreeSpaceLessOne == (Capacity - 1 - used) % Word
FreeSpacePlusOne == (Capacity + 1 - used) % Word

FreeSpace == (Capacity - used) % Word

Init ==
  /\ ring = [c \in Cells |-> <<0, 0>>]
  /\ head = 0 /\ tail = 0 /\ used = 0
  /\ wake = FALSE /\ busy = FALSE /\ failed = FALSE
  /\ ppc = "idle" /\ len = 0 /\ off = 0 /\ phead = 0 /\ pspace = 0 /\ tries = 0
  /\ job = 0 /\ doc = 0 /\ verdict = "none"
  /\ wpc = "top" /\ wtail = 0 /\ wavail = 0 /\ staging = <<>>
  /\ sent = <<>>

-----------------------------------------------------------------------------
(***************************************************************************)
(* The loop task: sendDirect() and the push() it calls                     *)
(***************************************************************************)

\* sendDirect() of a job's first block: the backend is IDLE, reset() runs first.
StartJob(n) ==
  /\ ppc = "idle"
  /\ job < MaxJobs /\ n <= MaxDoc
  /\ verdict' = "none"
  /\ len' = n /\ off' = 0 /\ tries' = 0
  /\ ppc' = "reset_wait"
  /\ UNCHANGED <<shared, phead, pspace, job, doc, writer>>

\* sendDirect() of a later block: the backend is PRINTING.
NextBlock(n) ==
  /\ ppc = "job"
  /\ doc + n <= MaxDoc
  /\ len' = n /\ off' = 0 /\ tries' = 0
  /\ ppc' = "push_check"
  /\ UNCHANGED <<shared, phead, pspace, jobVars, writer>>

\* reset() polls busy_ until it reads FALSE ...
ResetSawIdle ==
  /\ ppc = "reset_wait" /\ ~busy
  /\ ppc' = "reset_zero"
  /\ UNCHANGED <<shared, locals, jobVars, writer>>

\* ... or until RESET_BUSY_WAIT_MS have passed.
ResetGaveUp ==
  /\ ppc = "reset_wait" /\ busy
  /\ ppc' = "reset_zero"
  /\ UNCHANGED <<shared, locals, jobVars, writer>>

\* The critical section of reset(): here the new job's bytes begin.
ResetZero ==
  /\ ppc = "reset_zero"
  /\ head' = 0 /\ tail' = 0 /\ used' = 0
  /\ job' = job + 1 /\ doc' = 0 /\ sent' = <<>>
  /\ ppc' = "reset_clear"
  /\ UNCHANGED <<ring, wake, busy, failed, locals, verdict, wpc, wtail, wavail, staging>>

ResetClear ==
  /\ ppc = "reset_clear"
  /\ failed' = FALSE
  /\ ppc' = "reset_give"
  /\ UNCHANGED <<ring, head, tail, used, wake, busy, locals, jobVars, writer>>

ResetGive ==
  /\ ppc = "reset_give"
  /\ wake' = TRUE
  /\ ppc' = "push_check"
  /\ UNCHANGED <<ring, head, tail, used, busy, failed, locals, jobVars, writer>>

\* What sendDirect() does when push() returns false: it pushes the whole block
\* again, three times in all, and then aborts the job.
PushReturnsFalse ==
  IF tries < 2
  THEN /\ tries' = tries + 1 /\ off' = 0
       /\ ppc' = "push_check"
       /\ UNCHANGED <<len, phead, pspace, jobVars>>
  ELSE /\ ppc' = "idle" /\ verdict' = "aborted"
       /\ len' = 0 /\ off' = 0 /\ phead' = 0 /\ pspace' = 0 /\ tries' = 0
       /\ UNCHANGED <<job, doc>>

PushCheck ==
  /\ ppc = "push_check"
  /\ IF failed THEN PushReturnsFalse
     ELSE /\ ppc' = "push_space"
          /\ UNCHANGED <<locals, jobVars>>
  /\ UNCHANGED <<shared, writer>>

\* First critical section of push(): head and free space.
PushSpace ==
  /\ ppc = "push_space"
  /\ phead' = head
  /\ pspace' = FreeSpace
  /\ ppc' = IF pspace' = 0 THEN "push_full" ELSE "push_copy"
  /\ UNCHANGED <<shared, len, off, tries, jobVars, writer>>

\* The ring is full: delay(1) and look again.
PushWaits ==
  /\ ppc = "push_full"
  /\ ppc' = "push_check"
  /\ UNCHANGED <<shared, locals, jobVars, writer>>

\* The ring stayed full for USB_STREAM_PUSH_TIMEOUT_MS; what was published of
\* the block stays in the ring.
PushTimeout ==
  /\ ppc = "push_full"
  /\ PushReturnsFalse
  /\ UNCHANGED <<shared, writer>>

PushN == Least(pspace, len - off)

\* Variant: the second memcpy, of the part that wraps, is missing.
PushCopyFirstPart ==
  /\ ppc = "push_copy"
  /\ ring' = [c \in Cells |->
                IF c >= phead /\ Dist(phead, c) < PushN
                THEN <<job, doc + off + 1 + Dist(phead, c)>>
                ELSE ring[c]]
  /\ ppc' = "push_publish"
  /\ UNCHANGED <<head, tail, used, wake, busy, failed, locals, jobVars, writer>>

\* The memcpy into the ring, outside the critical sections.
PushCopy ==
  /\ ppc = "push_copy"
  /\ ring' = [c \in Cells |->
                IF Dist(phead, c) < PushN
                THEN <<job, doc + off + 1 + Dist(phead, c)>>
                ELSE ring[c]]
  /\ ppc' = "push_publish"
  /\ UNCHANGED <<head, tail, used, wake, busy, failed, locals, jobVars, writer>>

\* Second critical section of push().
PushPublish ==
  /\ ppc = "push_publish"
  /\ head' = Forward(phead, PushN)
  /\ used' = (used + PushN) % Word
  /\ off' = off + PushN
  /\ phead' = 0 /\ pspace' = 0
  /\ ppc' = IF off' < len THEN "push_check" ELSE "push_give"
  /\ UNCHANGED <<ring, tail, wake, busy, failed, len, tries, jobVars, writer>>

\* Variant: push() returns without waking the writer.
PushGiveForgotten ==
  /\ ppc = "push_give"
  /\ doc' = doc + len
  /\ len' = 0 /\ off' = 0 /\ tries' = 0
  /\ ppc' = "job"
  /\ UNCHANGED <<shared, phead, pspace, job, verdict, writer>>

\* push() wakes the writer once, after its last byte, and returns true.
PushGive ==
  /\ ppc = "push_give"
  /\ wake' = TRUE
  /\ doc' = doc + len
  /\ len' = 0 /\ off' = 0 /\ tries' = 0
  /\ ppc' = "job"
  /\ UNCHANGED <<ring, head, tail, used, busy, failed, phead, pspace, job, verdict, writer>>

-----------------------------------------------------------------------------
(***************************************************************************)
(* The loop task: finishRawJob(), the flush() it calls, and abortRawJob()  *)
(***************************************************************************)

FinishJob ==
  /\ ppc = "job"
  /\ ppc' = "flush_failed"
  /\ UNCHANGED <<shared, locals, jobVars, writer>>

\* finishRawJob() turns a false result of flush() into an aborted job.
EndJob(outcome) ==
  /\ ppc' = "idle" /\ verdict' = outcome
  /\ UNCHANGED <<shared, locals, job, doc, writer>>

FlushFailed ==
  /\ ppc = "flush_failed"
  /\ IF failed THEN EndJob("aborted")
     ELSE /\ ppc' = "flush_used"
          /\ UNCHANGED <<shared, locals, jobVars, writer>>

\* used_ is read first, busy_ after it; either one sends flush() round again.
FlushUsed ==
  /\ ppc = "flush_used"
  /\ ppc' = IF used = 0 THEN "flush_busy" ELSE "flush_failed"
  /\ UNCHANGED <<shared, locals, jobVars, writer>>

FlushBusy ==
  /\ ppc = "flush_busy"
  /\ ppc' = IF busy THEN "flush_failed" ELSE "flush_usb"
  /\ UNCHANGED <<shared, locals, jobVars, writer>>

\* waitForBulkOut(): the host reports the pipeline drained, or an error.
FlushUsb ==
  /\ ppc = "flush_usb"
  /\ \E outcome \in {"completed", "aborted"} : EndJob(outcome)

FlushTimeout ==
  /\ ppc \in {"flush_used", "flush_busy"}
  /\ IF ppc = "flush_used" THEN used # 0 ELSE busy
  /\ EndJob("aborted")

\* abortRawJob() from outside the stream: the client stalled or reset the
\* connection, the document was truncated, the job was canceled.  The ring
\* and the writer are left as they are.
AbandonJob ==
  /\ ppc = "job"
  /\ EndJob("aborted")

-----------------------------------------------------------------------------
(***************************************************************************)
(* The writer task, run()                                                  *)
(***************************************************************************)

\* Variant: busy_ is not raised before the ring is touched.
WriterTopUnmarked ==
  /\ wpc = "top"
  /\ wpc' = IF failed THEN "sleep" ELSE "look"
  /\ UNCHANGED <<shared, producer, wtail, wavail, staging, sent>>

WriterTop ==
  /\ wpc = "top"
  /\ IF failed THEN wpc' = "sleep" /\ UNCHANGED busy
     ELSE wpc' = "look" /\ busy' = TRUE
  /\ UNCHANGED <<ring, head, tail, used, wake, failed, producer, wtail, wavail, staging, sent>>

\* First critical section of copyOut().
WriterLook ==
  /\ wpc = "look"
  /\ wtail' = tail /\ wavail' = used
  /\ wpc' = IF used = 0 THEN "empty" ELSE "copy"
  /\ UNCHANGED <<shared, producer, staging, sent>>

Taken == Least(wavail, Chunk)

\* The memcpy out of the ring, outside the critical sections.
WriterCopy ==
  /\ wpc = "copy"
  /\ staging' = [i \in 1..Taken |-> ring[Forward(wtail, i - 1)]]
  /\ wpc' = "take"
  /\ UNCHANGED <<shared, producer, wtail, wavail, sent>>

\* Variant: the tail moves by a whole chunk, however little was there.
WriterTakeWholeChunk ==
  /\ wpc = "take"
  /\ tail' = Forward(wtail, Chunk)
  /\ used' = (used - Taken) % Word
  /\ wtail' = 0 /\ wavail' = 0
  /\ wpc' = "write"
  /\ UNCHANGED <<ring, head, wake, busy, failed, producer, staging, sent>>

\* Second critical section of copyOut().
WriterTake ==
  /\ wpc = "take"
  /\ tail' = Forward(wtail, Taken)
  /\ used' = (used - Taken) % Word
  /\ wtail' = 0 /\ wavail' = 0
  /\ wpc' = "write"
  /\ UNCHANGED <<ring, head, wake, busy, failed, producer, staging, sent>>

\* bulkWriteAll() of one chunk succeeds ...
Write ==
  /\ wpc = "write"
  /\ sent' = sent \o staging
  /\ staging' = <<>>
  /\ wpc' = "lower"
  /\ UNCHANGED <<shared, producer, wtail, wavail>>

\* ... or fails, after its retries, with no byte of the chunk accepted.
WriteFails ==
  /\ wpc = "write"
  /\ staging' = <<>>
  /\ wpc' = "lower_failing"
  /\ UNCHANGED <<shared, producer, wtail, wavail, sent>>

\* busy_ is lowered before the result is looked at.
WriterLower ==
  /\ wpc \in {"lower", "lower_failing"}
  /\ busy' = FALSE
  /\ wpc' = IF wpc = "lower" THEN "top" ELSE "fail"
  /\ UNCHANGED <<ring, head, tail, used, wake, failed, producer, wtail, wavail, staging, sent>>

WriterFail ==
  /\ wpc = "fail"
  /\ failed' = TRUE
  /\ wpc' = "top"
  /\ UNCHANGED <<ring, head, tail, used, wake, busy, producer, wtail, wavail, staging, sent>>

\* Variant: the token is cleared on the way to sleep, as if it had to be stale.
WriterEmptyClearsToken ==
  /\ wpc = "empty"
  /\ busy' = FALSE /\ wake' = FALSE
  /\ wtail' = 0 /\ wavail' = 0
  /\ wpc' = "sleep"
  /\ UNCHANGED <<ring, head, tail, used, failed, producer, staging, sent>>

WriterEmpty ==
  /\ wpc = "empty"
  /\ busy' = FALSE
  /\ wtail' = 0 /\ wavail' = 0
  /\ wpc' = "sleep"
  /\ UNCHANGED <<ring, head, tail, used, wake, failed, producer, staging, sent>>

\* xSemaphoreTake(wake_, portMAX_DELAY) returns.
WriterWakes ==
  /\ wpc = "sleep" /\ wake
  /\ wake' = FALSE
  /\ wpc' = "top"
  /\ UNCHANGED <<ring, head, tail, used, busy, failed, producer, wtail, wavail, staging, sent>>

-----------------------------------------------------------------------------
Calls == \/ \E n \in 1..MaxPush : StartJob(n) \/ NextBlock(n)
         \/ FinishJob

\* Steps of a call under way that end without a timeout expiring.
LoopStep ==
  \/ ResetSawIdle \/ ResetZero \/ ResetClear \/ ResetGive
  \/ PushCheck \/ PushSpace \/ PushWaits \/ PushCopy \/ PushPublish \/ PushGive
  \/ FlushFailed \/ FlushUsed \/ FlushBusy \/ FlushUsb

WriterStep ==
  \/ WriterTop \/ WriterLook \/ WriterCopy \/ WriterTake
  \/ Write \/ WriteFails \/ WriterLower \/ WriterFail \/ WriterEmpty \/ WriterWakes

\* The ways in which a job is given up while the writer may still hold its bytes.
GiveUp == ResetGaveUp \/ PushTimeout \/ FlushTimeout \/ AbandonJob

OrderlyNext == Calls \/ LoopStep \/ WriterStep
Next        == OrderlyNext \/ GiveUp

\* Everything the two tasks can do.
Spec == Init /\ [][Next]_vars

\* Jobs that run to their flush or to the writer's own failure; no job is given
\* up with bytes still queued.
OrderlySpec == Init /\ [][OrderlyNext]_vars

\* As OrderlySpec, with pushes that time out and are tried again or given up.
TimeoutSpec == Init /\ [][OrderlyNext \/ PushTimeout]_vars

\* FreeRTOS runs each task: the loop task polls with delay(1) and the writer
\* blocks only on wake_; a USB transfer ends by its own timeout.
FairSpec == OrderlySpec /\ WF_vars(LoopStep) /\ WF_vars(WriterStep)

-----------------------------------------------------------------------------
PushPcs  == {"push_check", "push_space", "push_full", "push_copy", "push_publish", "push_give"}
ResetPcs == {"reset_wait", "reset_zero", "reset_clear", "reset_give"}
FlushPcs == {"flush_failed", "flush_used", "flush_busy", "flush_usb"}
LoopPcs  == {"idle", "job"} \cup ResetPcs \cup PushPcs \cup FlushPcs
WriterPcs == {"top", "look", "copy", "take", "write", "lower", "lower_failing",
              "fail", "empty", "sleep"}

TypeShared ==
  /\ ring \in [Cells -> Byte]
  /\ head \in Cells /\ tail \in Cells /\ used \in 0..(Word - 1)
  /\ wake \in BOOLEAN /\ busy \in BOOLEAN /\ failed \in BOOLEAN

TypeLoop ==
  /\ ppc \in LoopPcs
  /\ len \in 0..MaxPush /\ off \in 0..len
  /\ phead \in Cells /\ pspace \in 0..(Word - 1) /\ tries \in 0..2
  /\ job \in Nat /\ doc \in Nat /\ verdict \in {"none", "completed", "aborted"}

TypeWriter ==
  /\ wpc \in WriterPcs
  /\ wtail \in Cells /\ wavail \in 0..(Word - 1)
  /\ staging \in Seq(Byte) /\ sent \in Seq(Byte)

\* The fields, the two program counters and their locals have their types; the
\* counters stay within size_t and the ring indices within the ring, whatever
\* order the two tasks run in.
TypeOK == TypeShared /\ TypeLoop /\ TypeWriter

\* push() gives wake_ only after its last byte, so a writer that slept while
\* the ring filled up would never be woken.  It cannot happen: when the writer
\* sleeps with no token pending, either the ring is empty or the push under way
\* has room for all that is left of its block, and will reach its give; or a
\* reset() is about to give.  (usb_stream.cpp 94-128 against 157-169.)
NoLostWakeup ==
  wpc = "sleep" /\ ~wake /\ ~failed =>
    \/ used = 0
    \/ ppc \in PushPcs /\ used + (len - off) <= Capacity
    \/ ppc \in {"reset_clear", "reset_give"}

CopyingIn  == IF ppc = "push_copy" THEN {c \in Cells : Dist(phead, c) < PushN} ELSE {}
CopyingOut == IF wpc = "copy" THEN {c \in Cells : Dist(wtail, c) < Taken} ELSE {}

\* Both memcpy calls run outside the critical sections; the cells one of them
\* writes are never cells the other one is reading.
NoDataRace == CopyingIn \cap CopyingOut = {}

\* The bytes the USB host has taken are the job's document from its first byte
\* on: none lost, repeated, swapped or left over from another job.
InOrder == \A i \in 1..Len(sent) : sent[i] = <<job, i>>

\* used_ counts the bytes queued (usb_stream.h:48): it never exceeds the ring and
\* is the distance from the consumer's index to the producer's.
UsedIsBytesQueued == used <= Capacity /\ Forward(tail, used) = head

\* flush() leaves its loop only when the ring is empty and the writer holds no
\* chunk that it has taken from the ring and not yet handed to the USB host.
FlushDrains ==
  ppc = "flush_usb" => used = 0 /\ wpc \notin {"copy", "take", "write"}

\* A push returns, however long the printer keeps the ring full.
PushReturns == ppc \in PushPcs ~> ppc \in {"job", "idle"}

\* A flush returns: the writer is never asleep with bytes left to send.
FlushReturns == ppc \in FlushPcs ~> ppc = "idle"
=============================================================================
