------------------------------ MODULE BulkOut ------------------------------
(***************************************************************************)
(* The Bulk OUT pipeline of usb_host_manager.cpp: the transfer slots that  *)
(* bulkWriteAll() and waitForBulkOut() share with the USB client task,     *)
(* which runs the completion callbacks, closes a device that is gone, and  *)
(* re-enumerates one whose endpoint is wedged.                             *)
(*                                                                         *)
(* One caller stands for both calls: the writer task is idle when the loop *)
(* task drains the pipeline (UsbStream!FlushDrains).  Chunks are numbered  *)
(* within a job and fill one transfer each, as UsbStream's do.  The fields *)
(* of a slot and the flags of the runtime are read and written a step at a *)
(* time where the other task can come in between.                          *)
(***************************************************************************)
EXTENDS Integers, Sequences, FiniteSets

CONSTANTS
  Depth,      \* USB_BULK_PIPELINE_DEPTH
  MaxRetries, \* retries of bulkWriteAll()
  MaxChunks   \* bound: chunks of one job

\* The code has three slots and three retries.
ASSUME BulkOutAssumption ==
  Depth \in Nat \ {0, 1} /\ MaxRetries \in Nat /\ MaxChunks \in Nat

VARIABLES
  has,        \* slots whose transfer and semaphore are allocated
  inFlight, done, good,   \* per slot: inFlight, the done semaphore, a full COMPLETED
  bus,        \* per slot: its transfer is on the "wire", "dead" (halted, its
              \* device gone) and yet to be called back, or "none"
  next, bulkOutWedged, resetRequested,
  plugged,    \* a printer is on the port
  open,       \* deviceOpen and printInterfaceClaimed
  ready,      \* device_.printer.usableForRawPrint()
  cpc, cslot, cok,  \* the client task; the slot it calls back for, its result
  pc, slot, back, retries,              \* the caller, and what its wait returns to
  chunk, outcome,                       \* the job: chunks offered, how it ended
  submitted, ours, lost, renewed        \* history of this job, see JobInit

slots    == <<has, inFlight, done, good, bus>>
flags    == <<next, bulkOutWedged, resetRequested>>
device   == <<plugged, open, ready>>
client   == <<cpc, cslot, cok>>
call     == <<pc, slot, back, retries>>
history  == <<submitted, ours, lost, renewed>>
job      == <<chunk, outcome, history>>
vars     == <<slots, flags, device, client, call, job>>

Slots == 0..(Depth - 1)

None == [s \in Slots |-> FALSE]

\* submitted: the chunks handed to the driver; ours: the slots that carry one
\* still; lost: the driver called one back as not transmitted; renewed: the
\* device was published again since the pipeline was last quiet between jobs.
JobInit ==
  /\ chunk = 0 /\ outcome = "none"
  /\ submitted = <<>> /\ ours = {} /\ lost = FALSE /\ renewed = FALSE

Init ==
  /\ has = {} /\ inFlight = None /\ done = None /\ good = None
  /\ bus = [s \in Slots |-> "none"]
  /\ next = 0 /\ bulkOutWedged = FALSE /\ resetRequested = FALSE
  /\ plugged = TRUE /\ open = TRUE /\ ready = TRUE
  /\ cpc = "events" /\ cslot = 0 /\ cok = FALSE
  /\ pc = "idle" /\ slot = 0 /\ back = "arm" /\ retries = 0
  /\ JobInit

-----------------------------------------------------------------------------
(***************************************************************************)
(* Calls                                                                   *)
(***************************************************************************)

\* No transfer waits for its callback.
Quiet == cpc # "callback" /\ \A s \in Slots : bus[s] = "none"

\* UsbStream::reset() after a job that ended.
NewJob ==
  /\ pc = "idle" /\ outcome # "none"
  /\ chunk' = 0 /\ outcome' = "none"
  /\ submitted' = <<>> /\ ours' = {} /\ lost' = FALSE
  /\ renewed' = (renewed /\ ~Quiet)
  /\ UNCHANGED <<slots, flags, device, client, call>>

CallWrite ==
  /\ pc = "idle" /\ outcome = "none" /\ chunk < MaxChunks
  /\ chunk' = chunk + 1
  /\ pc' = "check" /\ retries' = 0
  /\ UNCHANGED <<slots, flags, device, client, slot, back, outcome, history>>

CallDrain ==
  /\ pc = "idle" /\ outcome = "none"
  /\ pc' = "drain_check"
  /\ UNCHANGED <<slots, flags, device, client, slot, back, retries, job>>

Rests == pc' = "idle" /\ slot' = 0 /\ back' = "arm" /\ retries' = 0

Drained == Rests /\ outcome' = "drained" /\ UNCHANGED <<chunk, history>>

\* The stream gives the job up; its history says nothing more.
Failed ==
  /\ Rests /\ outcome' = "failed"
  /\ chunk' = 0 /\ submitted' = <<>> /\ ours' = {} /\ lost' = FALSE
  /\ UNCHANGED renewed

\* Variant: a chunk that cannot be written is passed over.
RetryGoesOn ==
  IF retries < MaxRetries
  THEN /\ retries' = retries + 1 /\ pc' = "check"
       /\ slot' = 0 /\ back' = "arm"
       /\ UNCHANGED job
  ELSE Rests /\ UNCHANGED job

\* bulkWriteAll() after a false result of bulkWrite().
Retry ==
  IF retries < MaxRetries
  THEN /\ retries' = retries + 1 /\ pc' = "check"
       /\ slot' = 0 /\ back' = "arm"
       /\ UNCHANGED job
  ELSE Failed

\* assert() fails, or a semaphore that was deleted is used: the system restarts.
Panics == pc' = "panic" /\ UNCHANGED <<slots, slot, back, retries, job>>

\* ensureBulkOutResources() when it succeeds.
Ensure ==
  /\ has' = Slots
  /\ done' = [s \in Slots |-> s \in has /\ done[s]]
  /\ UNCHANGED <<inFlight, good, bus>>

-----------------------------------------------------------------------------
(***************************************************************************)
(* bulkWrite()                                                             *)
(***************************************************************************)
WriteCheck ==
  /\ pc = "check"
  /\ \/ /\ open /\ ready /\ ~bulkOutWedged
        /\ Ensure
        /\ pc' = "reap"
        /\ UNCHANGED <<slot, back, retries, job>>
     \/ /\ ~open \/ ~ready \/ bulkOutWedged \/ has # Slots
        /\ Retry
        /\ UNCHANGED slots
  /\ UNCHANGED <<flags, device, client>>

Previous == (next + Depth - 1) % Depth

\* Variant: the previous transfer is left to itself.
ReapSkipped ==
  /\ pc = "reap"
  /\ pc' = "arm"
  /\ UNCHANGED <<slots, flags, device, client, slot, back, retries, job>>

\* The previous transfer is waited for before the next one is submitted.
Reap ==
  /\ pc = "reap"
  /\ IF inFlight[Previous] THEN slot' = Previous /\ pc' = "take"
     ELSE pc' = "arm" /\ UNCHANGED slot
  /\ UNCHANGED <<slots, flags, device, client, back, retries, job>>

Arm ==
  /\ pc = "arm"
  /\ IF next \in has /\ ~inFlight[next]
     THEN /\ done' = [done EXCEPT ![next] = FALSE]
          /\ good' = [good EXCEPT ![next] = FALSE]
          /\ pc' = "submit"
          /\ UNCHANGED <<has, inFlight, bus, slot, back, retries, job>>
     ELSE Panics
  /\ UNCHANGED <<flags, device, client>>

\* The driver takes the transfer, if it is free and the device is there.
SubmitOk ==
  /\ pc = "submit"
  /\ open /\ plugged /\ next \in has /\ bus[next] = "none"
  /\ bus' = [bus EXCEPT ![next] = "wire"]
  /\ submitted' = Append(submitted, chunk)
  /\ ours' = ours \cup {next}
  /\ pc' = "mark"
  /\ UNCHANGED <<has, inFlight, done, good, flags, device, client, slot, back, retries,
                 chunk, outcome, lost, renewed>>

SubmitFails ==
  /\ pc = "submit"
  /\ Retry
  /\ UNCHANGED <<slots, flags, device, client>>

\* Variant: the next slot is past the last one.
MarkUnwrapped ==
  /\ pc = "mark"
  /\ inFlight' = [inFlight EXCEPT ![next] = TRUE]
  /\ next' = next + 1
  /\ Rests
  /\ UNCHANGED <<has, done, good, bus, bulkOutWedged, resetRequested, device, client, job>>

\* inFlight is raised only now: the callback may have come and gone.
Mark ==
  /\ pc = "mark"
  /\ inFlight' = [inFlight EXCEPT ![next] = TRUE]
  /\ next' = (next + 1) % Depth
  /\ Rests
  /\ UNCHANGED <<has, done, good, bus, bulkOutWedged, resetRequested, device, client, job>>

-----------------------------------------------------------------------------
(***************************************************************************)
(* waitForBulkOut()                                                        *)
(***************************************************************************)
DrainCheck ==
  /\ pc = "drain_check"
  /\ \/ /\ ~bulkOutWedged
        /\ Ensure
        /\ pc' = "drain" /\ slot' = 0 /\ back' = "drain"
        /\ UNCHANGED <<retries, job>>
     \/ /\ bulkOutWedged \/ has # Slots
        /\ Failed
        /\ UNCHANGED slots
  /\ UNCHANGED <<flags, device, client>>

\* Variant: the last slot is not looked at.
DrainLeavesLast ==
  /\ pc = "drain"
  /\ IF slot >= Depth - 1 THEN Drained
     ELSE /\ IF inFlight[slot] THEN pc' = "take" /\ UNCHANGED slot
             ELSE slot' = slot + 1 /\ UNCHANGED pc
          /\ UNCHANGED <<back, retries, job>>
  /\ UNCHANGED <<slots, flags, device, client>>

Drain ==
  /\ pc = "drain"
  /\ IF slot = Depth THEN Drained
     ELSE /\ IF inFlight[slot] THEN pc' = "take" /\ UNCHANGED slot
             ELSE slot' = slot + 1 /\ UNCHANGED pc
          /\ UNCHANGED <<back, retries, job>>
  /\ UNCHANGED <<slots, flags, device, client>>

-----------------------------------------------------------------------------
(***************************************************************************)
(* waitSlotDone()                                                          *)
(***************************************************************************)

\* halt and flush: what is on the wire is cut off.
Halt == bus' = [bus EXCEPT ![slot] = IF @ = "wire" THEN "dead" ELSE @]

WaitTakes ==
  /\ pc = "take"
  /\ IF slot \notin has THEN Panics
     ELSE /\ done[slot]
          /\ done' = [done EXCEPT ![slot] = FALSE]
          /\ pc' = "judge"
          /\ UNCHANGED <<has, inFlight, good, bus, slot, back, retries, job>>
  /\ UNCHANGED <<flags, device, client>>

WaitExpires ==
  /\ pc = "take" /\ slot \in has /\ ~done[slot]
  /\ Halt
  /\ pc' = "recover"
  /\ UNCHANGED <<has, inFlight, done, good, flags, device, client, slot, back, retries, job>>

RecoverTakes ==
  /\ pc = "recover"
  /\ IF slot \notin has THEN Panics
     ELSE /\ done[slot]
          /\ done' = [done EXCEPT ![slot] = FALSE]
          /\ pc' = "wait_failed"
          /\ UNCHANGED <<has, inFlight, good, bus, slot, back, retries, job>>
  /\ UNCHANGED <<flags, device, client>>

RecoverExpires ==
  /\ pc = "recover" /\ slot \in has /\ ~done[slot]
  /\ pc' = "wedge"
  /\ UNCHANGED <<slots, flags, device, client, slot, back, retries, job>>

\* A transfer freed in the meantime may read as complete or not.
Judge ==
  /\ pc = "judge"
  /\ \/ /\ good[slot]
        /\ pc' = back
        /\ slot' = IF back = "drain" THEN slot + 1 ELSE 0
        /\ UNCHANGED bus
     \/ /\ ~good[slot] \/ slot \notin has
        /\ Halt
        /\ pc' = "wedge" /\ UNCHANGED slot
  /\ UNCHANGED <<has, inFlight, done, good, flags, device, client, back, retries, job>>

Wedge ==
  /\ pc = "wedge"
  /\ bulkOutWedged' = TRUE /\ resetRequested' = TRUE
  /\ pc' = "wait_failed"
  /\ UNCHANGED <<slots, next, device, client, slot, back, retries, job>>

\* Both callers give the slot up.  bulkWrite() goes on unless the pipeline is
\* wedged: the chunk that the slot carried is not sent again.
WaitFailed ==
  /\ pc = "wait_failed"
  /\ inFlight' = [inFlight EXCEPT ![slot] = FALSE]
  /\ IF back = "drain" THEN Failed
     ELSE IF bulkOutWedged THEN Retry
     ELSE pc' = "arm" /\ slot' = 0 /\ UNCHANGED <<back, retries, job>>
  /\ UNCHANGED <<has, done, good, bus, flags, device, client>>

-----------------------------------------------------------------------------
(***************************************************************************)
(* The client task                                                         *)
(***************************************************************************)
ClientGoes(from, to) == cpc = from /\ cpc' = to

\* bulkTransferCallback(): first inFlight, then the result and the semaphore.
CallbackClears ==
  /\ cpc = "events"
  /\ \E s \in Slots, ok \in BOOLEAN :
       /\ bus[s] # "none" /\ (ok => bus[s] = "wire")
       /\ inFlight' = [inFlight EXCEPT ![s] = FALSE]
       /\ bus' = [bus EXCEPT ![s] = "none"]
       /\ cslot' = s /\ cok' = ok
       /\ ours' = ours \ {s}
       /\ lost' = (lost \/ (s \in ours /\ ~ok))
  /\ cpc' = "callback"
  /\ UNCHANGED <<has, done, good, flags, device, call, chunk, outcome, submitted, renewed>>

CallbackGives ==
  /\ ClientGoes("callback", "events")
  /\ good' = [good EXCEPT ![cslot] = cok]
  /\ done' = [done EXCEPT ![cslot] = cslot \in has]
  /\ cslot' = 0 /\ cok' = FALSE
  /\ UNCHANGED <<has, inFlight, bus, flags, device, call, job>>

\* closeDevice() and onDetached(): transfers in flight keep their slots.
CloseDevice ==
  /\ open' = FALSE /\ ready' = FALSE
  /\ has' = {s \in has : inFlight[s]}
  /\ done' = [s \in Slots |-> done[s] /\ inFlight[s]]
  /\ bus' = [s \in Slots |-> IF bus[s] = "wire" THEN "dead" ELSE bus[s]]
  /\ UNCHANGED <<inFlight, good, plugged>>

\* The callbacks that were due have run; the device may be found gone.
Gone ==
  /\ ClientGoes("events", "reset")
  /\ \/ open /\ ~plugged /\ CloseDevice
     \/ UNCHANGED <<slots, device>>
  /\ UNCHANGED <<flags, cslot, cok, call, job>>

\* A request is taken before the device is closed.
ResetTaken ==
  /\ \/ ClientGoes("reset", "reset_clear") /\ resetRequested /\ CloseDevice
     \/ ClientGoes("reset", "new") /\ ~resetRequested /\ UNCHANGED <<slots, device>>
  /\ resetRequested' = FALSE
  /\ UNCHANGED <<next, bulkOutWedged, cslot, cok, call, job>>

\* clearBulkOutInFlight()
ResetClear ==
  /\ ClientGoes("reset_clear", "reset_unwedge")
  /\ inFlight' = None
  /\ UNCHANGED <<has, done, good, bus, flags, device, cslot, cok, call, job>>

ResetUnwedge ==
  /\ ClientGoes("reset_unwedge", "new")
  /\ bulkOutWedged' = FALSE
  /\ UNCHANGED <<slots, next, resetRequested, device, cslot, cok, call, job>>

\* Variant: the request is withdrawn when the reset is over.
NewClearsRequest ==
  /\ resetRequested' = FALSE
  /\ \/ ClientGoes("new", "events") /\ UNCHANGED <<slots, device>>
     \/ ClientGoes("new", "events") /\ ~open /\ plugged /\ CloseDevice
     \/ /\ ClientGoes("new", "publish") /\ ~open /\ plugged
        /\ open' = TRUE
        /\ UNCHANGED <<slots, plugged, ready>>
  /\ UNCHANGED <<next, bulkOutWedged, cslot, cok, call, job>>

\* scanExisting(), or a device that announces itself, or nothing to be found;
\* an enumeration that fails closes the device again.
New ==
  /\ \/ ClientGoes("new", "events") /\ UNCHANGED <<slots, device>>
     \/ ClientGoes("new", "events") /\ ~open /\ plugged /\ CloseDevice
     \/ /\ ClientGoes("new", "publish") /\ ~open /\ plugged
        /\ open' = TRUE
        /\ UNCHANGED <<slots, plugged, ready>>
  /\ UNCHANGED <<flags, cslot, cok, call, job>>

\* onEnumerated() publishes the device before it clears the pipeline.
Publish ==
  /\ ClientGoes("publish", "publish_clear")
  /\ ready' = TRUE
  /\ UNCHANGED <<slots, flags, plugged, open, cslot, cok, call, job>>

PublishClear ==
  /\ ClientGoes("publish_clear", "publish_unwedge")
  /\ inFlight' = None
  /\ renewed' = TRUE
  /\ UNCHANGED <<has, done, good, bus, flags, device, cslot, cok, call,
                 chunk, outcome, submitted, ours, lost>>

PublishUnwedge ==
  /\ ClientGoes("publish_unwedge", "events")
  /\ bulkOutWedged' = FALSE
  /\ UNCHANGED <<slots, next, resetRequested, device, cslot, cok, call, job>>

-----------------------------------------------------------------------------
\* The port is powered again once a device that left it was closed.
Plug ==
  /\ ~plugged /\ ~open
  /\ plugged' = TRUE
  /\ UNCHANGED <<slots, flags, open, ready, client, call, job>>

Unplug ==
  /\ plugged
  /\ plugged' = FALSE
  /\ bus' = [s \in Slots |-> IF bus[s] = "wire" THEN "dead" ELSE bus[s]]
  /\ UNCHANGED <<has, inFlight, done, good, flags, open, ready, client, call, job>>

Calls == NewJob \/ CallWrite \/ CallDrain

CallStep ==
  \/ WriteCheck \/ Reap \/ Arm \/ SubmitOk \/ SubmitFails \/ Mark
  \/ DrainCheck \/ Drain
  \/ WaitTakes \/ WaitExpires \/ RecoverTakes \/ RecoverExpires
  \/ Judge \/ Wedge \/ WaitFailed

ClientStep ==
  \/ CallbackClears \/ CallbackGives \/ Gone \/ ResetTaken \/ ResetClear \/ ResetUnwedge
  \/ New \/ Publish \/ PublishClear \/ PublishUnwedge

Next == Calls \/ CallStep \/ ClientStep \/ Plug \/ Unplug

Spec == Init /\ [][Next]_vars

\* Both tasks are scheduled, and every wait of the caller has a timeout.  Nothing
\* is asked of the printer: a transfer may stay on the wire for ever.
FairSpec == Spec /\ WF_vars(CallStep) /\ WF_vars(ClientStep)

-----------------------------------------------------------------------------
ClientPcs == {"events", "callback", "reset", "reset_clear", "reset_unwedge", "new", "publish", "publish_clear", "publish_unwedge"}

CallPcs == {"check", "reap", "arm", "submit", "mark", "drain_check", "drain",
            "take", "recover", "judge", "wedge", "wait_failed"}

SlotTypes ==
  /\ has \subseteq Slots
  /\ inFlight \in [Slots -> BOOLEAN] /\ done \in [Slots -> BOOLEAN] /\ good \in [Slots -> BOOLEAN]
  /\ bus \in [Slots -> {"none", "wire", "dead"}]

FlagTypes ==
  /\ next \in Slots /\ bulkOutWedged \in BOOLEAN /\ resetRequested \in BOOLEAN
  /\ plugged \in BOOLEAN /\ open \in BOOLEAN /\ ready \in BOOLEAN

TaskTypes ==
  /\ cpc \in ClientPcs /\ cslot \in Slots /\ cok \in BOOLEAN
  /\ pc \in CallPcs \cup {"idle", "panic"} /\ slot \in 0..Depth
  /\ back \in {"arm", "drain"} /\ retries \in 0..MaxRetries

JobTypes ==
  /\ chunk \in Nat /\ outcome \in {"none", "drained", "failed"}
  /\ submitted \in Seq(Nat) /\ ours \subseteq Slots
  /\ lost \in BOOLEAN /\ renewed \in BOOLEAN

\* Every variable has its type; the slot that comes next is one of the array.
TypeOK == SlotTypes /\ FlagTypes /\ TaskTypes /\ JobTypes

\* The driver is given every chunk once and in order, however often bulkWriteAll()
\* tries again and whatever becomes of the device: when a write has returned TRUE
\* its chunk was the last one submitted (usb_host_manager.h:28-30).
SubmittedOnce ==
  /\ \A i \in 1..Len(submitted) : submitted[i] = i
  /\ pc = "idle" /\ outcome = "none" => Len(submitted) = chunk

\* A drain that succeeds leaves nothing of the job on the wire, unless the device
\* was published again meanwhile: onEnumerated() clears inFlight of a transfer that
\* was submitted a moment before.
DrainedBus ==
  outcome = "drained" /\ ~renewed => \A s \in ours : bus[s] # "wire"

\* No two transfers of a job are on the wire at once, so a chunk whose predecessor
\* is called back as failed was not sent before that was known.  This is what the code
\* does, not what it is documented to do: see ReapsAfterSubmit, which it violates.
OneOnWire ==
  ~renewed => Cardinality({s \in ours : bus[s] = "wire"}) <= 1

\* What bulkWrite() says of a submission ("bytes handed to the USB host driver are
\* transmitted"), at the moment when flush() reports the job complete: no chunk of
\* it was called back as failed.
AcceptedIsTransmitted == outcome = "drained" => ~lost

\* What the comment in bulkWrite() says of its wait ("Reap the previous in-flight
\* transfer here, AFTER submitting the next one, so multiple chunks are always in
\* flight"), and the README and config.h after it: while the previous transfer is
\* waited for, the next one is with the driver.  The code waits first.
ReapsAfterSubmit ==
  pc = "take" /\ back = "arm" => \E i \in 1..Len(submitted) : submitted[i] = chunk

\* A wedged pipeline is released: no request for a reset is overlooked.
WedgeHeals == bulkOutWedged ~> ~bulkOutWedged
=============================================================================
