---------------------------- MODULE BulkOutProofs ----------------------------
(***************************************************************************)
(* What the Bulk OUT pipeline keeps for every depth, number of retries and *)
(* length of a job.                                                        *)
(*                                                                         *)
(* Chunks: the program counter of the caller says how many of the job's    *)
(* chunks the driver has been given.                                       *)
(*                                                                         *)
(* The wire: since the pipeline was last quiet no device was published     *)
(* again, so a transfer on the wire is the one submitted last, and the     *)
(* next submission has waited for it.  The wait must not be ended by a     *)
(* semaphore given late, for the transfer that had the slot before: the    *)
(* client task clears inFlight first and gives the semaphore after it.     *)
(***************************************************************************)
EXTENDS BulkOut, FiniteSetTheorems, TLAPS

Waiting == {"take", "recover", "judge", "wedge", "wait_failed"}
Writing == {"check", "reap", "arm", "submit"}

\* What the caller's program counter says of its other locals.
CallInv ==
  /\ pc \in Writing \cup {"idle", "mark", "drain_check"} => back = "arm" /\ slot = 0
  /\ pc = "drain" => back = "drain"
  /\ pc \in Waiting => slot \in Slots
  /\ pc \in Waiting /\ back = "arm" => slot = Previous
  /\ outcome # "none" => pc = "idle"
  /\ bulkOutWedged => pc \in {"idle", "check", "drain_check", "wait_failed", "panic"}

\* The chunks that the driver has been given.
ChunksInv ==
  /\ \A i \in 1..Len(submitted) : submitted[i] = i
  /\ pc \in Writing \/ (pc \in Waiting /\ back = "arm") => Len(submitted) = chunk - 1
  /\ pc \in {"idle", "mark", "drain_check"} \/ (pc # "panic" /\ back = "drain") =>
       Len(submitted) = chunk

\* A transfer is on the wire of a device that is open, and not once its wait has
\* expired.
CutInv ==
  /\ \A s \in Slots : bus[s] = "wire" => open
  /\ cpc \in {"reset_clear", "reset_unwedge"} => ~open
  /\ pc \in {"recover", "wedge", "wait_failed"} => bus[slot] # "wire"

Wire == {s \in Slots : bus[s] = "wire"}

\* What is on the wire is the last transfer submitted.
LastOnWire ==
  /\ pc \in {"arm", "submit"} => Wire = {}
  /\ pc = "mark" => Wire \subseteq {next}
  /\ pc # "mark" => \A s \in Wire : s = Previous /\ inFlight[s]

\* A good result is never that of a transfer on the wire, ...
ResultIsPast ==
  /\ \A s \in Slots : good[s] => bus[s] # "wire"
  /\ cpc = "callback" /\ cok => bus[cslot] # "wire"
  /\ pc = "submit" => ~good[next]

\* ... because the slot of a transfer whose semaphore is yet to be given is not armed.
LateGive ==
  cpc = "callback" /\ cok =>
    /\ pc \in {"arm", "submit"} => cslot # next
    /\ pc \in {"submit", "mark"} /\ cslot # next => ~done[next]
    /\ cslot = next /\ pc # "mark" /\ ~bulkOutWedged =>
         /\ inFlight[Previous] /\ ~done[Previous]
         /\ pc \in {"judge", "wait_failed"} => slot # Previous

\* What the drain has passed is off the wire.
DrainInv ==
  /\ back = "drain" /\ pc # "panic" => \A s \in Slots : s < slot => bus[s] # "wire"
  /\ outcome = "drained" => Wire = {}

WireInv == LastOnWire /\ ResultIsPast /\ LateGive /\ DrainInv

PipelineInv == TypeOK /\ CallInv /\ ChunksInv /\ CutInv /\ (~renewed => WireInv)
-----------------------------------------------------------------------------
\* The slots round the end of the array.
LEMMA SlotsAround ==
  ASSUME next \in Slots
  PROVE  /\ Previous = IF next = 0 THEN Depth - 1 ELSE next - 1
         /\ Previous \in Slots /\ Previous # next
         /\ (next + 1) % Depth = IF next = Depth - 1 THEN 0 ELSE next + 1
         /\ (next + 1) % Depth \in Slots
<1>1. Depth \in Nat /\ Depth > 1 /\ next \in Nat /\ next < Depth
  BY BulkOutAssumption DEF Slots
<1>2. /\ next = 0 => (next + Depth - 1) % Depth = Depth - 1
      /\ next # 0 => (next + Depth - 1) % Depth = next - 1
  BY <1>1
<1>3. (next + 1) % Depth = IF next = Depth - 1 THEN 0 ELSE next + 1
  BY <1>1
<1> QED BY <1>1, <1>2, <1>3 DEF Previous, Slots

LEMMA ZeroSlot == 0 \in Slots /\ Slots \subseteq 0..Depth /\ \A s \in Slots : s + 1 \in 0..Depth
BY BulkOutAssumption DEF Slots

\* The slot before next' is the one that was filled.
LEMMA MarkMoves ==
  ASSUME next \in Slots, next' = (next + 1) % Depth
  PROVE  Previous' = next /\ next' \in Slots /\ next' # next
<1>1. next' \in Slots /\ Depth \in Nat /\ Depth > 1 /\ next \in Nat /\ next < Depth
  BY SlotsAround, BulkOutAssumption DEF Slots
<1>2. Previous' = (next' + Depth - 1) % Depth
  BY DEF Previous
<1>3. next' = IF next = Depth - 1 THEN 0 ELSE next + 1
  BY SlotsAround
<1>4. /\ next' = 0 => (next' + Depth - 1) % Depth = Depth - 1
      /\ next' # 0 => (next' + Depth - 1) % Depth = next' - 1
  BY <1>1, <1>3
<1> QED BY <1>1, <1>2, <1>3, <1>4

-----------------------------------------------------------------------------
(***************************************************************************)
(* Types                                                                   *)
(***************************************************************************)
LEMMA InitTypes == Init => TypeOK
<1> SUFFICES ASSUME Init PROVE TypeOK
  OBVIOUS
<1>1. SlotTypes
  BY DEF Init, None, SlotTypes
<1>2. FlagTypes
  BY ZeroSlot DEF Init, FlagTypes
<1>3. TaskTypes
  <2>1. /\ cpc = "events" /\ cslot = 0 /\ cok = FALSE
        /\ pc = "idle" /\ slot = 0 /\ back = "arm" /\ retries = 0
    BY DEF Init
  <2>2. 0 \in Slots /\ 0 \in 0..Depth /\ 0 \in 0..MaxRetries
    BY BulkOutAssumption, ZeroSlot
  <2> QED BY <2>1, <2>2 DEF TaskTypes, ClientPcs
<1>4. JobTypes
  <2>1. /\ chunk = 0 /\ outcome = "none" /\ submitted = <<>> /\ ours = {}
        /\ lost = FALSE /\ renewed = FALSE
    BY DEF Init, JobInit
  <2>2. <<>> \in Seq(Nat)
    OBVIOUS
  <2> QED BY <2>1, <2>2 DEF JobTypes
<1> QED BY <1>1, <1>2, <1>3, <1>4 DEF TypeOK

LEMMA SlotTypesKept == ASSUME SlotTypes, UNCHANGED slots PROVE SlotTypes'
BY DEF SlotTypes, slots

LEMMA FlagTypesKept == ASSUME FlagTypes, UNCHANGED <<flags, device>> PROVE FlagTypes'
BY DEF FlagTypes, flags, device

LEMMA JobTypesKept == ASSUME JobTypes, UNCHANGED job PROVE JobTypes'
BY DEF JobTypes, job, history

LEMMA EnsureTypes == ASSUME SlotTypes, Ensure PROVE SlotTypes'
BY DEF SlotTypes, Ensure

LEMMA HaltTypes ==
  ASSUME SlotTypes, Halt, UNCHANGED <<has, inFlight, done, good>>
  PROVE  SlotTypes'
BY DEF SlotTypes, Halt

LEMMA CloseTypes == ASSUME SlotTypes, CloseDevice PROVE SlotTypes'
BY DEF SlotTypes, CloseDevice

\* The steps of the caller leave the client task alone.
LEMMA CallKeepsClient ==
  ASSUME Calls \/ CallStep
  PROVE  UNCHANGED <<client, device>> /\ renewed' \in {renewed, renewed /\ ~Quiet}
BY DEF Calls, CallStep, Panics, Drained, Failed, Retry, job, history, NewJob, CallWrite,
       CallDrain, WriteCheck, Reap, Arm, SubmitOk, SubmitFails, Mark, DrainCheck, Drain,
       WaitTakes, WaitExpires, RecoverTakes, RecoverExpires, Judge, Wedge, WaitFailed

LEMMA CallSlotTypes ==
  ASSUME TypeOK, Calls \/ CallStep
  PROVE  SlotTypes'
<1>1. CASE Arm \/ SubmitOk \/ Mark \/ WaitTakes \/ RecoverTakes \/ WaitFailed
  BY <1>1 DEF Arm, SubmitOk, Mark, WaitTakes, RecoverTakes, WaitFailed, Panics, TypeOK,
              SlotTypes, FlagTypes, slots
<1>2. CASE WriteCheck \/ DrainCheck
  BY <1>2, EnsureTypes, SlotTypesKept DEF WriteCheck, DrainCheck, TypeOK
<1>3. CASE WaitExpires \/ Judge
  BY <1>3, HaltTypes, SlotTypesKept DEF WaitExpires, Judge, TypeOK, slots
<1>4. CASE \/ NewJob \/ CallWrite \/ CallDrain \/ Reap \/ SubmitFails \/ Drain
           \/ RecoverExpires \/ Wedge
  BY <1>4, SlotTypesKept DEF NewJob, CallWrite, CallDrain, Reap, SubmitFails, Drain,
                             RecoverExpires, Wedge, TypeOK
<1> QED BY <1>1, <1>2, <1>3, <1>4 DEF Calls, CallStep

LEMMA CallFlagTypes ==
  ASSUME TypeOK, Calls \/ CallStep
  PROVE  FlagTypes'
<1>1. CASE Mark
  BY <1>1, SlotsAround DEF Mark, TypeOK, FlagTypes, device
<1>2. CASE Wedge
  BY <1>2 DEF Wedge, TypeOK, FlagTypes, device
<1>3. CASE ~Mark /\ ~Wedge
  <2>1. UNCHANGED <<flags, device>>
    BY <1>3
       DEF Calls, CallStep, NewJob, CallWrite, CallDrain, WriteCheck, Reap, Arm, SubmitOk,
           SubmitFails, DrainCheck, Drain, WaitTakes, WaitExpires, RecoverTakes, RecoverExpires,
           Judge, WaitFailed
  <2> QED BY <2>1, FlagTypesKept DEF TypeOK
<1> QED BY <1>1, <1>2, <1>3

LEMMA CallTaskTypes ==
  ASSUME TypeOK, CallInv, Calls \/ CallStep
  PROVE  TaskTypes'
<1> USE DEF Calls, CallStep, Panics, Retry, Failed, Drained, Rests, call, NewJob, CallWrite,
            CallDrain, WriteCheck, Reap, Arm, SubmitOk, SubmitFails, Mark, DrainCheck, Drain,
            WaitTakes, WaitExpires, RecoverTakes, RecoverExpires, Judge, Wedge, WaitFailed
<1>1. pc' \in CallPcs \cup {"idle", "panic"} /\ back' \in {"arm", "drain"}
  BY DEF CallPcs, TypeOK, TaskTypes
<1>2. slot' \in 0..Depth
  <2>1. /\ slot \in 0..Depth /\ (slot # Depth => slot + 1 \in 0..Depth) /\ 0 \in 0..Depth
        /\ Previous \in 0..Depth /\ (slot \in Slots => slot + 1 \in 0..Depth)
    BY BulkOutAssumption, ZeroSlot, SlotsAround DEF TypeOK, TaskTypes, FlagTypes
  <2>2. pc = "judge" => slot \in Slots
    BY DEF CallInv, Waiting
  <2> QED BY <2>1, <2>2
<1>3. retries' \in 0..MaxRetries
  <2>1. /\ retries \in 0..MaxRetries /\ 0 \in 0..MaxRetries
        /\ retries < MaxRetries => retries + 1 \in 0..MaxRetries
    BY BulkOutAssumption DEF TypeOK, TaskTypes
  <2> QED BY <2>1
<1> QED BY <1>1, <1>2, <1>3, CallKeepsClient DEF TypeOK, TaskTypes, client

LEMMA CallJobTypes ==
  ASSUME TypeOK, Calls \/ CallStep
  PROVE  JobTypes'
<1>1. CASE NewJob \/ Failed
  <2>1. /\ chunk' = 0 /\ outcome' \in {"none", "failed"}
        /\ submitted' = <<>> /\ ours' = {} /\ lost' = FALSE
    BY <1>1 DEF NewJob, Failed
  <2>2. renewed' \in BOOLEAN
    BY CallKeepsClient DEF TypeOK, JobTypes
  <2>3. submitted' \in Seq(Nat)
    BY <2>1
  <2> QED BY <2>1, <2>2, <2>3 DEF JobTypes
<1>2. CASE CallWrite
  BY <1>2 DEF CallWrite, TypeOK, JobTypes, history
<1>3. CASE SubmitOk
  BY <1>3 DEF SubmitOk, TypeOK, JobTypes, FlagTypes
<1>4. CASE Drained
  BY <1>4 DEF Drained, TypeOK, JobTypes, history
<1>5. CASE ~NewJob /\ ~Failed /\ ~CallWrite /\ ~SubmitOk /\ ~Drained
  <2>1. UNCHANGED job
    BY <1>5
       DEF Calls, CallStep, Panics, Retry, CallDrain, WriteCheck, Reap, Arm, SubmitFails, Mark,
           DrainCheck, Drain, WaitTakes, WaitExpires, RecoverTakes, RecoverExpires, Judge,
           Wedge, WaitFailed
  <2> QED BY <2>1, JobTypesKept DEF TypeOK
<1> QED BY <1>1, <1>2, <1>3, <1>4, <1>5

\* The other steps leave the caller alone.
LEMMA ClientKeepsCall ==
  ASSUME ClientStep \/ Plug \/ Unplug \/ UNCHANGED vars
  PROVE  /\ UNCHANGED <<call, next, chunk, outcome, submitted>>
         /\ bulkOutWedged' => bulkOutWedged
BY DEF ClientStep, CallbackClears, CallbackGives, Gone, ResetTaken, ResetClear, ResetUnwedge,
       New, Publish, PublishClear, PublishUnwedge, Plug, Unplug, vars, flags, job, history

LEMMA ClientTypes ==
  ASSUME TypeOK, ClientStep \/ Plug \/ Unplug \/ UNCHANGED vars
  PROVE  TypeOK'
<1> USE DEF ClientStep, CallbackClears, CallbackGives, Gone, ResetTaken, ResetClear,
            ResetUnwedge, New, Publish, PublishClear, PublishUnwedge, Plug, Unplug, vars
<1>1. SlotTypes'
  <2>1. CASE UNCHANGED slots \/ CloseDevice
    BY <2>1, SlotTypesKept, CloseTypes DEF TypeOK
  <2>2. CASE ResetClear \/ PublishClear
    BY <2>2 DEF TypeOK, SlotTypes, None
  <2>3. CASE CallbackClears
    BY <2>3 DEF TypeOK, SlotTypes
  <2>4. CASE CallbackGives
    <3>1. (cslot \in has) \in BOOLEAN /\ cok \in BOOLEAN
      BY DEF TypeOK, TaskTypes
    <3> QED BY <2>4, <3>1 DEF TypeOK, SlotTypes
  <2>5. CASE Unplug
    BY <2>5 DEF TypeOK, SlotTypes
  <2> QED BY <2>1, <2>2, <2>3, <2>4, <2>5
<1>2. FlagTypes'
  BY DEF TypeOK, FlagTypes, flags, device, CloseDevice
<1>3. TaskTypes'
  BY ZeroSlot DEF TypeOK, TaskTypes, ClientPcs, client, call, ClientGoes
<1>4. JobTypes'
  <2>1. ours' \subseteq Slots /\ lost' \in BOOLEAN /\ renewed' \in BOOLEAN
    BY DEF TypeOK, JobTypes, job, history
  <2> QED BY <2>1, ClientKeepsCall DEF TypeOK, JobTypes
<1> QED BY <1>1, <1>2, <1>3, <1>4 DEF TypeOK

-----------------------------------------------------------------------------
(***************************************************************************)
(* The caller and its chunks                                               *)
(***************************************************************************)
LEMMA InitCall == Init => CallInv /\ ChunksInv /\ CutInv
BY DEF Init, JobInit, CallInv, ChunksInv, CutInv, Waiting, Writing

LEMMA CallStepCall ==
  ASSUME TypeOK, CallInv, Calls \/ CallStep
  PROVE  CallInv'
<1> USE DEF Calls, CallStep, Panics, Retry, Failed, Drained, Rests, call, flags, job, Waiting,
            Writing, NewJob, CallWrite, CallDrain, WriteCheck, Reap, Arm, SubmitOk, SubmitFails,
            Mark, DrainCheck, Drain, WaitTakes, WaitExpires, RecoverTakes, RecoverExpires,
            Judge, Wedge, WaitFailed
<1>1. pc' \in Writing \cup {"idle", "mark", "drain_check"} => back' = "arm" /\ slot' = 0
  <2>1. back \in {"arm", "drain"}
    BY DEF TypeOK, TaskTypes
  <2>2. CASE Judge
    BY <2>1, <2>2
  <2>3. CASE ~Judge
    BY <2>1, <2>3 DEF CallInv
  <2> QED BY <2>2, <2>3
<1>2. pc' = "drain" => back' = "drain"
  BY DEF CallInv
<1>3. pc' \in Waiting => slot' \in Slots
  <2>1. Previous \in Slots /\ (slot \in 0..Depth /\ slot # Depth => slot \in Slots)
    BY SlotsAround, BulkOutAssumption DEF TypeOK, FlagTypes, Slots
  <2> QED BY <2>1 DEF CallInv, TypeOK, TaskTypes
<1>4. pc' \in Waiting /\ back' = "arm" => slot' = Previous /\ next' = next
  BY DEF CallInv
<1>5. outcome' # "none" => pc' = "idle"
  BY DEF CallInv
<1>6. bulkOutWedged' => pc' \in {"idle", "check", "drain_check", "wait_failed", "panic"}
  BY DEF CallInv
<1>7. next' = next => Previous' = Previous
  BY DEF Previous
<1> QED BY <1>1, <1>2, <1>3, <1>4, <1>5, <1>6, <1>7 DEF CallInv

LEMMA CallStepChunks ==
  ASSUME TypeOK, CallInv, ChunksInv, Calls \/ CallStep
  PROVE  ChunksInv'
<1> USE DEF Calls, CallStep, Panics, Retry, Failed, Drained, Rests, call, flags, job, history,
            Waiting, Writing, NewJob, CallWrite, CallDrain, WriteCheck, Reap, Arm, SubmitOk,
            SubmitFails, Mark, DrainCheck, Drain, WaitTakes, WaitExpires, RecoverTakes,
            RecoverExpires, Judge, Wedge, WaitFailed
<1>1. \/ submitted' \in {submitted, <<>>}
      \/ pc = "submit" /\ submitted' = Append(submitted, chunk)
  OBVIOUS
<1>2. submitted \in Seq(Nat) /\ Len(submitted) \in Nat /\ chunk \in Nat
  BY DEF TypeOK, JobTypes
<1>3. \A i \in 1..Len(submitted)' : submitted'[i] = i
  <2>1. pc = "submit" => Len(submitted) = chunk - 1
    BY DEF ChunksInv
  <2>2. CASE pc = "submit" /\ submitted' = Append(submitted, chunk)
    <3>1. Len(submitted') = Len(submitted) + 1
      BY <1>2, <2>2
    <3>2. \A i \in 1..Len(submitted) : submitted'[i] = i
      BY <1>2, <2>2 DEF ChunksInv
    <3>3. submitted'[Len(submitted) + 1] = chunk /\ chunk = Len(submitted) + 1
      BY <1>2, <2>1, <2>2
    <3> QED BY <1>2, <3>1, <3>2, <3>3
  <2>3. CASE submitted' \in {submitted, <<>>}
    BY <2>3 DEF ChunksInv
  <2> QED BY <1>1, <2>2, <2>3
<1>4. pc' \in Writing \/ (pc' \in Waiting /\ back' = "arm") => Len(submitted') = chunk' - 1
  <2>1. back \in {"arm", "drain"} /\ Len(<<>>) = 0 /\ pc \in CallPcs \cup {"idle", "panic"}
    BY DEF TypeOK, TaskTypes
  <2>2. CASE CallWrite
    BY <2>2, <1>2 DEF ChunksInv
  <2>3. CASE CallStep /\ Retry
    BY <2>1, <2>3, <1>2 DEF ChunksInv, CallInv
  <2>4. CASE Judge
    BY <2>1, <2>4, <1>2 DEF ChunksInv, CallInv
  <2>5. CASE ~CallWrite /\ ~Retry /\ ~Judge
    BY <2>1, <2>5, <1>2 DEF ChunksInv, CallInv
  <2> QED BY <2>2, <2>3, <2>4, <2>5
<1>5. pc' \in {"idle", "mark", "drain_check"} \/ (pc' # "panic" /\ back' = "drain") =>
       Len(submitted') = chunk'
  BY <1>2 DEF ChunksInv, CallInv, TypeOK, TaskTypes
<1> QED BY <1>3, <1>4, <1>5 DEF ChunksInv

LEMMA CallStepCut ==
  ASSUME TypeOK, CallInv, CutInv, Calls \/ CallStep
  PROVE  CutInv'
<1> USE DEF Calls, CallStep, Panics, Retry, Failed, Drained, Rests, call, flags, device, slots,
            Ensure, Halt, Waiting, Writing, NewJob, CallWrite, CallDrain, WriteCheck, Reap, Arm,
            SubmitOk, SubmitFails, Mark, DrainCheck, Drain, WaitTakes, WaitExpires,
            RecoverTakes, RecoverExpires, Judge, Wedge, WaitFailed
<1>1. \A s \in Slots : bus'[s] = "wire" => bus[s] = "wire" \/ open
  BY DEF TypeOK, SlotTypes
<1>2. open' = open /\ cpc' = cpc
  BY CallKeepsClient DEF client
<1>3. pc' \in {"recover", "wedge", "wait_failed"} => bus'[slot'] # "wire"
  <2>1. CASE WaitExpires \/ Judge
    BY <2>1 DEF CallInv, TypeOK, SlotTypes, TaskTypes
  <2>2. CASE ~WaitExpires /\ ~Judge
    BY <2>2 DEF CutInv
  <2> QED BY <2>1, <2>2
<1> QED BY <1>1, <1>2, <1>3 DEF CutInv

LEMMA ClientStepCall ==
  ASSUME TypeOK, CallInv, ChunksInv, CutInv, ClientStep \/ Plug \/ Unplug \/ UNCHANGED vars
  PROVE  CallInv' /\ ChunksInv' /\ CutInv'
<1>1. CallInv'
  BY ClientKeepsCall DEF CallInv, call, Previous
<1>2. ChunksInv'
  BY ClientKeepsCall DEF ChunksInv, call
<1>3. CutInv'
  <2> USE DEF ClientStep, CallbackClears, CallbackGives, Gone, ResetTaken, ResetClear,
              ResetUnwedge, New, Publish, PublishClear, PublishUnwedge, Plug, Unplug, vars,
              slots, device, client, ClientGoes
  <2>1. \A s \in Slots : bus'[s] = "wire" => bus[s] = "wire" /\ open'
    BY DEF CutInv, CloseDevice, TypeOK, SlotTypes
  <2>2. cpc' \in {"reset_clear", "reset_unwedge"} => ~open'
    BY DEF CutInv, CloseDevice
  <2>3. pc' \in {"recover", "wedge", "wait_failed"} => bus'[slot'] # "wire"
    BY <2>1, ClientKeepsCall DEF CutInv, CallInv, call, Waiting
  <2> QED BY <2>1, <2>2, <2>3 DEF CutInv
<1> QED BY <1>1, <1>2, <1>3
-----------------------------------------------------------------------------
(***************************************************************************)
(* The wire                                                                *)
(***************************************************************************)
LEMMA InitWire == Init => WireInv
BY DEF Init, JobInit, None, WireInv, Wire, LastOnWire, ResultIsPast, LateGive, DrainInv

\* A job that begins when the pipeline is quiet has nothing on the wire.
LEMMA QuietWire ==
  ASSUME TypeOK, CallInv, NewJob, Quiet
  PROVE  WireInv'
<1>1. Wire' = {} /\ pc' = "idle" /\ back' = "arm" /\ cpc' # "callback"
  BY DEF NewJob, Quiet, Wire, CallInv, slots, client, call
<1>2. \A s \in Slots : bus'[s] # "wire"
  BY <1>1 DEF Wire
<1> QED BY <1>1, <1>2 DEF WireInv, LastOnWire, ResultIsPast, LateGive, DrainInv

\* What the caller does to the wire.
LEMMA CallWire ==
  ASSUME TypeOK, CallInv, Calls \/ CallStep
  PROVE  /\ ~SubmitOk => Wire' \subseteq Wire
         /\ SubmitOk => Wire' = Wire \cup {next}
         /\ WaitExpires \/ (Judge /\ pc' = "wedge") => slot \notin Wire'
<1> USE DEF Wire, TypeOK, SlotTypes, FlagTypes
<1>1. CASE SubmitOk
  BY <1>1 DEF SubmitOk, WaitExpires, Judge
<1>2. CASE WaitExpires \/ Judge
  BY <1>2 DEF WaitExpires, Judge, Halt, SubmitOk, CallInv, Waiting, TaskTypes
<1>3. CASE ~SubmitOk /\ ~WaitExpires /\ ~Judge
  <2>1. bus' = bus
    BY <1>3
       DEF Ensure, slots, Calls, CallStep, Panics, Retry, Failed, Drained, Rests, NewJob,
           CallWrite, CallDrain, WriteCheck, Reap, Arm, SubmitOk, SubmitFails, Mark, DrainCheck,
           Drain, WaitTakes, WaitExpires, RecoverTakes, RecoverExpires, Judge, Wedge, WaitFailed
  <2> QED BY <1>3, <2>1
<1> QED BY <1>1, <1>2, <1>3

LEMMA CallStepLast ==
  ASSUME TypeOK, CallInv, CutInv, WireInv, Calls \/ CallStep
  PROVE  LastOnWire'
<1> USE DEF WireInv, LastOnWire
<1>1. CASE Reap
  BY <1>1, CallWire DEF Reap, SubmitOk, slots, flags, Wire, Previous
<1>2. CASE Arm \/ SubmitFails
  BY <1>2, CallWire
     DEF Arm, SubmitFails, SubmitOk, slots, flags, Previous, Panics, Retry, Failed, Rests
<1>3. CASE SubmitOk
  BY <1>3, CallWire DEF SubmitOk, flags
<1>4. CASE Mark
  BY <1>4, CallWire, MarkMoves DEF Mark, SubmitOk, Rests, TypeOK, SlotTypes, FlagTypes
<1>5. CASE Judge
  BY <1>5, CallWire
     DEF Judge, SubmitOk, CallInv, Waiting, flags, Wire, Previous, ResultIsPast, TypeOK,
         TaskTypes
<1>6. CASE WaitFailed
  BY <1>6, CallWire
     DEF WaitFailed, SubmitOk, CallInv, CutInv, Waiting, flags, Wire, Previous, TypeOK,
         SlotTypes, TaskTypes, Failed, Retry, Rests
<1>7. CASE /\ ~Reap /\ ~Arm /\ ~SubmitFails /\ ~SubmitOk /\ ~Mark /\ ~Judge /\ ~WaitFailed
  <2>1. /\ pc' \notin {"arm", "submit", "mark"} /\ pc # "mark"
        /\ inFlight' = inFlight /\ next' = next
    BY <1>7
       DEF Ensure, slots, flags, call, Calls, CallStep, Panics, Retry, Failed, Drained, Rests,
           NewJob, CallWrite, CallDrain, WriteCheck, Reap, Arm, SubmitOk, SubmitFails, Mark,
           DrainCheck, Drain, WaitTakes, WaitExpires, RecoverTakes, RecoverExpires, Judge,
           Wedge, WaitFailed
  <2> QED BY <1>7, <2>1, CallWire DEF Previous
<1> QED BY <1>1, <1>2, <1>3, <1>4, <1>5, <1>6, <1>7

LEMMA CallStepResult ==
  ASSUME TypeOK, CallInv, WireInv, Calls \/ CallStep
  PROVE  ResultIsPast'
<1> USE DEF WireInv, ResultIsPast
<1>0. cpc' = cpc /\ cok' = cok /\ cslot' = cslot
  BY CallKeepsClient DEF client
<1>1. CASE Arm
  BY <1>0, <1>1 DEF Arm, Panics, flags, slots, TypeOK, SlotTypes, FlagTypes
<1>2. CASE SubmitOk
  BY <1>0, <1>2 DEF SubmitOk, LateGive, TypeOK, SlotTypes, FlagTypes
<1>3. CASE ~Arm /\ ~SubmitOk
  <2>1. good' = good /\ pc' # "submit"
    BY <1>3
       DEF TypeOK, TaskTypes, Ensure, slots, call, Calls, CallStep, Panics, Retry, Failed,
           Drained, Rests, NewJob, CallWrite, CallDrain, WriteCheck, Reap, Arm, SubmitOk,
           SubmitFails, Mark, DrainCheck, Drain, WaitTakes, WaitExpires, RecoverTakes,
           RecoverExpires, Judge, Wedge, WaitFailed
  <2> QED BY <1>0, <1>3, <2>1, CallWire DEF Wire, TypeOK, TaskTypes
<1> QED BY <1>1, <1>2, <1>3

LEMMA CallStepDrain ==
  ASSUME TypeOK, CallInv, WireInv, Calls \/ CallStep
  PROVE  DrainInv'
<1> USE DEF WireInv, DrainInv
<1>1. CASE SubmitOk
  BY <1>1 DEF SubmitOk, CallInv, Writing
<1>2. CASE ~SubmitOk
  <2>0. \A s \in Slots : bus'[s] = "wire" => bus[s] = "wire"
    BY <1>2, CallWire DEF Wire
  <2>1. back' = "drain" /\ pc' # "panic" => \A s \in Slots : s < slot' => bus[s] # "wire"
    <3>1. CASE Drain
      <4>1. ~inFlight[slot] => bus[slot] # "wire" \/ slot \notin Slots
        BY <3>1 DEF Drain, LastOnWire, Wire
      <4> QED BY <3>1, <4>1 DEF Drain, Drained, Rests, CallInv, TypeOK, TaskTypes, Slots
    <3>2. CASE Judge
      BY <3>2 DEF Judge, ResultIsPast, CallInv, Waiting, TypeOK, TaskTypes, Slots
    <3>3. CASE DrainCheck
      BY <3>3 DEF DrainCheck, Failed, Rests, Slots
    <3>4. CASE ~Drain /\ ~Judge /\ ~DrainCheck
      <4>1. back' = "drain" => back = "drain" /\ slot' = slot /\ pc # "panic"
        BY <3>4, <1>2
           DEF call, CallInv, Writing, Calls, CallStep, Panics, Retry, Failed, Drained, Rests,
               NewJob, CallWrite, CallDrain, WriteCheck, Reap, Arm, SubmitOk, SubmitFails, Mark,
               DrainCheck, Drain, WaitTakes, WaitExpires, RecoverTakes, RecoverExpires, Judge,
               Wedge, WaitFailed
      <4> QED BY <4>1
    <3> QED BY <3>1, <3>2, <3>3, <3>4
  <2>2. outcome' = "drained" => Wire = {}
    <3>1. CASE Drain
      BY <3>1, BulkOutAssumption DEF Drain, Drained, CallInv, Wire, Slots, Waiting, job
    <3>2. CASE ~Drain
      BY <3>2
         DEF job, CallInv, Calls, CallStep, Panics, Retry, Failed, Drained, Rests, NewJob,
             CallWrite, CallDrain, WriteCheck, Reap, Arm, SubmitOk, SubmitFails, Mark,
             DrainCheck, Drain, WaitTakes, WaitExpires, RecoverTakes, RecoverExpires, Judge,
             Wedge, WaitFailed
    <3> QED BY <3>1, <3>2
  <2> QED BY <1>2, <2>0, <2>1, <2>2, CallWire
<1> QED BY <1>1, <1>2

LEMMA CallStepLate ==
  ASSUME TypeOK, CallInv, WireInv, Calls \/ CallStep, cpc = "callback", cok
  PROVE  LateGive'
<1> USE DEF WireInv
<1>0. /\ cpc' = cpc /\ cok' = cok /\ cslot' = cslot
      /\ next \in Slots /\ Previous \in Slots /\ Previous # next
  BY CallKeepsClient, SlotsAround DEF client, TypeOK, FlagTypes
<1>l. /\ pc \in {"arm", "submit"} => cslot # next
      /\ pc \in {"submit", "mark"} /\ cslot # next => ~done[next]
      /\ cslot = next /\ pc # "mark" /\ ~bulkOutWedged =>
           /\ inFlight[Previous] /\ ~done[Previous]
           /\ pc \in {"judge", "wait_failed"} => slot # Previous
  BY DEF LateGive
<1>1. CASE Mark
  BY <1>0, <1>l, <1>1, MarkMoves DEF Mark, Rests, LateGive, TypeOK, SlotTypes
<1>2. CASE Arm
  BY <1>0, <1>l, <1>2
     DEF Arm, Panics, LateGive, CallInv, Writing, flags, Previous, TypeOK, SlotTypes, slots
<1>3. CASE Reap \/ SubmitOk \/ SubmitFails
  BY <1>0, <1>l, <1>3
     DEF Reap, SubmitOk, SubmitFails, LateGive, CallInv, flags, slots, Previous, Retry, Failed,
         Rests
<1>4. CASE Judge \/ WaitFailed
  BY <1>0, <1>l, <1>4
     DEF Judge, WaitFailed, LateGive, CallInv, flags, Previous, Retry, Failed, Rests, Waiting,
         TypeOK, SlotTypes, TaskTypes
<1>5. CASE WaitTakes \/ RecoverTakes
  BY <1>0, <1>l, <1>5
     DEF WaitTakes, RecoverTakes, LateGive, CallInv, flags, slots, Previous, Panics, Waiting,
         TypeOK, SlotTypes, TaskTypes
<1>6. CASE WriteCheck \/ DrainCheck
  BY <1>0, <1>l, <1>6
     DEF WriteCheck, DrainCheck, LateGive, Ensure, flags, slots, Previous, Retry, Failed, Rests,
         TypeOK, SlotTypes, TaskTypes
<1>7. CASE NewJob \/ CallWrite \/ CallDrain \/ Drain \/ WaitExpires \/ RecoverExpires \/ Wedge
  BY <1>0, <1>l, <1>7
     DEF NewJob, CallWrite, CallDrain, Drain, WaitExpires, RecoverExpires, Wedge, LateGive,
         flags, slots, call, Previous, Drained, Rests
<1> QED BY <1>1, <1>2, <1>3, <1>4, <1>5, <1>6, <1>7 DEF Calls, CallStep
\* A step of the client task takes transfers off the wire only; while the device is
\* not published again it forgets none that is on it.
LEMMA ClientWire ==
  ASSUME TypeOK, CutInv, ~renewed', ClientStep \/ Plug \/ Unplug \/ UNCHANGED vars
  PROVE  /\ ~renewed
         /\ Wire' \subseteq Wire
         /\ \A s \in Wire' : inFlight'[s] = inFlight[s]
<1> USE DEF Wire, TypeOK, SlotTypes, None
<1>1. CASE CallbackClears
  BY <1>1 DEF CallbackClears
<1>2. CASE ResetClear
  BY <1>2 DEF ResetClear, CutInv, ClientGoes, job, history
<1>3. CASE PublishClear
  BY <1>3 DEF PublishClear
<1>4. CASE ~CallbackClears /\ ~ResetClear /\ ~PublishClear
  <2>1. inFlight' = inFlight /\ renewed' = renewed
    BY <1>4
       DEF ClientStep, CallbackClears, CallbackGives, Gone, ResetTaken, ResetClear,
           ResetUnwedge, New, Publish, PublishClear, PublishUnwedge, Plug, Unplug, vars,
           CloseDevice, slots, job, history
  <2>2. \A s \in Slots : bus'[s] = "wire" => bus[s] = "wire"
    BY <1>4
       DEF ClientStep, CallbackClears, CallbackGives, Gone, ResetTaken, ResetClear,
           ResetUnwedge, New, Publish, PublishClear, PublishUnwedge, Plug, Unplug, vars,
           CloseDevice, slots
  <2> QED BY <2>1, <2>2
<1> QED BY <1>1, <1>2, <1>3, <1>4

LEMMA ClientStepWire ==
  ASSUME TypeOK, CallInv, CutInv, WireInv, ~renewed',
         ClientStep \/ Plug \/ Unplug \/ UNCHANGED vars
  PROVE  WireInv'
<1>0. /\ UNCHANGED <<call, next, outcome>> /\ Previous' = Previous
      /\ bulkOutWedged' => bulkOutWedged
  BY ClientKeepsCall DEF Previous
<1>1. LastOnWire'
  BY <1>0, ClientWire DEF WireInv, LastOnWire, call
<1>2. DrainInv'
  BY <1>0, ClientWire DEF WireInv, DrainInv, call, Wire
<1>3. CASE CallbackClears
  <2>1. PICK s \in Slots, ok \in BOOLEAN :
          /\ bus[s] # "none" /\ (ok => bus[s] = "wire")
          /\ inFlight' = [inFlight EXCEPT ![s] = FALSE]
          /\ bus' = [bus EXCEPT ![s] = "none"]
          /\ cslot' = s /\ cok' = ok
    BY <1>3 DEF CallbackClears
  <2>2. good' = good /\ done' = done /\ bus'[s] = "none"
    BY <1>3, <2>1 DEF CallbackClears, TypeOK, SlotTypes
  <2>3. ResultIsPast'
    BY <1>0, <2>1, <2>2, ClientWire DEF WireInv, ResultIsPast, Wire, call
  <2>4. ok => /\ pc \notin {"arm", "submit"}
              /\ pc = "mark" => s = next
              /\ pc # "mark" => s = Previous
    BY <2>1 DEF WireInv, LastOnWire, Wire
  <2>5. LateGive'
    BY <1>0, <2>1, <2>4, SlotsAround DEF LateGive, call, TypeOK, FlagTypes
  <2> QED BY <1>1, <1>2, <2>3, <2>5 DEF WireInv
<1>4. CASE CallbackGives
  <2>1. cok \in BOOLEAN /\ cpc = "callback" /\ cpc' = "events" /\ bus' = bus
    BY <1>4 DEF CallbackGives, TypeOK, TaskTypes, ClientGoes
  <2>2. good' = [good EXCEPT ![cslot] = cok]
    BY <1>4 DEF CallbackGives
  <2>3. \A s \in Slots : good'[s] => good[s] \/ (s = cslot /\ cok)
    BY <2>1, <2>2 DEF TypeOK, SlotTypes
  <2>4. ResultIsPast'
    <3>1. \A s \in Slots : good'[s] => bus'[s] # "wire"
      BY <2>1, <2>3 DEF WireInv, ResultIsPast
    <3>2. pc' = "submit" => ~good'[next']
      BY <1>0, <2>1, <2>3 DEF WireInv, ResultIsPast, LateGive, call, TypeOK, FlagTypes
    <3> QED BY <2>1, <3>1, <3>2 DEF ResultIsPast
  <2>5. LateGive'
    BY <2>1 DEF LateGive
  <2> QED BY <1>1, <1>2, <2>4, <2>5 DEF WireInv
<1>5. CASE ~CallbackClears /\ ~CallbackGives
  <2>1. good' = good /\ cslot' = cslot /\ cok' = cok
    BY <1>5
       DEF ClientStep, CallbackClears, CallbackGives, Gone, ResetTaken, ResetClear,
           ResetUnwedge, New, Publish, PublishClear, PublishUnwedge, Plug, Unplug, vars,
           CloseDevice, slots, client
  <2>2. cpc' = "callback" =>
          cpc = "callback" /\ UNCHANGED <<inFlight, done, bulkOutWedged>>
    BY <1>5
       DEF ClientStep, CallbackClears, CallbackGives, Gone, ResetTaken, ResetClear,
           ResetUnwedge, New, Publish, PublishClear, PublishUnwedge, Plug, Unplug, vars, slots,
           flags, client, ClientGoes
  <2>3. ResultIsPast'
    BY <1>0, <2>1, <2>2, ClientWire DEF WireInv, ResultIsPast, Wire, call, TypeOK, TaskTypes
  <2>4. LateGive'
    BY <1>0, <2>1, <2>2 DEF WireInv, LateGive, call
  <2> QED BY <1>1, <1>2, <2>3, <2>4 DEF WireInv
<1> QED BY <1>3, <1>4, <1>5

-----------------------------------------------------------------------------
LEMMA PipelineStep == PipelineInv /\ [Next]_vars => PipelineInv'
<1> SUFFICES ASSUME PipelineInv, [Next]_vars PROVE PipelineInv'
  OBVIOUS
<1> USE DEF PipelineInv
<1>1. CASE Calls \/ CallStep
  <2>1. TypeOK'
    BY <1>1, CallSlotTypes, CallFlagTypes, CallTaskTypes, CallJobTypes DEF TypeOK
  <2>2. CallInv' /\ ChunksInv' /\ CutInv'
    BY <1>1, CallStepCall, CallStepChunks, CallStepCut
  <2>3. ~renewed /\ ~renewed' => WireInv'
    <3>1. ~renewed => (cpc = "callback" /\ cok => LateGive')
      BY <1>1, CallStepLate
    <3>2. cpc' = cpc /\ cok' = cok
      BY <1>1, CallKeepsClient DEF client
    <3>3. ~(cpc = "callback" /\ cok) => LateGive'
      BY <3>2 DEF LateGive
    <3> QED BY <1>1, <3>1, <3>3, CallStepLast, CallStepResult, CallStepDrain DEF WireInv
  <2>4. renewed /\ ~renewed' => WireInv'
    <3>1. renewed /\ ~renewed' => NewJob /\ Quiet
      BY <1>1
         DEF Calls, CallStep, Panics, Retry, Failed, Drained, job, history, NewJob, CallWrite,
             CallDrain, WriteCheck, Reap, Arm, SubmitOk, SubmitFails, Mark, DrainCheck, Drain,
             WaitTakes, WaitExpires, RecoverTakes, RecoverExpires, Judge, Wedge, WaitFailed
    <3> QED BY <3>1, QuietWire
  <2> QED BY <2>1, <2>2, <2>3, <2>4
<1>2. CASE ClientStep \/ Plug \/ Unplug \/ UNCHANGED vars
  BY <1>2, ClientTypes, ClientStepCall, ClientStepWire, ClientWire
<1> QED BY <1>1, <1>2 DEF Next

LEMMA PipelineAlways == Spec => []PipelineInv
<1>1. Init => PipelineInv
  BY InitTypes, InitCall, InitWire DEF PipelineInv
<1> QED BY <1>1, PipelineStep, PTL DEF Spec

\* The slots, flags and counters of the pipeline have their types, and next_ stays
\* within the array, in whatever order the two tasks run.
THEOREM PipelineTypes == Spec => []TypeOK
BY PipelineAlways, PTL DEF PipelineInv

\* bulkWriteAll(): whatever fails, is tried again or comes and goes, the driver is
\* given each chunk of a job once and in order.
THEOREM EachChunkSubmittedOnce == Spec => []SubmittedOnce
<1>1. PipelineInv => SubmittedOnce
  BY DEF PipelineInv, ChunksInv, SubmittedOnce
<1> QED BY <1>1, PipelineAlways, PTL

\* waitForBulkOut(): when the drain has succeeded, no transfer of the job is on the
\* wire, unless onEnumerated() cleared inFlight behind its back.
THEOREM DrainLeavesNothing == Spec => []DrainedBus
<1>1. PipelineInv => DrainedBus
  BY DEF PipelineInv, WireInv, DrainInv, DrainedBus, Wire, TypeOK, JobTypes
<1> QED BY <1>1, PipelineAlways, PTL

\* bulkWrite(): a chunk is submitted when its predecessor is known to have left the
\* wire, unless onEnumerated() cleared inFlight behind its back.
THEOREM ChunksGoOneByOne == Spec => []OneOnWire
<1>1. ASSUME PipelineInv PROVE OneOnWire
  <2> SUFFICES ASSUME ~renewed PROVE Cardinality({s \in ours : bus[s] = "wire"}) <= 1
    BY DEF OneOnWire
  <2>1. PICK t : {s \in ours : bus[s] = "wire"} \subseteq {t}
    BY <1>1 DEF PipelineInv, WireInv, LastOnWire, Wire, TypeOK, JobTypes
  <2>2. IsFiniteSet({t}) /\ Cardinality({t}) = 1
    BY FS_Singleton
  <2> QED BY <2>1, <2>2, FS_Subset
<1> QED BY <1>1, PipelineAlways, PTL
=============================================================================
