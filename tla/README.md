# HP print server: specifications, model checks and proofs

The repository is the firmware of an ESP32-S3 that takes print jobs from the
network (RAW on TCP 9100, IPP on TCP 631) and hands their bytes to a USB printer.
This directory holds TLA+ modules of its core, the TLC runs that check them and
theorems that TLAPS checks. Paths in this text are below `src/`.

## 1. The system

### 1.1 Parts, state, operations

| Part | State it keeps | Operations | Source |
|---|---|---|---|
| USB stream | staging ring, `head_ tail_ used_`, `busy_ failed_`, semaphore `wake_` | `push`, `flush`, `reset` (loop task); `run`, `copyOut` (writer task) | `usb_stream.cpp` |
| USB Bulk OUT pipeline | transfer slots (`inFlight`, `done`, status), `bulkOutNext`, `bulkOutWedged`, `resetRequested` | `bulkWriteAll`, `bulkWrite`, `waitForBulkOut`, callback, reset path | `usb_host_manager.cpp` |
| USB host events | `state_`, `device_` with the port status; `deviceOpen`, `newDevice`, `deviceGone`, rescans | `clientTask`, `onEnumerated`, `onDetached`, `onPortStatusTransfer`, ... | `usb_host_manager.cpp` |
| Interface choice | none (pure) | `printScore`, `selectedPrintIndex`, `selectedStatusIndex` | `usb_host_manager.cpp` |
| Print backend | job state, post-job drain, counters | `sendDirect`, `finishRawJob`, `abortRawJob`, `completeDrainIfReady`, `poll` | `usb_printer_backend.cpp` |
| RAW server | one client, receive ring, idle timer, close guard, PJL detector | `handleRawServer` and helpers | `usb_printer_backend.cpp` |
| IPP service | the last job: id, state, `pendingJob_`, `jobStartedProcessing_` | one branch of `handleClient` per operation, `streamDocument`, `refreshJobState` | `ipp_pcl3_service.cpp` |
| IPP over HTTP | body reader, attribute parser and writer | `BodyReader`, `parseAttributes`, `send...` | `ipp_pcl3_service.cpp` |
| Loop task | where it is in `loop()` | `loop`, `setup`, `serviceWifi` | `HP-print-server.ino` |
| Wi-Fi and settings | station, AP, Preferences records | `serviceWifi`, `onWifiConnected`, `handleSave` | `HP-print-server.ino` |
| Pages, LED, log, diagnostics | output only | | `HP-print-server.ino`, `status_led.cpp`, `logger.cpp`, `system_diagnostics.cpp` |

### 1.2 How they interact

Four tasks run on two cores.

- The **loop task** runs `loop()`: the backend's `poll()` (end a drain, serve the
  RAW client, follow the printer) and the IPP service's `poll()` (refresh the job,
  serve one request to its end). Both servers call `sendDirect()` and
  `finishRawJob()`, which call `push()`, `reset()` and `flush()`.
- The **writer task** takes chunks out of the ring and calls `bulkWriteAll()`.
- The **USB client task** runs the completion callbacks, closes devices,
  enumerates and publishes what it finds; the other two read its fields without a
  lock, and it reads `resetRequested`, which they raise.
- The **USB library task** only pumps the driver.

### 1.3 What is hard, and what makes each part correct

`PROJECT.json` lists every hazard at its line. In short:

- **Ring.** Copies outside the critical sections; a full and an empty ring that
  look the same but for `used_`; a binary semaphore given once a block; `flush()`
  reading `used_`, then `busy_`; `reset()` that does not wait for ever. Correct
  when bytes leave once and in order, the writer is always awaited, and a
  `flush()` that succeeds means delivery.
- **Pipeline.** Callbacks on another task between any two lines of `bulkWrite()`;
  devices that leave and come back in the middle of a wait; retries. Correct when
  each chunk is submitted once, chunks do not overtake each other, a drain leaves
  nothing on the wire, and a wedge is released.
- **Backend.** A job ends in many ways and must be counted once; the drain
  waits on a status that may be stale, missing or de-selected. Correct when every
  job ends and its tail is out before the guard.
- **RAW and IPP.** Two servers, one printer, no queue. Correct when one job has one
  sender, an IPP job's state follows its print job, ended states stay, and a client
  that disappears lets go.
- **Enumeration.** Announcements that are dropped, bounded rescans, transfers that
  outlive their device. Correct when what is published is open and claimed, its
  status is its own, it prints on the best interface, and a printer that stays
  plugged in is found.
- **Network input.** Three framings, reads that end anywhere, clients that stop or
  close anywhere. Correct when what reaches the printer is the document, byte for
  byte, and a document is accepted exactly when its client ended it.
- **Wi-Fi and settings.** A radio that changes between two reads of its status, a
  store that may fail, power cuts. Correct when settings reported as saved are
  stored, every link is announced and listened on, and the device finds its network.

## 2. The modules

| Module | What it is |
|---|---|
| `UsbStream` | the ring with the loop task and the writer task as two processes |
| `PrintQueue` | abstract: the bounded queue that `usb_stream.h` promises |
| `UsbStreamRefinement` | the refinement mapping from `UsbStream` to `PrintQueue` |
| `UsbStreamProofs` | theorems about `UsbStream`, and that it implements `PrintQueue` |
| `BulkOut` | the transfer slots between the caller, the USB client task and the printer |
| `BulkOutProofs` | theorems about `BulkOut` |
| `PrinterBackend` | the job state machine, and what the USB task publishes |
| `RawServer` | the RAW client, over the backend |
| `IppService` | the IPP job, over the backend |
| `PrintServer` | the loop task with both servers, the USB task, the network and time |
| `PrintServerProofs` | theorems about `PrintServer` |
| `PrinterInterfaces` | the descriptor walk and the choice of interfaces, as operators |
| `PrinterInterfacesProofs` | theorems about the walk and the choice |
| `UsbEnumeration` | the USB client task from announcement to publication, over it |
| `UsbEnumerationProofs` | theorems about `UsbEnumeration` |
| `HttpBody` | the body of a request, and when a document counts as complete |
| `RawInput` | the bytes of a RAW connection: receive ring and PJL detector |
| `NetworkInput` | the two readers side by side, as the loop task calls them |
| `RawInputProofs` | theorems about `RawInput` |
| `NetworkInputProofs` | theorems about `NetworkInput`: `HttpBody`, and the types of both readers |
| `WifiService` | setup(), serviceWifi(), the settings form and the store |
| `WifiProofs` | theorems about `WifiService` |

Where the constants are plain numbers and sets of names, a `.cfg` file gives them
directly. The inputs of `UsbEnumeration` (descriptors), `NetworkInput` (requests and
RAW jobs) and `WifiService` (networks) are defined in `MCUsbEnumeration`,
`MCNetworkInput` and `MCWifiService`. Definitions whose
comment begins with "Variant" are not part of a specification: each is a
definition of the model with a plausible mistake in it, and substituting it makes
the property it is kept for fail.

### 2.1 `UsbStream`

`head`, `tail`, `used`, `busy`, `failed`, `wake` are the fields of the class; `ppc`
and `wpc` say where the two tasks are. A step is what the code does between two
points at which the other task can come in: a critical section, a single store to
a shared flag, or a `memcpy` (a step of its own, so that the cells it touches can
be compared with the other task's). Bytes are pairs `<<job, position>>`, so a byte
that is lost, repeated, reordered or left over from another job shows. `used` is a
number modulo `Word`, as a `size_t` is.

The producer is not free: it makes the calls of `sendDirect` (reset when the
backend was idle, then up to three pushes), `finishRawJob` and `abortRawJob`. Four
specifications differ only in what the loop task may do:

- `Spec`: everything. A job may be abandoned, and every bounded wait may run out.
- `OrderlySpec`: a job ends by its `flush()` or when its stream has failed, and no
  wait runs out. This is the contract stated at `usb_stream.h:23-25`
  ("must be called by the producer once the job's last byte has been pushed").
- `TimeoutSpec`: `OrderlySpec` and a push that may run out of time.
- `FairSpec`: `OrderlySpec` with weak fairness of each task's steps.

One thing is not in the module: the synchronous path of `sendDirect()` when the
writer task could not be created (`usb_printer_backend.cpp:656-658`).

### 2.2 `BulkOut`

One caller stands for the writer (`bulkWriteAll`) and the loop task
(`waitForBulkOut`): they never overlap, because `flush()` calls the latter only
with an empty ring and an idle writer, which is `UsbStream!FlushDrains`, and is
proved (`FlushDrainsRing`). A chunk fits one transfer (`STREAM_CHUNK` is the transfer size).
The client task runs through the body of its loop; a callback is two steps
(`inFlight` first, then the result and the semaphore), the reset path and the
publication of a device are as many steps as they have stores the caller reads.
A transfer is on the "wire", "dead" (halted, or its device gone, with the callback
still to come) or neither. The printer may complete, fail or hold a transfer at any
time, leave and come back.

Merged: closing a device with `onDetached()`, and raising `bulkOutWedged` with
`resetRequested`; between them the other task reads nothing that tells the
difference. `ensureBulkOutResources()` is one step. `bulkWrite()`'s
`assert(t && !slot.inFlight)` and the use of a deleted semaphore lead to
`pc = "panic"`, where the caller stops: the restart of the system is not modelled.
This state is reachable, by a callback that runs between the submission (:692) and
`slot.inFlight = true` (:700) and by a device closed under the writer.

History: `submitted` (chunks handed to the driver), `ours` (slots that still carry
one of this job's), `lost` (one was called back as failed), `renewed` (a device was
published since the pipeline was last quiet between jobs).

### 2.3 `PrinterBackend`, `RawServer`, `IppService`, `PrintServer`

The backend is a record, and each of its calls an operator from record to record,
because a handler of either server makes several calls in one go. What a call finds
in the stream is a choice: `UsbStream` says when it is which. Milliseconds become
three ages of a drain: before `POST_JOB_MIN_GUARD_MS`, before
`POST_JOB_STATUS_WAIT_MAX_MS`, after both. The port status is one of five reports
or "none"; because its fields are written one at a time, a report may be seen
before the time stamp that makes it fresh.

One pass of `handleRawServer()` is one step with respect to the USB task: the
backend reads the host's state once a call, and what changes during a pass shows at
the next. Its bytes are `RawInput`'s. `found` tells a printer whose interface has a
Bulk OUT endpoint ("usable") from one whose best interface has none, which is
published all the same. A document streamed by IPP is a step a block, with the USB task between
the blocks and the RAW server standing still, as in the code. `refreshJobState()`
also runs at `ipp_pcl3_service.cpp:930` and for Get-Job-Attributes; after the
refresh of the same `poll()` it changes nothing and is left out.

History: `owed` (jobs begun and not yet counted), `senders` (whose bytes the job in
progress holds: a RAW client's, the document's of a Print-Job or that of a
Send-Document), `unflushed` (bytes pushed since the last successful flush), `torn` (the
IPP document's job was aborted). None of them is read by a guard. Once a RAW client's
job is finished, what it still sends is not looked at, and the model forgets it.

### 2.4 `PrinterInterfaces` and `UsbEnumeration`

A configuration is a sequence of interface and endpoint descriptors. `Candidates` is
the walk of `enumerateDevice()` (a recursive function, one `Visit` a descriptor),
`printScore` and
`statusScore` are the code's numbers, and `Best` is the loop that keeps the first of
the highest. `PrintsOnTheBest` says the same of the descriptors themselves, with a
lexicographic `Rank` (protocol 2 before 3 before 1, then a second Bulk endpoint, then
the default setting; `README.md:106` prefers 2, the rest is the scores' own), so that a mistake in the walk, a
score or the loop shows.

A step of `UsbEnumeration` is one test of `clientTask()`'s loop, because the loop task
(`Poll`), the writer (`RequestReset`), time and the port act between any two. `cpc` is
the next test, `back` where an enumeration returns to, `bpc` how far `begin()` is. `enumerateDevice()` is one
step: it runs on the client task, and what it reads of the device is fixed once it is
open; the driver may fail it at any call (`Fails`), and a claim of the status
interface may fail alone. With the publication that follows, it takes a device from
nothing to published in one step; likewise `closeDevice()` and `onDetached()` are one
step. So two short windows are not shown: from `deviceOpen = true`
(`usb_host_manager.cpp:304`) to `onEnumerated()` (:795), in which a device is open and
not published, and from `closeDevice()` (:513, :520) to `onDetached()` (:514, :521), in
which it is closed and still published. `PublishedIsOpen` speaks of the moments between
two tests of the loop. (`BulkOut` shows what the writer and the drain do in them, up to
the publication.) `wire` counts the status transfers the driver has for each
device, those that `closeDevice()` forgot included.

Assumed of the port and the driver: one root port without a hub; the library has the
port for the next device once the last one is closed; at most one announcement is
pending; status transfers are answered only while their device is open and on the
port; the transfers of a device that left are called back before `DEV_GONE`.
Addresses may repeat. History: `refused` (a printer failed to enumerate when no rescan
was left), `shadowed` (the host's state was stored over an open printer).

### 2.5 `HttpBody`, `RawInput`, `NetworkInput`

The client of `HttpBody` has a request to write, as tokens: a chunk size, the text
after it, CR, LF, a byte of payload, something else. It writes any number of them at
a time, falls silent or closes. A step of the service is one read: a byte of a line,
a byte of the head, or what `readClientBlock()` finds. `part` says who reads: the IPP
header and attributes byte by byte (`readByte`), a document in blocks (`readBlock`),
or the drain of another request. `readByte()` and `readBlock()` frame alike and share
their actions; where they differ (`rawByte` against `readClientBlock`, and `done` at
the peer's end) the guard says `part # "head"`. `sendDirect()` may refuse a block and
the deadline may pass (`hurried`); a read may time out (`stalled`). `Sound` is the
grammar of a request in HTTP's framing, over its tokens: each size with its line and as
many bytes, CR and LF as it says, the lines after a size of zero, of which the last is empty;
or payload only. The bytes of payload are named by their numbers.

`RawInput` is `handleRawServer()` seen from its bytes: `ReadSocket` (up to the end of
the ring), `Scan` (the detector, a byte a step), `SendPiece` (`drainRingToUsb()`),
`Finish` and `Abort`. `feed` is the detector's switch, whose state is the number of
characters matched. A cell that was sent is blank, so a byte sent twice would show.
The timers, the printer and the job are `RawServer`'s; here they are a choice.

`NetworkInput` puts them side by side: either `poll()` runs to its end before the
other is called.

### 2.6 `WifiService`

`stored` is the Preferences namespace and survives `PowerCut` and the restart that
ends `handleSave()`; all else is memory. `setup()` is cut at each read of
`WiFi.status()`, a pass of `loop()` before `serviceWifi()` reads it, after, and in
the web server; the station (`LinkUp`, `LinkDown`) may act at each cut. What was
announced or bound before a link came up is "stale" for it; a RAW listener whose
client is served stays as it is ("kept"), as `usb_printer_backend.cpp:448-450` says.
`loadConfig()` may find the store closed, `saveConfig()` may write either record or
neither. The timer of the mDNS retry, an hour, is a choice.

Before it loads the settings, `setup()` may find the NVS partition stale and erases it
(`HP-print-server.ino:461-468`): `InitStore` leaves the store as it is, or erases both
records, one or none of them, as the result of the erasure is not looked at and the
power may go meanwhile (`EraseBreaksOff`). Whether a partition is stale is a choice at
every boot. History: `told` (the settings last reported as saved), `erased` (an erasure
was begun since).

`autoReconnect` is TRUE until `setup()` turns it off, which it does only when it found
a network (`HP-print-server.ino:474-477`). The longer back-off at :398 never applies,
as `lastDisconnectMs` is never written, and is left out.

## 3. The runs

Bounds are named constants, and cap only what the environment does (jobs, bytes,
connections, requests), or stand for a constant of `config.h` at a smaller size.

| Run | Specification and bounds | Checked | Distinct states |
|---|---|---|---|
| `MCUsbStreamAll` | `Spec`; ring 2, chunk 1, 3 bytes a job, 2 jobs | `TypeOK`, `NoLostWakeup` | 2.9 M |
| `MCUsbStreamOrderly` | `FairSpec`; ring 3, chunk 2, 5 bytes a job, 2 jobs | `NoDataRace`, `InOrder`, `CompletedIsDelivered`, `IsPrintQueue`, `PushReturns`, `FlushReturns` | 26 k |
| `MCBulkOut` | `FairSpec`; 2 slots, 1 retry, 2 chunks a job | `TypeOK`, `SubmittedOnce`, `DrainedBus`, `OneOnWire`, `WedgeHeals` | 885 k |
| `MCPrintServer` | `FairSpec`; all five operations, 1 connection with 1 chunk, 2 requests, documents of 1 block | `TypeOK`, `PendingAwaits`, `PrintJobAlone`, `TailDrained`, `TerminalStable`, `CountedOnce`, `JobEnds`, `JobResolves`, `ConnectionEnds` | 291 k |
| `MCUsbEnumeration` | `FairSpec`; 9 histories of the port with up to 3 devices, 2 addresses, 2 rescans, 1 reset, 1 failed enumeration, 1 failed event loop, 2 interfaces | `TypeOK`, `PublishedIsOpen`, `StatusIsOfThePrinter`, `StatusOneAtATime`, `PrintsOnTheBest`, `PrinterFound` | 229 k |
| `MCNetworkInput` | `FairSpec`; 25 requests of up to 25 tokens, head 2, block 2, lines 4; 42 RAW jobs, ring 5, reads 4, pieces 3 | `TypeOK`, `DeliveredIsPayload`, `AcceptedIsWhole`, `RefusedHasACause`, `AnsweredIsRead`, `EndsWithEoj`, `BytesInOrder`, `RequestEnds` | 232 k |
| `MCWifiService` | `WifiSpec`; 2 networks, 2 passwords | `TypeOK`, `SavedIsStored`, `EveryLinkIsServed`, `Reconnects` | 313 k |
| `MCUsbStreamRetry`, `MCBulkOutUnnoticed`, `MCBulkOutReap`, `MCPrintServerSharedJob`, `MCPrintServerTornJob` | see section 4 | one property each, violated | |

Why these bounds are enough to be interesting: a ring of 3 with chunks of 2 and
documents of 5 makes both copies wrap, at every offset, fills the ring exactly and
lets a block be larger than what is free; a ring of 2 with blocks as long as the
ring is the boundary case of `NoLostWakeup` (a push that needs the whole ring).
Two jobs are what one job can do to the next. In the pipeline, 2 slots make the
previous slot also the next one; the safety properties were also checked once with
the code's 3 slots and 3 chunks (14.4 M distinct states, no error), which is too
slow to keep as a run. Two requests let Cancel, Close and Send act on the job of
the first. Three devices let a printer return after another device was announced in
its place; two rescans are one that fails and one that succeeds; two interfaces with
three described reach the table's limit. A head and a block of two bytes make chunks
end within, between and at the end of both. A ring of 5 wraps several times in an
end-of-job sequence of 8, which reads of 4 cut at every character.

`MCPrintServer` has the connections and requests that its liveness can afford, and
printers with a Bulk OUT endpoint only. All its properties were also checked once with
printers of both kinds (544 k distinct states, no error), and its safety properties with
three requests (638 k); they are proved for any number (section 5). A block beyond the
first changes nothing that the first has not changed, and the block that fails is part
of the document's end.
Deadlock is not checked where the system really stops: in `MCUsbStream*` when the
bounded jobs are done, in `MCBulkOut*` at a failed assertion, in `MCNetworkInput` after
the request, in `MCUsbEnumeration` when the host or its client could not be started.

What the properties say:

- `NoLostWakeup`: the writer sleeps with no token only if the ring is empty or the
  push under way fits and will give one; so a push can never wait for a writer that
  waits for it.
- `NoDataRace`, `InOrder`, `CompletedIsDelivered`, and `IsPrintQueue` for all of them at
  once: each step of the two tasks is a step of the queue, or none.
- `SubmittedOnce`, `OneOnWire`: retries never repeat a chunk, and at most one
  transfer of a job is on the wire, because `bulkWrite()` reaps the previous one
  first. `OneOnWire` is what keeps the chunks in order when one of them fails, and it is
  the opposite of what the texts promise: `usb_host_manager.cpp:30-31` and :670-671,
  `config.h:73`, `README.md:19` and :110 speak of several transfers in flight. The code
  does not do that, and `MCBulkOutReap` shows the disagreement (section 4.1).
- `DrainedBus`: after a drain nothing of the job is on the wire. It excludes jobs
  that saw a device published, as `onEnumerated()` clears `inFlight` after it has
  published the device, and a chunk submitted between the two loses its mark.
- `WedgeHeals`: a wedged pipeline is released; no request is overlooked, whatever
  the order in which the caller raises and the client task takes `resetRequested`.
- `PrintJobAlone`: a Print-Job shares its USB job with nobody, whatever RAW clients
  and the other operations do before, during and after its document (`README.md:99-101`).
  Of Send-Document the like fails (section 4.1).
- `TailDrained`: the post-job guard never runs over unflushed bytes
  (`README.md:110-111`). It excepts a job with two senders, which only a Send-Document
  beside a RAW client makes: the end of one begins the guard while the other still sends.
- `CountedOnce`: a job is counted once however it ends. The exception is stated in it:
  a RAW client whose job was ended over its head (`RawJobTaken`) is aborted once more when
  it disconnects, and that is counted too; and a step that takes a RAW job so is a
  Cancel-Job, or belongs to the document of a Send-Document, while it is sent or while
  the job holds it (section 4.2). Nothing else takes one, and nothing else is miscounted.
- `PendingAwaits`, `TerminalStable`: what Close-Job and Cancel-Job rely on, and what
  a client that polls relies on.
- `JobEnds`, `JobResolves`, `ConnectionEnds`: nobody holds the printer, the job or
  the only RAW connection for ever.
- `PublishedIsOpen`, `StatusIsOfThePrinter`, `StatusOneAtATime`: what the other tasks
  read of the printer is the one that is open, through exchanges and resets with a
  status transfer on the wire; and the poll cannot stop for good, since
  `statusTransfer` is never left set without a transfer to clear it.
- `PrinterFound`: a printer that stays is published, whether it was there before the
  client registered, came while another was open, or was lost to a reset.
- `DeliveredIsPayload`, `AcceptedIsWhole`, `RefusedHasACause`: no byte of framing is
  printed and none of payload lost; a document is accepted only if its client wrote
  all of it or closed at the end of a chunk (`ipp_pcl3_service.cpp:138-141`), and
  refused only for a cause. A client that closes between two chunks cannot be told
  from one that died there, which is the code's choice.
- `AnsweredIsRead`: a request is answered with nothing left unread, which would turn
  the end of the connection into a reset (`ipp_pcl3_service.cpp:984-986`).
- `EndsWithEoj`, `BytesInOrder`: a RAW job ends at its first end-of-job sequence and at
  no other place, and its bytes, the sequence included, reach the printer in order.
- `SavedIsStored`: settings reported as saved are the stored ones until the form is
  sent again, through power cuts and failed writes; after an erasure by `setup()` each of
  the two is as saved or empty, never an older one.
- `EveryLinkIsServed`, `Reconnects`: see section 1.3; what they except is in section 4.2.

### Fairness

- `UsbStream!FairSpec`: each task is scheduled when it can run. The write to the
  USB host ends, because `bulkWriteAll()` has a timeout for each wait and a bounded
  number of retries.
- `BulkOut!FairSpec`: the caller and the client task are scheduled. Nothing is
  asked of the printer, and nothing forces a new call.
- `PrintServer!FairSpec`: the loop task is scheduled (the watchdog restarts the
  device otherwise, `README.md:131`), and time passes for the three timers.
  Printer, USB task, clients and network may stop for ever.
- `UsbEnumeration!FairSpec`: the client task is scheduled and the clock runs; its wait
  for events ends after 100 ms (`usb_host_manager.cpp:506`). Printer and port owe
  nothing.
- `NetworkInput!FairSpec`: once a request is read, the service goes on, as every read
  has a timeout. The client owes nothing.
- `WifiSpec`: the loop and the clock go on; and an attempt with the right credentials
  that is made again and again succeeds some time (strong fairness of `LinkUp`), which
  says that the network is in the air.

## 4. Where the code and its texts disagree

### 4.1 Shown by runs

Each has a run whose property TLC finds violated, and an entry under "findings".

1. `MCUsbStreamRetry`: `sendDirect()` (`usb_printer_backend.cpp:651`) repeats a
   whole block after a push that timed out halfway.
2. `MCBulkOutUnnoticed`: a transfer called back as failed before its slot is looked
   at (`usb_host_manager.cpp:435`, :745) goes unnoticed.
3. `MCBulkOutReap`: `bulkWrite()` waits for the previous transfer
   (`usb_host_manager.cpp:672`) before it submits the next one (:692), where its comment
   says "AFTER submitting the next one, so multiple chunks are always in flight", and
   `README.md:110` that "up to two 8 KB transfers are always in flight". The pipeline is
   correct but has no overlap.
4. `MCPrintServerSharedJob`: Send-Document (`ipp_pcl3_service.cpp:1174`) is not
   turned away while a RAW client holds the stream.
5. `MCPrintServerTornJob`: a Print-Job whose flush failed is reported completed,
   because `poll()` follows the printer to IDLE before the job is refreshed.

### 4.2 Seen in the models

Met while modelling, and kept by no run of its own. Where a property above excepts such
a case, the property is named.

- `run()` lowers `busy_` (`usb_stream.cpp:174`) before it raises `failed_` (:179): a
  `flush()` in between reports success (`CompletedIsDelivered` has `Broken`), and
  `failed_` may then meet the next job after its `reset()`.
- `reset()` (`usb_stream.cpp:216-226`) zeroes the ring under a writer that is between
  its two critical sections; `used_` then no longer counts the bytes queued.
  `UsedIsBytesQueued` holds of `OrderlySpec` and is proved for it; `Spec` violates it.
- `bulkWrite()` raises `inFlight` (`usb_host_manager.cpp:700`) after the submission
  (:692). A callback in between clears it first, and nothing clears it later: when the
  slot's turn comes again, `assert(t && !slot.inFlight)` (:683) fails. The same line is
  reached with a transfer that `closeDevice()` freed. Both are `pc = "panic"`.
- `onEnumerated()` publishes the device before it clears `inFlight`
  (`usb_host_manager.cpp:795-798`): a chunk submitted in between loses its mark, so
  neither the next write nor the drain waits for it. `DrainedBus` and `OneOnWire` except
  such jobs (`renewed`).
- Cancel-Job aborts whatever the backend is printing (`ipp_pcl3_service.cpp:1214`), and a
  Send-Document beside a RAW client ends the job they share. The RAW client is not told:
  when it disconnects, its job is aborted and counted as failed a second time, if the
  backend is not in ERROR by then. `CountedOnce` states the exception.
- A Send-Document beside a RAW client begins the post-job guard when it ends, and the
  client's next bytes go out under it; or the other way round. `TailDrained` excepts jobs
  with two senders.
- If the link comes up between the last look of the 20 s wait
  (`HP-print-server.ino:487`) and :490, `lastWifiStatus` starts as connected and
  `onWifiConnected()` never runs: the configuration AP stays up until the link drops,
  although "configuration AP stops once the station links up" (`README.md:126-127`).
  `raced` marks it.
- A form whose save failed leaves its settings in memory, and retries use them;
  `README.md:126` speaks of the saved network.
- The record of an empty password that could not be written is not noticed
  (`HP-print-server.ino:58`); `SavedIsStored` excepts it.
- `setup()` erases the NVS partition when it is full or of another version
  (`HP-print-server.ino:461-468`): settings that were reported as saved are then gone
  without a new form, and the device waits as an AP. `SavedIsStored` excepts it (`erased`).
- A power cut between the two records leaves the new name with the old password,
  which was not reported as saved.
- A store that does not open at boot leaves the defaults: the device waits as an AP.
- A RAW listener is not re-bound while its client is served, against "on every
  reconnect" (`README.md:127`), as the comment at `usb_printer_backend.cpp:448` says.
- An error of the USB client's event loop (`usb_host_manager.cpp:508`) sets the host to
  RUNNING with the printer open: it stays unusable until a reset or its cable. The
  store of `begin()` (:597), made after the client task was started, could do the same
  to a printer that is found within that time. `shadowed` marks both in
  `PublishedIsOpen`.

## 5. What is proved

All theorems hold for every value of the constants that the modules' `ASSUME`s
allow (`StreamAssumption`, `BulkOutAssumption`, `PrintersAssumption`, `RawAssumption`, `IppAssumption`,
`RawInputAssumption`, `HttpAssumption`, `WifiAssumption`, `EnumerationAssumption`,
`InterfacesAssumption`), and are checked by TLAPS with no step left open. The
assumptions ask for little: numbers that are numbers, a ring as long as its longest
block, at least two transfer slots (`config.h` has 3), devices whose descriptors are
those of `Descriptors` (endpoint addresses are not zero, as endpoint 0 is the control
pipe), addresses that are not zero, payload bytes that are called by their numbers.

**The ring, any use** (`UsbStreamProofs`, of `Spec`). `TypeCorrect`; and
`WriterIsAwaited`, that is `NoLostWakeup`. That property speaks of a writer that
sleeps; to be inductive it must speak of one that has found the ring empty and is
about to sleep as well (`Awaited`), know that a push under way still has bytes to
queue until its give (`Unfinished`), and that such a push never meets a full ring
(`FullAwake`), which rests on `MaxPush <= Capacity`. `WakeInv` is the three together.

**The ring, orderly use** (`UsbStreamProofs`, of `OrderlySpec`). `RingCorrect`
is the invariant `TypeOK`, `WakeInv`, `ControlInv`, `BytesInv`. `ControlInv` says
what a task's local copies of the indices still mean (the writer's `wtail` is
`tail` while it copies; the space the push saw is still there, as only the push
takes it), that `busy` is up while the writer holds bytes, and that between two jobs
the ring is empty and the writer holds nothing, or its stream has failed. `BytesInv`
says that
cell `tail + i` holds the byte that is due `i`-th, and that the chunk in the
writer's hands and the bytes sent come before it. Neither `InOrder` nor
`NoDataRace` is inductive alone: both need the two together. From it follow
`BytesInOrder`, `UsedIsExact`, `FlushDrainsRing`, `NoRace` and `Delivered`.

**The ring is a queue** (`UsbStreamProofs`, of `OrderlySpec`).
`StreamIsPrintQueue` is `IsPrintQueue`: under the mapping of `UsbStreamRefinement` every
step of the two tasks is a step of `PrintQueue` or changes nothing it sees. `StartJob` is its Open,
`ResetZero` its Clear, `ResetClear` its Repair, `PushCheck` its Withdraw or Finish,
`PushPublish` its Put, `Write` its Take and `WriteFails` its Lose. A copy into the ring or out
of it is invisible: the cells that `PushCopy` writes are outside the bytes in use, and
what `WriterTake` takes off the ring is the chunk in its hands. `QueueInv`
adds to the ring's invariant that a push tried again sends its block from the first byte,
with the stream failed, and that the writer never hands over an empty chunk.

**The pipeline** (`BulkOutProofs`, of `BulkOut!Spec`). `PipelineTypes`,
`EachChunkSubmittedOnce`, `DrainLeavesNothing`, `ChunksGoOneByOne`. That a chunk is
submitted once is a matter of the caller alone (`ChunksInv`). The wire is one of both
tasks: what is on it is the transfer submitted last (`LastOnWire`), and the next
submission has waited for it. The wait ends by a semaphore, which the callback gives
after it has cleared `inFlight`; `LateGive` says that a give still to come is never for
a slot that has been armed again, without which a wait could end while its transfer
is on the wire. It fails once a device is published in the
middle of a job (`renewed`), which is why the two properties except that.

**The servers** (`PrintServerProofs`, of `Spec`). `ServerTypes`, `PendingCorrect`
and `EndedJobsStay`. The invariant `JobInv` adds to `PendingAwaits` that a document
is streamed only to a job that has not ended, which is what keeps the streaming
steps from changing a final state; Send-Document needs `PendingAwaits` for it, and
Close-Job cannot turn an ended job into a completed one for the same reason.

**Who shares the USB job** (`PrintServerProofs`, of `Spec`, for every set of operations
that clients use). `PrintJobsAreAlone`, `TailIsDrained` and `EachJobIsCounted`. The
invariant `SharingInv` says who may be in the job with whom. Of the backend alone
(`JobOK`): only a job in progress has senders or a drain, what is unflushed under a drain
belongs to a job that holds both a RAW client's bytes and a Send-Document's, and a
Print-Job's document is alone. Of the clients: a RAW client that may still send meets no
Print-Job, and a drain only if a Send-Document began it; a Print-Job's document meets no
RAW client and no drain; a document that awaited its turn meets a drain only if a RAW
client began it; and while a job awaits its document, a job in progress is a RAW client's
(`AwaitOK`), since Create-Job asks for an idle printer and Print-Job ends the wait. It
says further that a document which has sent a block has its job in progress, without
which its failure would be counted against nobody's job. The count (`Balanced`) then
follows call by call: only an abort outside PRINTING and ERROR counts too much, and only
the RAW server makes one, of a job that was taken from its client.

**The RAW input** (`RawInputProofs`, of `RawInputSpec`). `JobEndsWithEoj`: the
invariant is that the detector's state is the length of the longest beginning of the
sequence that the bytes seen end with (`DetectorLongest`). A state that falls short of
it misses a sequence that begins in a broken one; one that exceeds it ends the job too
early. The switch needs no table of where to resume because "@" occurs only at the
front of the sequence (`Sequence`). `BytesReachThePrinterInOrder`: the cells in use,
from the read position on, hold the bytes that follow those sent; a read and a piece
never cross the end of the ring, so each changes one run of cells.

**The body of a request** (`NetworkInputProofs`, of `NetworkInput!Spec`).
`OnlyPayloadIsDelivered`, `AcceptedDocumentsAreWhole`, `RefusalHasACause`,
`AnsweredRequestIsRead`, for requests with any number of chunks of any size, and
`NetworkInputTypes`. None of the four is inductive. The invariant, `HttpInv`, says of a sound
request in chunks where in the grammar the reader is (`Place`): between two chunks
before "next" and "block", in a line that starts with a size, in one after the last chunk's, with
`chunkRemaining` bytes of a chunk ahead, or in the two after it. Two lemmas carry it.
`NumberIs`: what `strtoul()` makes of a whole size line is the size at its front, since
everything else is an extension. `Trailing`: a line after the last chunk is the last one
exactly if it is empty without its CR. From the place follows `PayloadInv`, that what was
delivered and what the block holds are the payload among the tokens read; and `ErrorInv`, that
a framing error in a sound request is the doing of a client that stopped where it had
ended no document (`NotEnded`). `EndInv` says why the reading stopped, from which the verdict
follows. Without chunks, `remaining` is what is left of the tokens (`PlainInv`). For a
request that breaks the grammar there is no place to speak of, so `AcceptedIsWhole` is
proved for sound ones; what it says of the broken ones is checked on those of
`MCNetworkInput`.

**Wi-Fi** (`WifiProofs`, of `WifiSpec`). `WifiTypes`, `ReportedSettingsAreStored`,
`NoLinkIsMissed`. For the settings: from the form to its reply nothing counts as
reported, and a name that was written is the form's; and an erasure leaves of each record
what was there or nothing (`EraseKeeps`). For the links: while the core
does not join by itself, the station tries again only from `serviceWifi()`, which
notes the loss in the same pass; so a link that comes up is new to the next one.

**The choice of interfaces** (`PrinterInterfacesProofs`). `WalkFinds`: for every
configuration, the entries of the walk are the interfaces that speak a RAW protocol, up to
the table's limit, each with the endpoints described between it and the next interface. The walk is a recursive function, one descriptor at a time, and its
invariant (`WalkInv`) names the place of each entry in the configuration. Its
induction is `NatSetInduction`, which speaks of a set of numbers and is proved from the
well-foundedness of `<` in the standard library, as the library's own induction theorems
have an operator for parameter. `ChoiceIsTheBest`: the loop over the scores returns an interface
that no other outranks; it rests on the scores of the code growing with the rank of section 2.4.

**Enumeration** (`UsbEnumerationProofs`, of `UsbEnumeration!Spec`).
`EnumerationTypes`, `PublishedIsTheOpenDevice`, `StatusIsItsOwn`, `OneStatusTransfer`,
`BestIsPrintedOn`. The second and the third need to know where in its loop the
client task can have nothing open (`NothingOpen`): it enumerates and scans only there,
so what it opens never replaces a device that is published, and a status that arrives
is stored only while the device that sent it is the one published. For the status transfers
(`WireInv`): those with the driver and a reset that is still to be made are at most one
more than the resets made, since only a reset forgets a transfer that is not back; and a device that is gone
has none that is waited for. For the interfaces (`ChosenInv`): while a device is open, what
is published is what `Chosen` returned for it, and `ChoiceIsTheBest` says what that is.

### Only model-checked

Liveness (`PushReturns`, `FlushReturns`, `WedgeHeals`, `JobEnds`, `JobResolves`,
`ConnectionEnds`, `PrinterFound`, `RequestEnds`, `Reconnects`) is out of the prover's
reach and stays with TLC, on the bounds above. So does what `AcceptedIsWhole` says of a request
that is not in HTTP's framing.

## 6. Not modelled

- **IPP attributes and HTTP headers.** Whether a request is well formed and names the
  right job only decides whether it acts. Attribute encoding and the printer's
  description are wording.
- **Pages, LED, log, diagnostics, scan page, boot counter, build.** Output only.
- **Restart** after a failed assertion or by the watchdog.
- **The synchronous path** of `sendDirect()` without a writer task.
- **Hubs**, and devices announced while another announcement is pending.
- **Wi-Fi under a print job.** `WifiService` and `PrintServer` are not composed: they
  meet in `restartRawListener()`, which leaves a connection alone, and `rebind()`,
  which the loop task calls between two requests.

## 7. Plan

Done: the ring, its refinement and proofs; the servers and their proofs; the Bulk OUT
pipeline; enumeration and the choice of interfaces, with proofs; the HTTP body, the RAW ring and
the PJL detector, with proofs; Wi-Fi and the settings, with proofs. Every invariant and
action property of the passing runs is a theorem.
