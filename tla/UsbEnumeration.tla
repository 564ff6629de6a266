--------------------------- MODULE UsbEnumeration ---------------------------
(***************************************************************************)
(* How a printer comes to be published (usb_host_manager.cpp): the USB     *)
(* client task, which opens, claims and closes devices, and the host state *)
(* that the rest of the program reads.                                     *)
(*                                                                         *)
(* A step is one test of clientTask()'s loop; the loop task asks for a     *)
(* status poll, and the writer for a reset, between any two.  So a device  *)
(* is opened, claimed and published in one step, and closed and withdrawn  *)
(* in one: while the client task is between the lines of such a pair,      *)
(* deviceOpen and device_ differ, and no step of another task is shown.    *)
(* The Bulk OUT transfers are BulkOut's.  The port, the host library and   *)
(* the driver are the environment: the board has one port without a hub,   *)
(* the library has it for the next device once nobody has the last one     *)
(* open, and a device is announced before the next one can be.  Addresses  *)
(* may repeat.                                                             *)
(***************************************************************************)
EXTENDS PrinterInterfaces

CONSTANTS
  Histories,   \* bound: the devices that may come to the port, one after another,
               \* each the sequence of its descriptors
  Addresses,   \* USB addresses
  Rescans,     \* rescanAttempts after a reset: 15
  MaxFailures, \* bound: enumerations of a printer that the driver fails
  MaxResets,   \* bound: resets asked for
  MaxErrors    \* bound: failures of the client's event loop

ASSUME EnumerationAssumption ==
  /\ Addresses \subseteq Nat \ {0}
  /\ Histories \subseteq Seq(Seq(Descriptors))
  /\ Rescans \in Nat /\ MaxFailures \in Nat /\ MaxResets \in Nat /\ MaxErrors \in Nat

VARIABLES
  devices,     \* the history of the port; a device is an index of it
  here, addr,  \* the device on the port and its address, 0 if there is none
  last,        \* the last device that came
  announced,   \* the address of a NEW_DEV event not delivered yet, or 0
  open,        \* the device that is open, 0 unless deviceOpen
  claimed,     \* the numbers of the interfaces claimed, print and status
  newDevice,   \* newAddress while newDevice, or 0
  deviceGone, resetRequested,
  attempts, due,    \* rescanAttempts; rescanAtMs has passed
  statusPending, statusTransfer,
  wire,        \* status transfers that the driver has, per device
  host,        \* state_
  device,      \* device_
  shadowed,    \* state_ was overwritten while a printer was open
  bpc,         \* begin(), which setup() calls once
  cpc, back, target,  \* clientTask; the address it enumerates and where it returns
  failures, refused, resets, errors

port     == <<devices, here, addr, last>>
events   == <<announced, newDevice, deviceGone>>
runtime  == <<open, claimed>>
recovery == <<attempts, due>>
polling  == <<statusPending, statusTransfer, wire>>
shared   == <<host, device, shadowed>>
client   == <<cpc, back, target>>
counts   == <<bpc, resets, errors>>
outcome  == <<failures, refused>>
vars     == <<port, events, runtime, resetRequested, recovery, polling, shared, client,
              counts, outcome>>

\* device_ after onDetached(): of is the device, print and stat the interfaces
\* chosen, status the device whose answer portStatus holds, 0 while not valid.
NoDevice == [of |-> 0, print |-> 0, stat |-> 0, status |-> 0]

\* refused: a printer on the port failed to enumerate, and no rescan was left.
Init ==
  /\ devices \in Histories
  /\ here = 0 /\ addr = 0 /\ last = 0
  /\ announced = 0 /\ newDevice = 0 /\ deviceGone = FALSE
  /\ open = 0 /\ claimed = {}
  /\ resetRequested = FALSE /\ attempts = 0 /\ due = FALSE
  /\ statusPending = FALSE /\ statusTransfer = FALSE /\ wire = [d \in DOMAIN devices |-> 0]
  /\ host = "stopped" /\ device = NoDevice /\ shadowed = FALSE /\ bpc = "begin"
  /\ cpc = "off" /\ back = "events" /\ target = 0
  /\ failures = 0 /\ refused = FALSE /\ resets = 0 /\ errors = 0

Configurations == UNION {{h[d] : d \in DOMAIN h} : h \in Histories}

\* What a device offers, and what claimInterfaces() takes of it.
OfferedBy == [c \in Configurations |-> Candidates(c)]

ChosenFor ==
  [c \in Configurations |->
     LET print == selectedPrintIndex(OfferedBy[c])
     IN  IF print = 0 THEN <<0, 0>> ELSE <<print, selectedStatusIndex(OfferedBy[c], print)>>]

Offered(d) == OfferedBy[devices[d]]
IsPrinter(d) == d # 0 /\ Offered(d) # <<>>

Goes(from, to) == cpc = from /\ cpc' = to /\ UNCHANGED <<back, target>>

-----------------------------------------------------------------------------
(***************************************************************************)
(* begin()                                                                 *)
(***************************************************************************)
begin ==
  /\ bpc = "begin"
  /\ \/ host' = "error" /\ bpc' = "done" /\ UNCHANGED cpc
     \/ cpc' = "register" /\ bpc' = "started" /\ UNCHANGED host
  /\ UNCHANGED <<port, events, runtime, resetRequested, recovery, polling, device, shadowed,
                 back, target, resets, errors, outcome>>

\* The state is stored when the client task already runs.
BeginReturns ==
  /\ bpc = "started" /\ bpc' = "done"
  /\ host' = "running" /\ shadowed' = (open # 0)
  /\ UNCHANGED <<port, events, runtime, resetRequested, recovery, polling, device, client,
                 resets, errors, outcome>>

\* A client that cannot be registered reports an error and ends its task.
Register ==
  /\ \/ Goes("register", "start") /\ UNCHANGED host
     \/ Goes("register", "off") /\ host' = "running"
  /\ UNCHANGED <<port, events, runtime, resetRequested, recovery, polling, device, shadowed,
                 counts, outcome>>

-----------------------------------------------------------------------------
(***************************************************************************)
(* Enumeration                                                             *)
(***************************************************************************)

\* onEnumerationStarted(), and enumerateDevice() is called with the address a.
Starts(a, return) ==
  /\ host' = "enumerating"
  /\ cpc' = "enumerate" /\ back' = return /\ target' = a
  /\ UNCHANGED <<device, shadowed>>

\* scanExisting() while no device is open: the port has one device at most.
Scans(return) ==
  IF here # 0 THEN Starts(addr, return)
  ELSE cpc' = return /\ UNCHANGED <<back, target, shared>>

\* The rest of enumerateDevice(), claimInterfaces() and publish(), as one step.  A status
\* interface that cannot be claimed is replaced by the print interface.
Opens ==
  LET offered == Offered(here)
      print   == ChosenFor[devices[here]][1]
      stat    == ChosenFor[devices[here]][2]
  IN  /\ open' = here
      /\ \E s \in IF stat = 0 THEN {print} ELSE {stat, print} :
           /\ claimed' = {offered[print].number, offered[s].number}
           /\ device' = [of |-> here, print |-> print, stat |-> s, status |-> 0]
      /\ host' = "ready" /\ attempts' = 0
      /\ UNCHANGED <<shadowed, outcome>>

\* onEnumerationError(): the address is stale, the device is no printer, or the
\* driver fails it at one of its calls; what was opened is closed again.
Fails ==
  /\ \/ (target = addr => ~IsPrinter(here)) /\ UNCHANGED outcome
     \/ /\ target = addr /\ IsPrinter(here) /\ failures < MaxFailures
        /\ failures' = failures + 1
        /\ refused' = (refused \/ (back # "armed" /\ attempts = 0))
  /\ host' = "running"
  /\ UNCHANGED <<runtime, device, shadowed, attempts>>

Enumerate ==
  /\ cpc = "enumerate"
  /\ (target = addr /\ IsPrinter(here) /\ Opens) \/ Fails
  /\ cpc' = back /\ back' = "events" /\ target' = 0
  /\ UNCHANGED <<port, events, resetRequested, due, polling, counts>>

Start ==
  /\ cpc = "start"
  /\ Scans("events")
  /\ UNCHANGED <<port, events, runtime, resetRequested, recovery, polling, counts, outcome>>

-----------------------------------------------------------------------------
(***************************************************************************)
(* usb_host_client_handle_events() and its callbacks                       *)
(***************************************************************************)

\* statusTransferCallback() and onPortStatusTransfer().  The driver answers for a
\* device that is open and on the port only.
StatusCallback ==
  /\ cpc = "events"
  /\ \E d \in DOMAIN wire, ok \in BOOLEAN :
       /\ wire[d] > 0 /\ (ok => d = open /\ d = here)
       /\ device' = IF ok THEN [device EXCEPT !.status = d] ELSE device
       /\ wire' = [wire EXCEPT ![d] = @ - 1]
  /\ statusTransfer' = FALSE
  /\ UNCHANGED <<port, events, runtime, resetRequested, recovery, statusPending, host,
                 shadowed, client, counts, outcome>>

\* clientEvent() for all that is due.  The driver calls back the transfers of a
\* device that left before it says so.
ClientEvent ==
  /\ Goes("events", "gone")
  /\ newDevice' = IF open = 0 /\ newDevice = 0 THEN announced ELSE newDevice
  /\ announced' = 0
  /\ open # 0 /\ open # here => wire[open] = 0
  /\ deviceGone' = (open # 0 /\ open # here)
  /\ UNCHANGED <<port, runtime, resetRequested, recovery, polling, shared, counts, outcome>>

\* The event loop reports an error: onEnumerationError() whatever is open.
EventError ==
  /\ cpc = "events" /\ errors < MaxErrors
  /\ host' = "running" /\ errors' = errors + 1 /\ shadowed' = (open # 0)
  /\ UNCHANGED <<port, events, runtime, resetRequested, recovery, polling, device, client,
                 bpc, resets, outcome>>

-----------------------------------------------------------------------------
(***************************************************************************)
(* The rest of a pass of clientTask()                                      *)
(***************************************************************************)

\* Variant: the status outlives the printer.
ClosesKeepsStatus ==
  /\ open' = 0 /\ claimed' = {} /\ statusTransfer' = FALSE
  /\ host' = "running" /\ device' = [NoDevice EXCEPT !.status = device.status]
  /\ shadowed' = FALSE
  /\ UNCHANGED <<statusPending, wire>>

\* closeDevice() and onDetached(), as one step.  A status transfer is forgotten, not
\* recalled.
Closes ==
  /\ open' = 0 /\ claimed' = {} /\ statusTransfer' = FALSE
  /\ host' = "running" /\ device' = NoDevice /\ shadowed' = FALSE
  /\ UNCHANGED <<statusPending, wire>>

\* Variant: the device that left stays published.
GoneStaysPublished ==
  /\ Goes("gone", "reset")
  /\ deviceGone' = FALSE
  /\ IF deviceGone
     THEN open' = 0 /\ claimed' = {} /\ statusTransfer' = FALSE /\ UNCHANGED <<statusPending, wire, shared>>
     ELSE UNCHANGED <<runtime, polling, shared>>
  /\ UNCHANGED <<port, announced, newDevice, resetRequested, recovery, counts, outcome>>

Gone ==
  /\ Goes("gone", "reset")
  /\ deviceGone' = FALSE
  /\ IF deviceGone THEN Closes ELSE UNCHANGED <<runtime, polling, shared>>
  /\ UNCHANGED <<port, announced, newDevice, resetRequested, recovery, counts, outcome>>

Reset ==
  /\ \/ Goes("reset", "reset_scan") /\ resetRequested /\ Closes
     \/ Goes("reset", "rescan") /\ ~resetRequested /\ UNCHANGED <<runtime, polling, shared>>
  /\ resetRequested' = FALSE
  /\ UNCHANGED <<port, events, recovery, counts, outcome>>

ResetScan ==
  /\ cpc = "reset_scan"
  /\ Scans("armed")
  /\ UNCHANGED <<port, events, runtime, resetRequested, recovery, polling, counts, outcome>>

\* Variant: the scan of the reset is the only one.
ArmedOnce ==
  /\ Goes("armed", "rescan")
  /\ UNCHANGED <<port, events, runtime, resetRequested, recovery, polling, shared, counts,
                 outcome>>

\* The rescans are set up whether or not the scan found the printer.
Armed ==
  /\ Goes("armed", "rescan")
  /\ attempts' = Rescans /\ due' = FALSE
  /\ UNCHANGED <<port, events, runtime, resetRequested, polling, shared, counts, outcome>>

\* Variant: the attempts are not looked at.
RescanUncounted ==
  /\ cpc = "rescan"
  /\ IF open = 0 /\ due
     THEN attempts' = attempts - 1 /\ due' = FALSE /\ Scans("status")
     ELSE Goes("rescan", "status") /\ UNCHANGED <<recovery, shared>>
  /\ UNCHANGED <<port, events, runtime, resetRequested, polling, counts, outcome>>

Rescan ==
  /\ cpc = "rescan"
  /\ IF open = 0 /\ attempts > 0 /\ due
     THEN attempts' = attempts - 1 /\ due' = FALSE /\ Scans("status")
     ELSE Goes("rescan", "status") /\ UNCHANGED <<recovery, shared>>
  /\ UNCHANGED <<port, events, runtime, resetRequested, polling, counts, outcome>>

\* Variant: a status transfer is submitted though one is on the wire.
SubmitAgain ==
  /\ Goes("status", "new")
  /\ IF statusPending /\ open # 0
     THEN /\ statusPending' = FALSE
          /\ \/ /\ open = here
                /\ statusTransfer' = TRUE /\ wire' = [wire EXCEPT ![open] = @ + 1]
             \/ UNCHANGED <<statusTransfer, wire>>
     ELSE UNCHANGED polling
  /\ UNCHANGED <<port, events, runtime, resetRequested, recovery, shared, counts, outcome>>

\* submitPortStatusIfPending().  A submission that fails gives the poll up.
SubmitStatus ==
  /\ Goes("status", "new")
  /\ IF statusPending /\ ~statusTransfer /\ open # 0
     THEN /\ statusPending' = FALSE
          /\ \/ /\ open = here
                /\ statusTransfer' = TRUE /\ wire' = [wire EXCEPT ![open] = @ + 1]
             \/ UNCHANGED <<statusTransfer, wire>>
     ELSE UNCHANGED polling
  /\ UNCHANGED <<port, events, runtime, resetRequested, recovery, shared, counts, outcome>>

New ==
  /\ cpc = "new"
  /\ IF newDevice # 0 /\ open = 0
     THEN newDevice' = 0 /\ Starts(newDevice, "events")
     ELSE Goes("new", "events") /\ UNCHANGED <<newDevice, shared>>
  /\ UNCHANGED <<port, announced, deviceGone, runtime, resetRequested, recovery, polling,
                 counts, outcome>>

-----------------------------------------------------------------------------
(***************************************************************************)
(* The loop task, the writer, time and the port                            *)
(***************************************************************************)

\* poll(), at most every 250 ms.
Poll ==
  /\ bpc = "done" /\ host = "ready" /\ ~statusPending
  /\ statusPending' = TRUE
  /\ UNCHANGED <<port, events, runtime, resetRequested, recovery, statusTransfer, wire,
                 shared, client, counts, outcome>>

\* waitSlotDone() gives a transfer up; bulkWrite() asks for a device that is open.
RequestReset ==
  /\ bpc = "done" /\ open # 0 /\ resets < MaxResets
  /\ resetRequested' = TRUE /\ resets' = resets + 1
  /\ UNCHANGED <<port, events, runtime, recovery, polling, shared, client, bpc,
                 errors, outcome>>

TwoSeconds ==
  /\ attempts > 0 /\ ~due
  /\ due' = TRUE
  /\ UNCHANGED <<port, events, runtime, resetRequested, attempts, polling, shared, client,
                 counts, outcome>>

\* The next device is enumerated by the library, which tells the client if it is
\* registered.
Plug ==
  /\ cpc # "off" /\ here = 0 /\ open = 0 /\ announced = 0 /\ last < Len(devices)
  /\ here' = last + 1 /\ last' = last + 1
  /\ addr' \in Addresses
  /\ announced' = IF cpc = "register" THEN 0 ELSE addr'
  /\ refused' = FALSE
  /\ UNCHANGED <<devices, newDevice, deviceGone, runtime, resetRequested, recovery, polling,
                 shared, client, counts, failures>>

Unplug ==
  /\ here # 0
  /\ here' = 0 /\ addr' = 0
  /\ UNCHANGED <<devices, last, events, runtime, resetRequested, recovery, polling, shared,
                 client, counts, outcome>>

ClientStep ==
  \/ Register \/ Start \/ Enumerate
  \/ StatusCallback \/ ClientEvent \/ EventError
  \/ Gone \/ Reset \/ ResetScan \/ Armed \/ Rescan \/ SubmitStatus \/ New

Next ==
  begin \/ BeginReturns \/ ClientStep \/ Poll \/ RequestReset \/ TwoSeconds \/ Plug \/ Unplug

Spec == Init /\ [][Next]_vars

\* The client task is scheduled and the clock runs.  The driver's event loop ends
\* its wait after 100 ms at most; the printer owes nothing.
FairSpec == Spec /\ WF_vars(ClientStep) /\ WF_vars(TwoSeconds)

-----------------------------------------------------------------------------
Pcs == {"off", "register", "start", "events", "gone", "reset", "reset_scan", "armed",
        "rescan", "status", "new", "enumerate"}

PortTypes ==
  /\ devices \in Histories
  /\ here \in 0..Len(devices) /\ last \in 0..Len(devices) /\ open \in 0..Len(devices)
  /\ addr \in Addresses \cup {0} /\ announced \in Addresses \cup {0}
  /\ newDevice \in Addresses \cup {0} /\ target \in Addresses \cup {0}
  /\ wire \in [DOMAIN devices -> Nat]

TaskTypes ==
  /\ host \in {"stopped", "running", "enumerating", "ready", "error"}
  /\ bpc \in {"begin", "started", "done"} /\ cpc \in Pcs /\ back \in Pcs

FlagTypes ==
  /\ deviceGone \in BOOLEAN /\ resetRequested \in BOOLEAN /\ due \in BOOLEAN
  /\ statusPending \in BOOLEAN /\ statusTransfer \in BOOLEAN
  /\ shadowed \in BOOLEAN /\ refused \in BOOLEAN

CountTypes ==
  /\ attempts \in 0..Rescans
  /\ failures \in 0..MaxFailures /\ resets \in 0..MaxResets /\ errors \in 0..MaxErrors

DeviceTypes ==
  /\ claimed \subseteq Nat
  /\ device \in [of : Nat, print : Nat, stat : Nat, status : Nat]

\* Every variable has its type.
TypeOK == PortTypes /\ TaskTypes /\ FlagTypes /\ CountTypes /\ DeviceTypes

\* Between two tests of the client task's loop, what the rest of the program sees as
\* attached is the device that is open, with the interfaces that are claimed; it is
\* shown as ready then and only then, unless begin() or an error of the event loop
\* stored the state over it.
PublishedIsOpen ==
  /\ device.of = open
  /\ open # 0 => claimed = {Offered(open)[i].number : i \in {device.print, device.stat}}
  /\ open # 0 /\ ~shadowed <=> host = "ready"

\* The port status shown was answered by the printer that is attached, never by
\* the one before it, whatever was on the wire when they were exchanged.
StatusIsOfThePrinter == device.status \in {0, device.of}

\* The status transfers that the driver has.
OnTheWire == UNION {{d} \X (1..wire[d]) : d \in DOMAIN wire}

\* A status transfer is waited for only while the driver has one, so that polling
\* cannot stop for good; and the driver has one at a time, except that every reset
\* may leave one behind.
StatusOneAtATime ==
  /\ statusTransfer => OnTheWire # {}
  /\ Cardinality(OnTheWire) <= 1 + resets

\* Of all that the open device describes, the interface to print on has a Bulk OUT
\* endpoint if any has one, none of those ranks above it, and the endpoints it is
\* used with are its own.  A separate status interface is not the same one under
\* another alternate setting, which the driver would be asked to claim again.
PrintsOnTheBest ==
  open # 0 =>
    LET c      == devices[open]
        i      == Position(c, device.print)
        usable == {j \in Offers(c) : Has(c, j, "out")}
    IN  /\ usable # {} => i \in usable /\ \A j \in usable : ~Lower(Rank(c, i), Rank(c, j))
        /\ \A dir \in {"out", "in"} :
             LET e == Offered(open)[device.print][dir]
             IN  IF Has(c, i, dir)
                 THEN \E j \in Block(c, i) : c[j].dir = dir /\ c[j].address = e
                 ELSE e = 0
        /\ device.stat # device.print => Cardinality(claimed) = 2

\* A printer that stays on the port is published in the end, whether it was there
\* before the client, announces itself, or is found again after a reset; unless its
\* enumeration failed when no rescan was left, or there is no client.
PrinterFound ==
  \A d \in UNION {DOMAIN h : h \in Histories} :
    (here = d /\ IsPrinter(d)) ~> (here # d \/ device.of = d \/ refused \/ cpc = "off")
=============================================================================
