------------------------ MODULE UsbEnumerationProofs ------------------------
(***************************************************************************)
(* What the other tasks read of the printer is the one that is open, and   *)
(* the best it has, for every history of the port and every number of      *)
(* resets and failures.                                                    *)
(*                                                                         *)
(* The client task is the only one that opens, closes and publishes, so    *)
(* the invariant says where in its loop nothing can be open: before it was *)
(* started, at its first scan, at the scan that follows a reset, and as    *)
(* long as it enumerates.  A device is published by the step that opens it *)
(* and a status is stored only for the device that is open, which is why   *)
(* the transfers that closeDevice() forgets do no harm.                    *)
(***************************************************************************)
EXTENDS UsbEnumeration, PrinterInterfacesProofs

NothingOpen ==
  /\ cpc \in {"off", "register", "start", "reset_scan", "enumerate"} => open = 0
  /\ bpc = "begin" => cpc = "off" /\ host = "stopped"
  /\ cpc = "enumerate" => back \notin {"off", "register", "start", "reset_scan", "enumerate"}

\* The claims are those of the interfaces chosen.
ClaimedAsPublished ==
  open # 0 => claimed = {Offered(open)[i].number : i \in {device.print, device.stat}}

DeviceIsOpen ==
  /\ device = [of |-> device.of, print |-> device.print, stat |-> device.stat,
                status |-> device.status]
  /\ device.of = open
  /\ StatusIsOfThePrinter

ReadyIsOpen ==
  /\ shadowed \in BOOLEAN
  /\ shadowed => open # 0
  /\ open # 0 /\ ~shadowed <=> host = "ready"

PublishedInv == NothingOpen /\ DeviceIsOpen /\ ClaimedAsPublished /\ ReadyIsOpen

LEMMA InitPublished == Init => PublishedInv
<1> SUFFICES ASSUME Init PROVE PublishedInv
  OBVIOUS
<1>1. /\ open = 0 /\ cpc = "off" /\ bpc = "begin" /\ host = "stopped" /\ shadowed = FALSE
      /\ device = [of |-> 0, print |-> 0, stat |-> 0, status |-> 0]
  BY DEF Init, NoDevice
<1> QED
  BY <1>1 DEF PublishedInv, NothingOpen, DeviceIsOpen, ClaimedAsPublished, ReadyIsOpen,
              StatusIsOfThePrinter

\* closeDevice() and onDetached() leave nothing open and nothing published.
LEMMA ClosesAll ==
  ASSUME Closes
  PROVE  /\ open' = 0 /\ host' = "running" /\ shadowed' = FALSE
         /\ device' = [of |-> 0, print |-> 0, stat |-> 0, status |-> 0]
BY DEF Closes, NoDevice

\* The steps that neither open nor close, publish nor change the state.
LEMMA NothingPublished ==
  ASSUME PublishedInv, NothingOpen',
         UNCHANGED <<devices, open, claimed, host, device, shadowed>>
  PROVE  PublishedInv'
<1>1. DeviceIsOpen' /\ ReadyIsOpen'
  BY DEF PublishedInv, DeviceIsOpen, StatusIsOfThePrinter, ReadyIsOpen
<1>2. ClaimedAsPublished'
  BY DEF PublishedInv, ClaimedAsPublished, Offered
<1> QED BY <1>1, <1>2 DEF PublishedInv

\* onEnumerationStarted() comes with nothing open.
LEMMA ScanPublished ==
  ASSUME PublishedInv, NothingOpen', open = 0, UNCHANGED <<devices, open, claimed>>,
         NEW return, Scans(return) \/ (\E a : Starts(a, return))
  PROVE  PublishedInv'
<1>1. /\ device' = device /\ shadowed' = shadowed
      /\ host' = host \/ host' = "enumerating"
  BY DEF Scans, Starts, shared
<1>2. DeviceIsOpen' /\ ReadyIsOpen'
  BY <1>1 DEF PublishedInv, DeviceIsOpen, StatusIsOfThePrinter, ReadyIsOpen
<1>3. ClaimedAsPublished'
  BY DEF ClaimedAsPublished
<1> QED BY <1>2, <1>3 DEF PublishedInv

\* enumerateDevice() and publish(): what is opened is what is published.
LEMMA EnumeratePublished ==
  ASSUME PublishedInv, Enumerate
  PROVE  PublishedInv'
<1>0. open = 0 /\ cpc = "enumerate" /\ devices' = devices /\ bpc' = bpc /\ bpc # "begin"
  BY DEF PublishedInv, NothingOpen, Enumerate, port, counts
<1>1. NothingOpen'
  BY <1>0 DEF PublishedInv, NothingOpen, Enumerate
<1>2. CASE target = addr /\ IsPrinter(here) /\ Opens
  <2> DEFINE print == ChosenFor[devices[here]][1]
             stat  == ChosenFor[devices[here]][2]
  <2>1. here # 0
    BY <1>2 DEF IsPrinter
  <2>2. PICK st \in (IF stat = 0 THEN {print} ELSE {stat, print}) :
          /\ claimed' = {Offered(here)[print].number, Offered(here)[st].number}
          /\ device' = [of |-> here, print |-> print, stat |-> st, status |-> 0]
    BY <1>2 DEF Opens
  <2>3. open' = here /\ host' = "ready" /\ shadowed' = shadowed
    BY <1>2 DEF Opens
  <2>4. ClaimedAsPublished'
    <3>1. claimed' = {Offered(here)[i].number : i \in {print, st}}
      BY <2>2
    <3>2. device'.print = print /\ device'.stat = st
      BY <2>2
    <3>3. Offered(open)' = Offered(here)
      BY <2>3, <1>0 DEF Offered
    <3> QED BY <3>1, <3>2, <3>3 DEF ClaimedAsPublished, Offered
  <2>5. DeviceIsOpen'
    BY <2>2, <2>3 DEF DeviceIsOpen, StatusIsOfThePrinter
  <2>6. ReadyIsOpen'
    BY <2>1, <2>3, <1>0 DEF PublishedInv, ReadyIsOpen
  <2> QED BY <1>1, <2>4, <2>5, <2>6 DEF PublishedInv
<1>3. CASE Fails
  <2>1. open' = 0 /\ host' = "running" /\ device' = device /\ shadowed' = shadowed
    BY <1>0, <1>3 DEF Fails, runtime
  <2>2. ClaimedAsPublished'
    BY <2>1 DEF ClaimedAsPublished
  <2>3. DeviceIsOpen' /\ ReadyIsOpen'
    BY <2>1, <1>0 DEF PublishedInv, DeviceIsOpen, StatusIsOfThePrinter, ReadyIsOpen
  <2> QED BY <1>1, <2>2, <2>3 DEF PublishedInv
<1> QED BY <1>2, <1>3 DEF Enumerate

\* Going on with everything closed.
LEMMA ClosesPublished ==
  ASSUME PublishedInv, Closes, cpc # "off", bpc' = bpc,
         cpc' # "enumerate"
  PROVE  PublishedInv'
<1>1. NothingOpen'
  BY ClosesAll DEF PublishedInv, NothingOpen
<1>2. DeviceIsOpen' /\ ReadyIsOpen' /\ ClaimedAsPublished'
  BY ClosesAll DEF DeviceIsOpen, StatusIsOfThePrinter, ReadyIsOpen, ClaimedAsPublished
<1> QED BY <1>1, <1>2 DEF PublishedInv

\* A step of the client task's loop that opens, closes and publishes nothing.
LEMMA PassesPublished ==
  ASSUME PublishedInv, cpc # "off", bpc' = bpc,
         \/ cpc' \notin {"off", "register", "start", "reset_scan", "enumerate"}
         \/ cpc = "register",
         cpc' # "enumerate",
         UNCHANGED <<devices, open, claimed, host, device, shadowed>>
  PROVE  PublishedInv'
<1>1. NothingOpen'
  BY DEF PublishedInv, NothingOpen
<1> QED BY <1>1, NothingPublished

\* Every step keeps it.
LEMMA StepPublished ==
  ASSUME PublishedInv, [Next]_vars
  PROVE  PublishedInv'
<1>a. CASE begin
  <2>1. /\ open = 0 /\ cpc = "off" /\ host = "stopped" /\ bpc' # "begin"
        /\ UNCHANGED <<devices, open, claimed, device, shadowed>>
        /\ cpc' \in {"off", "register"} /\ host' \in {"error", "stopped"}
    BY <1>a DEF begin, PublishedInv, NothingOpen, port, runtime
  <2>2. NothingOpen' /\ ReadyIsOpen'
    BY <2>1 DEF PublishedInv, NothingOpen, ReadyIsOpen
  <2>3. DeviceIsOpen' /\ ClaimedAsPublished'
    BY <2>1 DEF PublishedInv, DeviceIsOpen, StatusIsOfThePrinter, ClaimedAsPublished
  <2> QED BY <2>2, <2>3 DEF PublishedInv
<1>b. CASE BeginReturns \/ EventError
  <2>1. /\ host' = "running" /\ shadowed' = (open # 0)
        /\ UNCHANGED <<devices, open, claimed, device, cpc, back>>
        /\ bpc' = "begin" => bpc = "begin" /\ cpc # "off"
    BY <1>b DEF BeginReturns, EventError, port, runtime, client
  <2>2. NothingOpen' /\ ReadyIsOpen'
    BY <2>1 DEF PublishedInv, NothingOpen, ReadyIsOpen
  <2>3. DeviceIsOpen' /\ ClaimedAsPublished'
    BY <2>1 DEF PublishedInv, DeviceIsOpen, StatusIsOfThePrinter, ClaimedAsPublished, Offered
  <2> QED BY <2>2, <2>3 DEF PublishedInv
<1>c. CASE Register
  <2>1. /\ open = 0 /\ cpc = "register" /\ cpc' \in {"start", "off"} /\ bpc # "begin"
        /\ host' \in {host, "running"}
        /\ UNCHANGED <<devices, open, claimed, device, shadowed, bpc>>
    BY <1>c DEF Register, Goes, PublishedInv, NothingOpen, port, runtime, counts
  <2>2. NothingOpen' /\ ReadyIsOpen'
    BY <2>1 DEF PublishedInv, NothingOpen, ReadyIsOpen
  <2>3. DeviceIsOpen' /\ ClaimedAsPublished'
    BY <2>1 DEF PublishedInv, DeviceIsOpen, StatusIsOfThePrinter, ClaimedAsPublished
  <2> QED BY <2>2, <2>3 DEF PublishedInv
<1>d. CASE Start
  <2>1. open = 0 /\ cpc = "start" /\ bpc' = bpc /\ Scans("events")
        /\ UNCHANGED <<devices, open, claimed>>
    BY <1>d DEF Start, PublishedInv, NothingOpen, port, runtime, counts
  <2>2. NothingOpen'
    BY <2>1 DEF Scans, Starts, PublishedInv, NothingOpen
  <2> QED BY <2>1, <2>2, ScanPublished
<1>e. CASE Enumerate
  BY <1>e, EnumeratePublished
<1>f. CASE StatusCallback
  <2>1. PICK d \in DOMAIN wire, ok \in BOOLEAN :
          /\ ok => d = open /\ d = here
          /\ device' = IF ok THEN [device EXCEPT !.status = d] ELSE device
    BY <1>f DEF StatusCallback
  <2>2. UNCHANGED <<devices, open, claimed, host, shadowed, cpc, back, bpc>>
    BY <1>f DEF StatusCallback, port, runtime, client, counts
  <2>3. /\ device'.of = device.of /\ device'.print = device.print
        /\ device'.stat = device.stat /\ device'.status \in {device.status, open}
        /\ device' = [of |-> device'.of, print |-> device'.print, stat |-> device'.stat,
                      status |-> device'.status]
    BY <2>1 DEF PublishedInv, DeviceIsOpen
  <2>4. DeviceIsOpen'
    BY <2>2, <2>3 DEF PublishedInv, DeviceIsOpen, StatusIsOfThePrinter
  <2>5. NothingOpen' /\ ReadyIsOpen'
    BY <2>2 DEF PublishedInv, NothingOpen, ReadyIsOpen
  <2>6. ClaimedAsPublished'
    BY <2>2, <2>3 DEF PublishedInv, ClaimedAsPublished, Offered
  <2> QED BY <2>4, <2>5, <2>6 DEF PublishedInv
<1>g. CASE ClientEvent
  BY <1>g, PassesPublished DEF ClientEvent, Goes, port, runtime, shared, counts
<1>h. CASE Gone
  <2>1. cpc = "gone" /\ cpc' = "reset" /\ bpc' = bpc /\ devices' = devices
    BY <1>h DEF Gone, Goes, port, counts
  <2>2. CASE deviceGone
    BY <1>h, <2>1, <2>2, ClosesPublished DEF Gone, Goes
  <2>3. CASE ~deviceGone
    BY <1>h, <2>1, <2>3, PassesPublished DEF Gone, runtime, shared
  <2> QED BY <2>2, <2>3
<1>i. CASE Reset
  <2>1. cpc = "reset" /\ bpc' = bpc /\ devices' = devices
    BY <1>i DEF Reset, Goes, port, counts
  <2>2. CASE Closes
    BY <1>i, <2>1, <2>2, ClosesPublished DEF Reset, Goes
  <2>3. CASE Goes("reset", "rescan") /\ UNCHANGED <<runtime, polling, shared>>
    BY <2>1, <2>3, PassesPublished DEF Goes, runtime, shared
  <2> QED BY <1>i, <2>2, <2>3 DEF Reset
<1>j. CASE ResetScan
  <2>1. open = 0 /\ cpc = "reset_scan" /\ bpc' = bpc /\ Scans("armed")
        /\ UNCHANGED <<devices, open, claimed>>
    BY <1>j DEF ResetScan, PublishedInv, NothingOpen, port, runtime, counts
  <2>2. NothingOpen'
    BY <2>1 DEF Scans, Starts, PublishedInv, NothingOpen
  <2> QED BY <2>1, <2>2, ScanPublished
<1>k. CASE Armed
  BY <1>k, PassesPublished DEF Armed, Goes, port, runtime, shared, counts
<1>l. CASE Rescan
  <2>1. cpc = "rescan" /\ bpc' = bpc /\ UNCHANGED <<devices, open, claimed>>
    BY <1>l DEF Rescan, port, runtime, counts
  <2>2. CASE open = 0 /\ Scans("status")
    <3>1. NothingOpen'
      BY <2>1, <2>2 DEF Scans, Starts, PublishedInv, NothingOpen
    <3> QED BY <2>1, <2>2, <3>1, ScanPublished
  <2>3. CASE Goes("rescan", "status") /\ UNCHANGED <<recovery, shared>>
    BY <2>1, <2>3, PassesPublished DEF Goes, shared
  <2> QED BY <1>l, <2>2, <2>3 DEF Rescan
<1>m. CASE SubmitStatus
  BY <1>m, PassesPublished DEF SubmitStatus, Goes, port, runtime, shared, counts
<1>n. CASE New
  <2>1. cpc = "new" /\ bpc' = bpc /\ UNCHANGED <<devices, open, claimed>>
    BY <1>n DEF New, port, runtime, counts
  <2>2. CASE open = 0 /\ Starts(newDevice, "events")
    <3>1. NothingOpen'
      BY <2>1, <2>2 DEF Starts, PublishedInv, NothingOpen
    <3> QED BY <2>1, <2>2, <3>1, ScanPublished
  <2>3. CASE Goes("new", "events") /\ UNCHANGED <<newDevice, shared>>
    BY <2>1, <2>3, PassesPublished DEF Goes, shared
  <2> QED BY <1>n, <2>2, <2>3 DEF New
<1>o. CASE Poll \/ RequestReset \/ TwoSeconds \/ Plug \/ Unplug \/ UNCHANGED vars
  <2>1. UNCHANGED <<devices, open, claimed, host, device, shadowed, cpc, back, bpc>>
    BY <1>o DEF Poll, RequestReset, TwoSeconds, Plug, Unplug, vars, port, runtime, shared,
                client, counts
  <2>2. NothingOpen'
    BY <2>1 DEF PublishedInv, NothingOpen
  <2> QED BY <2>1, <2>2, NothingPublished
<1> QED
  BY <1>a, <1>b, <1>c, <1>d, <1>e, <1>f, <1>g, <1>h, <1>i, <1>j, <1>k, <1>l, <1>m, <1>n, <1>o
  DEF Next, ClientStep

LEMMA AlwaysPublished == Spec => []PublishedInv
<1>1. PublishedInv /\ [Next]_vars => PublishedInv'
  BY StepPublished
<1> QED BY <1>1, InitPublished, PTL DEF Spec

\* onDetached(), publish() and the state stores of begin() and the event loop: the
\* loop task and the writer take for attached the device that is open, with the
\* interfaces that are claimed, and it is shown as ready unless the state was
\* stored over it.
THEOREM PublishedIsTheOpenDevice == Spec => []PublishedIsOpen
<1>1. PublishedInv => PublishedIsOpen
  BY DEF PublishedInv, DeviceIsOpen, ClaimedAsPublished, ReadyIsOpen, PublishedIsOpen
<1> QED BY <1>1, AlwaysPublished, PTL

\* onPortStatusTransfer() and onDetached(): a status shown is of the printer that is
\* attached, however many transfers closeDevice() left on the wire.
THEOREM StatusIsItsOwn == Spec => []StatusIsOfThePrinter
<1>1. PublishedInv => StatusIsOfThePrinter
  BY DEF PublishedInv, DeviceIsOpen
<1> QED BY <1>1, AlwaysPublished, PTL

-----------------------------------------------------------------------------
(***************************************************************************)
(* Types                                                                   *)
(***************************************************************************)
\* Devices are numbered from 1.
LEMMA DeviceIndexes ==
  ASSUME PortTypes
  PROVE  Len(devices) \in Nat /\ DOMAIN devices = 1..Len(devices)
  BY EnumerationAssumption DEF PortTypes

LEMMA PlainInit == Init => PortTypes /\ TaskTypes /\ FlagTypes /\ CountTypes
<1> SUFFICES ASSUME Init PROVE PortTypes /\ TaskTypes /\ FlagTypes /\ CountTypes
  OBVIOUS
<1>1. devices \in Histories /\ Len(devices) \in Nat /\ wire \in [DOMAIN devices -> Nat]
  BY EnumerationAssumption DEF Init
<1>2. PortTypes
  BY <1>1 DEF Init, PortTypes
<1>3. TaskTypes
  BY DEF Init, TaskTypes, Pcs
<1>4. FlagTypes
  BY DEF Init, FlagTypes
<1>5. CountTypes
  BY EnumerationAssumption DEF Init, CountTypes
<1> QED
  BY <1>2, <1>3, <1>4, <1>5

LEMMA PortStep ==
  ASSUME PortTypes, [Next]_vars
  PROVE  PortTypes'
<1>0. Len(devices) \in Nat /\ DOMAIN devices = 1..Len(devices)
  BY DeviceIndexes
<1> USE DEF PortTypes, Goes, Starts, Scans, port, events, runtime, polling, client, shared
<1>1. CASE begin \/ BeginReturns \/ Register \/ Start
  BY <1>0, <1>1 DEF begin, BeginReturns, Register, Start
<1>2. CASE Enumerate
  <2>1. /\ UNCHANGED <<devices, here, last, addr, announced, newDevice, wire>>
        /\ target' = 0 /\ open' \in {open, here}
    BY <1>2 DEF Enumerate, Opens, Fails
  <2> QED
    BY <1>0, <2>1
<1>3. CASE StatusCallback
  <2>1. /\ UNCHANGED <<devices, here, last, addr, announced, newDevice, target, open>>
    BY <1>3 DEF StatusCallback
  <2>2. PICK d \in DOMAIN wire : wire[d] > 0 /\ wire' = [wire EXCEPT ![d] = @ - 1]
    BY <1>3 DEF StatusCallback
  <2>3. wire[d] - 1 \in Nat
    BY <2>2
  <2>4. wire' \in [DOMAIN devices -> Nat]
    BY <2>2, <2>3
  <2> QED
    BY <2>1, <2>4
<1>4. CASE ClientEvent \/ EventError
  BY <1>4 DEF ClientEvent, EventError
<1>5. CASE Gone \/ Reset
  BY <1>0, <1>5 DEF Gone, Reset, Closes
<1>6. CASE ResetScan \/ Armed \/ Rescan
  BY <1>0, <1>6 DEF ResetScan, Armed, Rescan, recovery
<1>7. CASE SubmitStatus
  <2>1. UNCHANGED <<devices, here, last, addr, announced, newDevice, target, open>>
    BY <1>7 DEF SubmitStatus
  <2>2. CASE wire' = wire
    BY <2>1, <2>2
  <2>3. CASE open # 0 /\ wire' = [wire EXCEPT ![open] = @ + 1]
    <3>1. open \in DOMAIN devices
      BY <1>0, <2>3
    <3>2. wire' \in [DOMAIN devices -> Nat]
      BY <2>3, <3>1
    <3> QED
      BY <2>1, <3>2
  <2> QED
    BY <1>7, <2>2, <2>3 DEF SubmitStatus
<1>8. CASE New
  BY <1>0, <1>8 DEF New
<1>9. CASE Poll \/ RequestReset \/ TwoSeconds \/ UNCHANGED vars
  BY <1>9 DEF Poll, RequestReset, TwoSeconds, vars
<1>10. CASE Plug \/ Unplug
  BY <1>0, <1>10 DEF Plug, Unplug
<1> QED
  BY <1>1, <1>2, <1>3, <1>4, <1>5, <1>6, <1>7, <1>8, <1>9, <1>10 DEF Next, ClientStep

LEMMA TaskStep ==
  ASSUME TaskTypes, [Next]_vars
  PROVE  TaskTypes'
<1> USE DEF TaskTypes, Pcs, Goes, Starts, Scans, client, shared, counts
<1>1. CASE begin \/ BeginReturns \/ Register \/ Start
  BY <1>1 DEF begin, BeginReturns, Register, Start
<1>2. CASE Enumerate
  BY <1>2 DEF Enumerate, Opens, Fails
<1>3. CASE StatusCallback \/ ClientEvent \/ EventError
  BY <1>3 DEF StatusCallback, ClientEvent, EventError
<1>4. CASE Gone \/ Reset
  BY <1>4 DEF Gone, Reset, Closes
<1>5. CASE ResetScan \/ Armed \/ Rescan
  BY <1>5 DEF ResetScan, Armed, Rescan, recovery
<1>6. CASE SubmitStatus \/ New
  BY <1>6 DEF SubmitStatus, New
<1>7. CASE Poll \/ RequestReset \/ TwoSeconds \/ Plug \/ Unplug \/ UNCHANGED vars
  BY <1>7 DEF Poll, RequestReset, TwoSeconds, Plug, Unplug, vars
<1> QED
  BY <1>1, <1>2, <1>3, <1>4, <1>5, <1>6, <1>7 DEF Next, ClientStep

LEMMA FlagStep ==
  ASSUME FlagTypes, [Next]_vars
  PROVE  FlagTypes'
<1> USE DEF FlagTypes, Goes, Starts, Scans, shared, events, recovery, polling, outcome
<1>1. CASE begin \/ BeginReturns \/ Register \/ Start
  BY <1>1 DEF begin, BeginReturns, Register, Start
<1>2. CASE Enumerate
  BY <1>2 DEF Enumerate, Opens, Fails
<1>3. CASE StatusCallback \/ ClientEvent \/ EventError
  BY <1>3 DEF StatusCallback, ClientEvent, EventError
<1>4. CASE Gone \/ Reset
  BY <1>4 DEF Gone, Reset, Closes
<1>5. CASE ResetScan \/ Armed \/ Rescan
  BY <1>5 DEF ResetScan, Armed, Rescan
<1>6. CASE SubmitStatus \/ New
  BY <1>6 DEF SubmitStatus, New
<1>7. CASE Poll \/ RequestReset \/ TwoSeconds \/ Plug \/ Unplug \/ UNCHANGED vars
  BY <1>7 DEF Poll, RequestReset, TwoSeconds, Plug, Unplug, vars
<1> QED
  BY <1>1, <1>2, <1>3, <1>4, <1>5, <1>6, <1>7 DEF Next, ClientStep

LEMMA CountStep ==
  ASSUME CountTypes, [Next]_vars
  PROVE  CountTypes'
<1>0. Rescans \in Nat /\ MaxFailures \in Nat /\ MaxResets \in Nat /\ MaxErrors \in Nat
  BY EnumerationAssumption
<1> USE DEF CountTypes, recovery, counts, outcome
<1>1. CASE begin \/ BeginReturns \/ Register \/ Start
  BY <1>1 DEF begin, BeginReturns, Register, Start
<1>2. CASE Enumerate
  BY <1>0, <1>2 DEF Enumerate, Opens, Fails
<1>3. CASE StatusCallback \/ ClientEvent \/ EventError
  BY <1>0, <1>3 DEF StatusCallback, ClientEvent, EventError
<1>4. CASE Gone \/ Reset
  BY <1>4 DEF Gone, Reset
<1>5. CASE ResetScan \/ Armed \/ Rescan
  BY <1>0, <1>5 DEF ResetScan, Armed, Rescan
<1>6. CASE SubmitStatus \/ New
  BY <1>6 DEF SubmitStatus, New
<1>7. CASE Poll \/ RequestReset \/ TwoSeconds \/ Plug \/ Unplug \/ UNCHANGED vars
  BY <1>0, <1>7 DEF Poll, RequestReset, TwoSeconds, Plug, Unplug, vars
<1> QED
  BY <1>1, <1>2, <1>3, <1>4, <1>5, <1>6, <1>7 DEF Next, ClientStep

-----------------------------------------------------------------------------
(***************************************************************************)
(* The status transfers                                                    *)
(***************************************************************************)

\* A transfer more, and a transfer less, of one device.
LEMMA OneMore ==
  ASSUME PortTypes, IsFiniteSet(OnTheWire), NEW d \in DOMAIN devices,
         wire' = [wire EXCEPT ![d] = @ + 1]
  PROVE  /\ IsFiniteSet(OnTheWire)' /\ Cardinality(OnTheWire)' = Cardinality(OnTheWire) + 1
         /\ Cardinality(OnTheWire) \in Nat
<1>1. wire \in [DOMAIN devices -> Nat] /\ wire[d] \in Nat
  BY DEF PortTypes
<1>2. DOMAIN wire' = DOMAIN wire /\ wire'[d] = wire[d] + 1
      /\ \A e \in DOMAIN wire : e # d => wire'[e] = wire[e]
  BY <1>1
<1>3. 1..(wire[d] + 1) = (1..wire[d]) \cup {wire[d] + 1}
  BY <1>1
<1>4. OnTheWire' = OnTheWire \cup {<<d, wire[d] + 1>>}
  BY <1>1, <1>2, <1>3 DEF OnTheWire
<1>5. <<d, wire[d] + 1>> \notin OnTheWire
  BY <1>1 DEF OnTheWire
<1>6. Cardinality(OnTheWire) \in Nat
  BY FS_CardinalityType
<1> QED
  BY <1>4, <1>5, <1>6, FS_AddElement

LEMMA OneLess ==
  ASSUME PortTypes, IsFiniteSet(OnTheWire), NEW d \in DOMAIN devices, wire[d] > 0,
         wire' = [wire EXCEPT ![d] = @ - 1]
  PROVE  /\ IsFiniteSet(OnTheWire)' /\ Cardinality(OnTheWire)' = Cardinality(OnTheWire) - 1
         /\ Cardinality(OnTheWire) \in Nat
<1>1. wire \in [DOMAIN devices -> Nat] /\ wire[d] \in Nat
  BY DEF PortTypes
<1>2. DOMAIN wire' = DOMAIN wire /\ wire'[d] = wire[d] - 1
      /\ \A e \in DOMAIN wire : e # d => wire'[e] = wire[e]
  BY <1>1
<1>3. 1..(wire[d] - 1) = (1..wire[d]) \ {wire[d]}
  BY <1>1
<1>4. OnTheWire' = OnTheWire \ {<<d, wire[d]>>}
  BY <1>1, <1>2, <1>3 DEF OnTheWire
<1>5. <<d, wire[d]>> \in OnTheWire
  BY <1>1 DEF OnTheWire
<1>6. Cardinality(OnTheWire) \in Nat
  BY FS_CardinalityType
<1> QED
  BY <1>4, <1>5, <1>6, FS_RemoveElement

\* A flag as a count.
One(b) == IF b THEN 1 ELSE 0

\* Every reset that was carried out left at most one transfer behind; the others are
\* waited for, one at a time.  A device whose transfers have not all come back is
\* not reported gone.
WireInv ==
  /\ IsFiniteSet(OnTheWire)
  /\ statusTransfer => open # 0 /\ wire[open] > 0
  /\ deviceGone => ~statusTransfer
  /\ Cardinality(OnTheWire) + One(resetRequested) <= resets + One(statusTransfer)

\* A device that left is closed before anything else is done.
GoneInv == deviceGone => cpc = "gone"

TransferInv == PortTypes /\ FlagTypes /\ CountTypes /\ PublishedInv /\ GoneInv /\ WireInv

LEMMA GoneStep ==
  ASSUME PublishedInv, GoneInv, [Next]_vars
  PROVE  GoneInv'
<1> USE DEF GoneInv, Goes, Starts, Scans, events, client
<1>1. CASE begin \/ BeginReturns \/ Register \/ Start \/ Enumerate
  BY <1>1 DEF begin, BeginReturns, Register, Start, Enumerate, PublishedInv, NothingOpen
<1>2. CASE StatusCallback \/ ClientEvent \/ EventError \/ Gone \/ Reset
  BY <1>2 DEF StatusCallback, ClientEvent, EventError, Gone, Reset
<1>3. CASE ResetScan \/ Armed \/ Rescan \/ SubmitStatus \/ New
  BY <1>3 DEF ResetScan, Armed, Rescan, SubmitStatus, New
<1>4. CASE Poll \/ RequestReset \/ TwoSeconds \/ Plug \/ Unplug \/ UNCHANGED vars
  BY <1>4 DEF Poll, RequestReset, TwoSeconds, Plug, Unplug, vars
<1> QED
  BY <1>1, <1>2, <1>3, <1>4 DEF Next, ClientStep

LEMMA WireInit == Init => WireInv
<1> SUFFICES ASSUME Init PROVE WireInv
  OBVIOUS
<1>1. OnTheWire = {}
  BY DEF Init, OnTheWire
<1>2. IsFiniteSet(OnTheWire) /\ Cardinality(OnTheWire) = 0
  BY <1>1, FS_EmptySet
<1> QED
  BY <1>2 DEF Init, WireInv, One

\* What leaves the transfers alone keeps the invariant as long as it closes nothing
\* but what has no transfer, or carries out a reset.
LEMMA WireKept ==
  ASSUME TransferInv, wire' = wire, UNCHANGED <<statusTransfer, resets, resetRequested>>,
         statusTransfer => open' = open /\ (deviceGone' => deviceGone)
  PROVE  WireInv'
  BY DEF TransferInv, WireInv, One, OnTheWire

LEMMA WireStep ==
  ASSUME TransferInv, [Next]_vars
  PROVE  WireInv'
<1>0. /\ resets \in Nat /\ statusTransfer \in BOOLEAN /\ resetRequested \in BOOLEAN
      /\ deviceGone \in BOOLEAN
      /\ Cardinality(OnTheWire) \in Nat /\ DOMAIN devices = 1..Len(devices)
      /\ Len(devices) \in Nat /\ open \in 0..Len(devices) /\ DOMAIN wire = DOMAIN devices
  BY DeviceIndexes, FS_CardinalityType, EnumerationAssumption
     DEF TransferInv, FlagTypes, CountTypes, WireInv, PortTypes
<1> USE DEF Goes, Starts, Scans, shared, events, recovery, polling, counts, runtime
<1>1. CASE begin \/ BeginReturns \/ Register \/ Start
  BY <1>1, WireKept DEF begin, BeginReturns, Register, Start
<1>2. CASE Enumerate
  <2>1. ~statusTransfer
    BY <1>2 DEF Enumerate, TransferInv, PublishedInv, NothingOpen, WireInv
  <2> QED
    BY <1>2, <2>1, WireKept DEF Enumerate
<1>3. CASE StatusCallback
  <2>1. PICK d \in DOMAIN wire : wire[d] > 0 /\ wire' = [wire EXCEPT ![d] = @ - 1]
    BY <1>3 DEF StatusCallback
  <2>2. statusTransfer' = FALSE /\ UNCHANGED <<open, resets, resetRequested, deviceGone>>
    BY <1>3 DEF StatusCallback
  <2>3. IsFiniteSet(OnTheWire)' /\ Cardinality(OnTheWire)' = Cardinality(OnTheWire) - 1
    BY <1>0, <2>1, OneLess DEF TransferInv, WireInv
  <2> QED
    BY <1>0, <2>2, <2>3 DEF TransferInv, WireInv, One
<1>4. CASE ClientEvent
  <2>1. deviceGone' => ~statusTransfer
    BY <1>0, <1>4 DEF ClientEvent, TransferInv, WireInv
  <2>2. UNCHANGED <<open, wire, statusTransfer, resets, resetRequested>>
    BY <1>4 DEF ClientEvent
  <2>3. CASE statusTransfer
    BY <2>1, <2>2, <2>3, WireKept
  <2>4. CASE ~statusTransfer
    BY <2>2, <2>4, WireKept
  <2> QED
    BY <2>3, <2>4
<1>5. CASE EventError
  BY <1>5, WireKept DEF EventError
<1>6. CASE Gone
  <2>1. UNCHANGED <<wire, resets, resetRequested>> /\ deviceGone' = FALSE
    BY <1>6 DEF Gone, Closes
  <2>2. CASE deviceGone
    <3>1. statusTransfer' = FALSE /\ ~statusTransfer
      BY <1>6, <2>2 DEF Gone, Closes, TransferInv, WireInv
    <3> QED
      BY <1>0, <2>1, <3>1, WireKept
  <2>3. CASE ~deviceGone
    BY <1>6, <2>1, <2>3, WireKept DEF Gone
  <2> QED
    BY <2>2, <2>3
<1>7. CASE Reset
  <2>1. UNCHANGED <<wire, resets, deviceGone>> /\ resetRequested' = FALSE
    BY <1>7 DEF Reset, Closes
  <2>2. OnTheWire' = OnTheWire
    BY <2>1 DEF OnTheWire
  <2>3. CASE resetRequested
    <3>1. statusTransfer' = FALSE
      BY <1>7, <2>3 DEF Reset, Closes
    <3> QED
      BY <1>0, <2>1, <2>2, <2>3, <3>1 DEF TransferInv, WireInv, One
  <2>4. CASE ~resetRequested
    <3>1. UNCHANGED <<statusTransfer, open>>
      BY <1>7, <2>4 DEF Reset
    <3> QED
      BY <1>0, <2>1, <2>2, <2>4, <3>1 DEF TransferInv, WireInv, One
  <2> QED
    BY <2>3, <2>4
<1>8. CASE ResetScan \/ Armed \/ Rescan
  BY <1>8, WireKept DEF ResetScan, Armed, Rescan
<1>9. CASE SubmitStatus
  <2>1. UNCHANGED <<open, resets, resetRequested, deviceGone>>
    BY <1>9 DEF SubmitStatus
  <2>2. CASE UNCHANGED <<statusTransfer, wire>>
    BY <2>1, <2>2, WireKept
  <2>3. CASE /\ ~statusTransfer /\ statusTransfer' = TRUE /\ open # 0 /\ open = here
             /\ wire' = [wire EXCEPT ![open] = @ + 1]
    <3>1. open \in DOMAIN devices
      BY <1>0, <2>3
    <3>2. /\ IsFiniteSet(OnTheWire)' /\ Cardinality(OnTheWire)' = Cardinality(OnTheWire) + 1
      BY <2>3, <3>1, OneMore DEF TransferInv, WireInv
    <3>3. wire'[open'] > 0
      BY <1>0, <2>1, <2>3, <3>1 DEF TransferInv, PortTypes
    <3>4. ~deviceGone
      BY <1>9 DEF SubmitStatus, TransferInv, GoneInv
    <3> QED
      BY <1>0, <2>1, <2>3, <3>2, <3>3, <3>4 DEF TransferInv, WireInv, One
  <2> QED
    BY <1>9, <2>2, <2>3 DEF SubmitStatus
<1>10. CASE New
  BY <1>10, WireKept DEF New
<1>11. CASE RequestReset
  <2>1. /\ UNCHANGED <<open, wire, statusTransfer, deviceGone>> /\ resetRequested' = TRUE
        /\ resets' = resets + 1
    BY <1>11 DEF RequestReset
  <2>2. OnTheWire' = OnTheWire
    BY <2>1 DEF OnTheWire
  <2> QED
    BY <1>0, <2>1, <2>2 DEF TransferInv, WireInv, One
<1>12. CASE Poll \/ TwoSeconds \/ Plug \/ Unplug \/ UNCHANGED vars
  BY <1>12, WireKept DEF Poll, TwoSeconds, Plug, Unplug, vars
<1> QED
  BY <1>1, <1>2, <1>3, <1>4, <1>5, <1>6, <1>7, <1>8, <1>9, <1>10, <1>11, <1>12
  DEF Next, ClientStep

LEMMA TransferStep == TransferInv /\ [Next]_vars => TransferInv'
BY PortStep, FlagStep, CountStep, StepPublished, GoneStep, WireStep
   DEF TransferInv, PublishedInv

LEMMA TransferInit == Init => TransferInv
<1>1. Init => GoneInv
  BY DEF Init, GoneInv
<1> QED
  BY <1>1, PlainInit, InitPublished, WireInit DEF TransferInv
LEMMA AlwaysTransfers == Spec => []TransferInv
  BY TransferInit, TransferStep, PTL DEF Spec

\* submitPortStatusIfPending(), statusTransferCallback() and closeDevice(): polling
\* never waits for a transfer that the driver does not have, and the driver has one
\* at a time, but for those that resets left behind.
THEOREM OneStatusTransfer == Spec => []StatusOneAtATime
<1>1. TransferInv => StatusOneAtATime
  <2> SUFFICES ASSUME TransferInv PROVE StatusOneAtATime
    OBVIOUS
  <2>1. /\ resets \in Nat /\ Cardinality(OnTheWire) \in Nat
        /\ wire \in [DOMAIN devices -> Nat] /\ open \in 0..Len(devices)
        /\ Len(devices) \in Nat /\ DOMAIN devices = 1..Len(devices)
    BY DeviceIndexes, FS_CardinalityType, EnumerationAssumption
       DEF TransferInv, WireInv, CountTypes, PortTypes
  <2>2. Cardinality(OnTheWire) <= 1 + resets
    BY <2>1 DEF TransferInv, WireInv, One
  <2>3. ASSUME statusTransfer PROVE <<open, 1>> \in OnTheWire
    <3>1. open \in DOMAIN wire /\ 1 \in 1..wire[open]
      BY <2>1, <2>3 DEF TransferInv, WireInv
    <3> QED
      BY <3>1 DEF OnTheWire
  <2> QED
    BY <2>2, <2>3 DEF StatusOneAtATime
<1> QED
  BY <1>1, AlwaysTransfers, PTL

-----------------------------------------------------------------------------
(***************************************************************************)
(* The interfaces in use                                                   *)
(***************************************************************************)

\* What is open is used with the interfaces chosen for it.
ChosenInv ==
  /\ open = 0 => claimed = {} /\ device.print = 0 /\ device.stat = 0
  /\ open # 0 =>
       /\ Offered(open) # <<>>
       /\ device.print = ChosenFor[devices[open]][1]
       /\ device.stat # device.print =>
            device.stat # 0 /\ device.stat = ChosenFor[devices[open]][2]

\* The steps that neither open nor close.
LEMMA ChosenKept ==
  ASSUME ChosenInv, UNCHANGED <<devices, open, claimed>>,
         device'.print = device.print, device'.stat = device.stat
  PROVE  ChosenInv'
  BY DEF ChosenInv, Offered, ChosenFor, OfferedBy, Configurations

LEMMA ChosenClosed ==
  ASSUME Closes
  PROVE  ChosenInv'
<1>1. open' = 0 /\ claimed' = {} /\ device'.print = 0 /\ device'.stat = 0
  BY DEF Closes, NoDevice
<1> QED
  BY <1>1 DEF ChosenInv

\* A configuration of the port's history, and what is chosen of it.
LEMMA ChosenIs ==
  ASSUME PortTypes, NEW d \in 1..Len(devices)
  PROVE  /\ devices[d] \in Seq(Descriptors)
         /\ Offered(d) = Candidates(devices[d])
         /\ ChosenFor[devices[d]] =
              LET print == selectedPrintIndex(Candidates(devices[d]))
              IN  IF print = 0 THEN <<0, 0>>
                  ELSE <<print, selectedStatusIndex(Candidates(devices[d]), print)>>
<1>1. devices \in Histories /\ devices \in Seq(Seq(Descriptors))
  BY EnumerationAssumption DEF PortTypes
<1>2. d \in DOMAIN devices /\ devices[d] \in Seq(Descriptors)
  BY <1>1
<1>3. devices[d] \in Configurations
  BY <1>1, <1>2 DEF Configurations
<1> QED
  BY <1>2, <1>3 DEF Offered, OfferedBy, ChosenFor

LEMMA ChosenOpens ==
  ASSUME PortTypes, devices' = devices, IsPrinter(here), Opens
  PROVE  ChosenInv'
<1>1. here # 0 /\ Offered(here) # <<>>
  BY DEF IsPrinter
<1> DEFINE chosen == ChosenFor[devices[here]]
<1>2. PICK s \in (IF chosen[2] = 0 THEN {chosen[1]} ELSE {chosen[2], chosen[1]}) :
        device' = [of |-> here, print |-> chosen[1], stat |-> s, status |-> 0]
  BY DEF Opens
<1>3. open' = here /\ device'.print = chosen[1] /\ device'.stat = s
  BY <1>2 DEF Opens
<1>4. Offered(open)' = Offered(here) /\ ChosenFor[devices[open]]' = chosen
  BY <1>3 DEF Offered, OfferedBy, ChosenFor, Configurations
<1>5. s # chosen[1] => s # 0 /\ s = chosen[2]
  BY <1>2
<1> HIDE DEF chosen
<1>6. (Offered(open) # <<>>)' /\ device'.print = ChosenFor[devices[open]]'[1]
      /\ ChosenFor[devices[open]]'[2] = chosen[2]
  BY <1>1, <1>3, <1>4
<1> QED
  BY <1>1, <1>3, <1>4, <1>5, <1>6 DEF ChosenInv, Offered, ChosenFor, OfferedBy, Configurations

LEMMA ChosenStep ==
  ASSUME PortTypes, PublishedInv, ChosenInv, [Next]_vars
  PROVE  ChosenInv'
<1> USE DEF Goes, Starts, Scans, shared, port, runtime
<1>1. CASE begin \/ BeginReturns \/ Register \/ Start
  BY <1>1, ChosenKept DEF begin, BeginReturns, Register, Start
<1>2. CASE Enumerate
  <2>1. CASE target = addr /\ IsPrinter(here) /\ Opens
    BY <1>2, <2>1, ChosenOpens DEF Enumerate
  <2>2. CASE Fails
    BY <1>2, <2>2, ChosenKept DEF Enumerate, Fails
  <2> QED
    BY <1>2, <2>1, <2>2 DEF Enumerate
<1>3. CASE StatusCallback
  <2>1. PICK d \in DOMAIN wire, ok \in BOOLEAN :
          device' = IF ok THEN [device EXCEPT !.status = d] ELSE device
    BY <1>3 DEF StatusCallback
  <2>2. device'.print = device.print /\ device'.stat = device.stat
    BY <2>1 DEF PublishedInv, DeviceIsOpen
  <2> QED
    BY <1>3, <2>2, ChosenKept DEF StatusCallback
<1>4. CASE ClientEvent \/ EventError
  BY <1>4, ChosenKept DEF ClientEvent, EventError
<1>5. CASE Gone \/ Reset
  <2>1. CASE Closes
    BY <2>1, ChosenClosed
  <2>2. CASE ~Closes
    BY <1>5, <2>2, ChosenKept DEF Gone, Reset
  <2> QED
    BY <2>1, <2>2
<1>6. CASE ResetScan \/ Armed \/ Rescan
  BY <1>6, ChosenKept DEF ResetScan, Armed, Rescan
<1>7. CASE SubmitStatus \/ New
  BY <1>7, ChosenKept DEF SubmitStatus, New
<1>8. CASE Poll \/ RequestReset \/ TwoSeconds \/ Plug \/ Unplug \/ UNCHANGED vars
  BY <1>8, ChosenKept DEF Poll, RequestReset, TwoSeconds, Plug, Unplug, vars
<1> QED
  BY <1>1, <1>2, <1>3, <1>4, <1>5, <1>6, <1>7, <1>8 DEF Next, ClientStep

EnumerationInv == TransferInv /\ TaskTypes /\ ChosenInv

LEMMA AlwaysEnumeration == Spec => []EnumerationInv
<1>1. Init => ChosenInv
  BY DEF Init, ChosenInv, NoDevice
<1>2. Init => EnumerationInv
  BY <1>1, PlainInit, TransferInit DEF EnumerationInv
<1>3. EnumerationInv /\ [Next]_vars => EnumerationInv'
  BY TransferStep, TaskStep, ChosenStep DEF EnumerationInv, TransferInv
<1> QED
  BY <1>2, <1>3, PTL DEF Spec

\* What is open was chosen among what it offers.
LEMMA OpenIs ==
  ASSUME EnumerationInv, open # 0
  PROVE  LET cands == Candidates(devices[open])
         IN  /\ devices[open] \in Seq(Descriptors)
             /\ Offered(open) = cands /\ cands \in Seq(InterfaceRecords) /\ cands # <<>>
             /\ device.print = selectedPrintIndex(cands) /\ device.print \in DOMAIN cands
             /\ device.stat \in DOMAIN cands
             /\ device.stat # device.print =>
                  cands[device.stat].number # cands[device.print].number
             /\ claimed = {cands[device.print].number, cands[device.stat].number}
<1> DEFINE cands == Candidates(devices[open])
           print == selectedPrintIndex(cands)
<1>1. open \in 1..Len(devices) /\ PortTypes
  <2>1. PortTypes /\ open \in 0..Len(devices) /\ Len(devices) \in Nat
    BY DeviceIndexes DEF EnumerationInv, TransferInv, PortTypes
  <2> QED
    BY <2>1
<1>2. /\ devices[open] \in Seq(Descriptors) /\ Offered(open) = cands
      /\ ChosenFor[devices[open]] =
              IF print = 0 THEN <<0, 0>> ELSE <<print, selectedStatusIndex(cands, print)>>
  BY <1>1, ChosenIs
<1>3. cands \in Seq(InterfaceRecords)
  BY <1>2, WalkFinds
<1>4. /\ cands # <<>> /\ device.print = ChosenFor[devices[open]][1]
      /\ device.stat # device.print =>
           device.stat # 0 /\ device.stat = ChosenFor[devices[open]][2]
  BY <1>2 DEF EnumerationInv, ChosenInv
<1> HIDE DEF cands
<1>5. print \in DOMAIN cands
  BY <1>3, <1>4, PrintIndex
<1>6. print # 0
  BY <1>3, <1>5
<1> HIDE DEF print
<1>7. device.print = print /\ (device.stat # print => /\ device.stat # 0
                               /\ device.stat = selectedStatusIndex(cands, print))
  BY <1>2, <1>4, <1>6
<1>8. device.stat # print =>
        device.stat \in DOMAIN cands /\ cands[device.stat].number # cands[print].number
  BY <1>3, <1>5, <1>7, StatusIndex
<1>9. claimed = {cands[device.print].number, cands[device.stat].number}
  BY <1>2 DEF EnumerationInv, TransferInv, PublishedInv, ClaimedAsPublished
<1> QED
  BY <1>2, <1>3, <1>4, <1>5, <1>7, <1>8, <1>9 DEF cands, print

LEMMA DeviceTyped == EnumerationInv => DeviceTypes
<1> SUFFICES ASSUME EnumerationInv PROVE DeviceTypes
  OBVIOUS
<1>0. /\ device = [of |-> device.of, print |-> device.print, stat |-> device.stat,
                   status |-> device.status]
      /\ device.of = open /\ device.status \in {0, open} /\ open \in Nat
  <2>1. Len(devices) \in Nat /\ open \in 0..Len(devices)
    BY DeviceIndexes DEF EnumerationInv, TransferInv, PortTypes
  <2>2. DeviceIsOpen
    BY DEF EnumerationInv, TransferInv, PublishedInv
  <2> QED
    BY <2>1, <2>2 DEF DeviceIsOpen, StatusIsOfThePrinter
<1>1. claimed \subseteq Nat /\ device.print \in Nat /\ device.stat \in Nat
  <2>1. CASE open = 0
    BY <2>1 DEF EnumerationInv, ChosenInv
  <2>2. CASE open # 0
    <3> DEFINE cands == Candidates(devices[open])
    <3>1. /\ cands \in Seq(InterfaceRecords) /\ device.print \in DOMAIN cands
          /\ device.stat \in DOMAIN cands
          /\ claimed = {cands[device.print].number, cands[device.stat].number}
      BY <2>2, OpenIs
    <3> HIDE DEF cands
    <3>2. cands[device.print] \in InterfaceRecords /\ cands[device.stat] \in InterfaceRecords
          /\ device.print \in Nat /\ device.stat \in Nat
      BY <3>1
    <3>3. cands[device.print].number \in Nat /\ cands[device.stat].number \in Nat
      BY <3>2 DEF InterfaceRecords
    <3> QED
      BY <3>1, <3>2, <3>3
  <2> QED
    BY <2>1, <2>2
<1> QED
  BY <1>0, <1>1 DEF DeviceTypes

\* Every variable of the USB client, of the host state and of the port has its type;
\* the interfaces published are those of a printer that has some.
THEOREM EnumerationTypes == Spec => []TypeOK
<1>1. EnumerationInv => TypeOK
  BY DeviceTyped DEF EnumerationInv, TransferInv, TypeOK
<1> QED
  BY <1>1, AlwaysEnumeration, PTL

\* enumerateDevice() and claimInterfaces(): whatever a device describes, what is
\* printed on is the best it has, with endpoints of its own, and a separate status
\* interface is another one.
THEOREM BestIsPrintedOn == Spec => []PrintsOnTheBest
<1>1. EnumerationInv => PrintsOnTheBest
  <2> SUFFICES ASSUME EnumerationInv, open # 0
      PROVE  LET c      == devices[open]
                 i      == Position(c, device.print)
                 usable == {j \in Offers(c) : Has(c, j, "out")}
             IN  /\ usable # {} =>
                      i \in usable /\ \A j \in usable : ~Lower(Rank(c, i), Rank(c, j))
                 /\ \A dir \in {"out", "in"} :
                      LET e == Offered(open)[device.print][dir]
                      IN  IF Has(c, i, dir)
                          THEN \E j \in Block(c, i) : c[j].dir = dir /\ c[j].address = e
                          ELSE e = 0
                 /\ device.stat # device.print => Cardinality(claimed) = 2
    BY DEF PrintsOnTheBest
  <2> DEFINE cands == Candidates(devices[open])
  <2>1. /\ devices[open] \in Seq(Descriptors) /\ Offered(open) = cands /\ cands # <<>>
        /\ device.print = selectedPrintIndex(cands)
        /\ device.stat # device.print =>
             cands[device.stat].number # cands[device.print].number
        /\ claimed = {cands[device.print].number, cands[device.stat].number}
    BY OpenIs
  <2>2. device.stat # device.print => Cardinality(claimed) = 2
    <3>1. \A a, b : a # b => Cardinality({a, b}) = 2
      <4> TAKE a, b
      <4>1. IsFiniteSet({a}) /\ Cardinality({a}) = 1
        BY FS_Singleton
      <4>2. {a, b} = {a} \cup {b}
        OBVIOUS
      <4>3. a # b => Cardinality({a} \cup {b}) = Cardinality({a}) + 1
        BY <4>1, FS_AddElement
      <4> QED
        BY <4>1, <4>2, <4>3
    <3> QED
      BY <2>1, <3>1
  <2> QED
    BY <2>1, <2>2, ChoiceIsTheBest
<1> QED
  BY <1>1, AlwaysEnumeration, PTL
=============================================================================
