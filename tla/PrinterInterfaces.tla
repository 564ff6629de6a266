------------------------- MODULE PrinterInterfaces -------------------------
(***************************************************************************)
(* What enumerateDevice() and claimInterfaces() of usb_host_manager.cpp    *)
(* make of a device's descriptors: the printer interfaces it offers, the   *)
(* one to print on and the one to ask for the port status.                 *)
(*                                                                         *)
(* A configuration is the sequence of its interface and endpoint           *)
(* descriptors.  A Bulk endpoint is "out" or "in" and has an address; one  *)
(* of another type, or with no packet size, is "other".                    *)
(***************************************************************************)
EXTENDS Integers, Sequences, FiniteSets

CONSTANT MaxInterfaces   \* UsbDeviceInfo::MAX_PRINTER_INTERFACES

\* The code has room for eight.
ASSUME InterfacesAssumption == MaxInterfaces \in Nat \ {0}

Interface(n, alt, protocol) ==
  [kind |-> "interface", number |-> n, alt |-> alt, protocol |-> protocol]

Endpoint(dir, address) == [kind |-> "endpoint", dir |-> dir, address |-> address]

\* What a device may describe.  Endpoint 0 is the control pipe and never described.
Descriptors ==
  [kind : {"interface"}, number : Nat, alt : Nat, protocol : Nat]
    \cup [kind : {"endpoint"}, dir : {"out", "in", "other"}, address : Nat \ {0}]

\* Protocols of the Printer Class: 4 is IPP-over-USB, 255 vendor-specific; an
\* interface of another class or subclass has protocol 0.
RawProtocols == 1..3

-----------------------------------------------------------------------------
(***************************************************************************)
(* The descriptor walk                                                     *)
(***************************************************************************)

\* The walk keeps printerInterfaces[], found, and whether the last of them is
\* printerCurrent and takes the endpoints that follow.

\* Variant: an interface that is passed over keeps the last one current.
VisitKeepsCurrent(w, d) ==
  IF d.kind = "interface"
  THEN IF d.protocol \in RawProtocols /\ Len(w.found) < MaxInterfaces
       THEN [found |-> Append(w.found, [number |-> d.number, alt |-> d.alt,
                                        protocol |-> d.protocol, out |-> 0, in |-> 0]),
             current |-> TRUE]
       ELSE w
  ELSE IF w.current /\ d.dir # "other" /\ w.found[Len(w.found)][d.dir] = 0
       THEN [w EXCEPT !.found[Len(w.found)][d.dir] = d.address]
       ELSE w

\* One descriptor.  The first endpoint of each direction counts; 0 is no endpoint.
Visit(w, d) ==
  IF d.kind = "interface"
  THEN IF d.protocol \in RawProtocols /\ Len(w.found) < MaxInterfaces
       THEN [found |-> Append(w.found, [number |-> d.number, alt |-> d.alt,
                                        protocol |-> d.protocol, out |-> 0, in |-> 0]),
             current |-> TRUE]
       ELSE [w EXCEPT !.current = FALSE]
  ELSE IF w.current /\ d.dir # "other" /\ w.found[Len(w.found)][d.dir] = 0
       THEN [w EXCEPT !.found[Len(w.found)][d.dir] = d.address]
       ELSE w

\* What the walk has after each descriptor.
Walk(config) ==
  LET walk[n \in 0..Len(config)] ==
        IF n = 0 THEN [found |-> <<>>, current |-> FALSE]
        ELSE Visit(walk[n - 1], config[n])
  IN  walk

Candidates(config) == Walk(config)[Len(config)].found

-----------------------------------------------------------------------------
(***************************************************************************)
(* The choice                                                              *)
(***************************************************************************)
usableForRawPrint(p) == p.out # 0

printScore(p) ==
  IF ~usableForRawPrint(p) THEN -1000
  ELSE (CASE p.protocol = 2 -> 120
          [] p.protocol = 3 -> 90
          [] OTHER -> 70)
       + (IF p.in # 0 /\ p.protocol # 1 THEN 10 ELSE 0) + (IF p.alt = 0 THEN 2 ELSE 0)

statusScore(p) ==
  10 + (IF p.in # 0 THEN 20 ELSE 0) + 10 * p.protocol + (IF p.alt = 0 THEN 3 ELSE 0)

\* The first of the indexes in S with the highest score, 0 if S is empty.
Best(S, Score(_)) ==
  LET top == {i \in S : \A j \in S : Score(j) <= Score(i)}
  IN  IF S = {} THEN 0 ELSE CHOOSE i \in top : \A j \in top : i <= j

\* The interface of an unusable device is still the best it has.
selectedPrintIndex(cands) ==
  LET Score(i) == printScore(cands[i]) IN Best(DOMAIN cands, Score)

selectedStatusIndex(cands, print) ==
  LET Score(i) == statusScore(cands[i])
  IN  Best({i \in DOMAIN cands : cands[i].number # cands[print].number}, Score)

-----------------------------------------------------------------------------
(***************************************************************************)
(* What the choice has to be, said of the descriptors themselves           *)
(***************************************************************************)

\* Where the configuration describes an interface that speaks a RAW protocol, as
\* far as there is room.
Offers(config) ==
  LET raw == {i \in DOMAIN config : /\ config[i].kind = "interface"
                                    /\ config[i].protocol \in RawProtocols}
  IN  {i \in raw : Cardinality({j \in raw : j < i}) < MaxInterfaces}

\* Where the k-th of the interfaces offered is described.
Position(config, k) ==
  CHOOSE i \in Offers(config) : Cardinality({j \in Offers(config) : j < i}) = k - 1

\* The descriptors of the interface at i: up to the next interface.
Block(config, i) ==
  {j \in DOMAIN config : j > i /\ \A k \in (i + 1)..j : config[k].kind = "endpoint"}

Has(config, i, dir) == \E j \in Block(config, i) : config[j].dir = dir

\* The README prefers protocol 2; after it come 3 and 1, and a second Bulk endpoint
\* and the default alternate setting break ties.
Rank(config, i) ==
  <<CASE config[i].protocol = 2 -> 3 [] config[i].protocol = 3 -> 2 [] OTHER -> 1,
    IF Has(config, i, "in") /\ config[i].protocol # 1 THEN 1 ELSE 0,
    IF config[i].alt = 0 THEN 1 ELSE 0>>

Lower(a, b) ==
  \E k \in 1..3 : a[k] < b[k] /\ \A m \in 1..(k - 1) : a[m] = b[m]
=============================================================================
