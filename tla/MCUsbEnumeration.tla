------------------------- MODULE MCUsbEnumeration -------------------------
(***************************************************************************)
(* The histories of the port that TLC explores: two printers exchanged for *)
(* each other, one with a device that is none in between; and, alone, such *)
(* as mix protocols, alternate settings and endpoints, so that every part  *)
(* of a score decides, or have more interfaces than there is room for.     *)
(***************************************************************************)
EXTENDS UsbEnumeration

\* A printer with a status interface of its own, and one that lacks Bulk OUT.
Laser == <<Interface(0, 0, 2), Endpoint("out", 1), Endpoint("in", 2),
           Interface(1, 0, 1), Endpoint("out", 3)>>

Mute == <<Interface(0, 0, 1), Endpoint("other", 1)>>

\* A scanner: its endpoints are of no printer interface.
Scanner == <<Interface(0, 0, 0), Endpoint("out", 1), Endpoint("in", 2)>>

Both(n, alt, protocol) ==
  <<Interface(n, alt, protocol), Endpoint("other", 1), Endpoint("out", 2), Endpoint("in", 3),
    Endpoint("out", 4)>>

Out(n, alt, protocol) == <<Interface(n, alt, protocol), Endpoint("out", 1)>>

Bare(n, alt, protocol) == <<Interface(n, alt, protocol)>>

Alone ==
  {Both(0, 0, 3) \o Out(0, 1, 2),
   Out(0, 0, 1) \o Both(1, 0, 3),
   Both(0, 1, 1) \o Out(0, 0, 1),
   Out(0, 0, 2) \o Both(0, 1, 2) \o Both(1, 0, 2),
   Bare(0, 0, 2) \o Out(1, 0, 1),
   Bare(0, 0, 2) \o Both(1, 0, 0) \o Out(2, 0, 3),
   Both(0, 0, 0) \o Bare(1, 0, 3) \o Bare(1, 1, 2)}

MCHistories == {<<Laser, Scanner, Laser>>, <<Laser, Mute>>} \cup {<<c>> : c \in Alone}
=============================================================================
