---------------------------- MODULE NetworkInput ----------------------------
(***************************************************************************)
(* What the loop task reads from the network: the body of an IPP request,  *)
(* or a RAW connection.  poll() of either server runs to its end before    *)
(* the other is called, and the two readers have no variable in common, so *)
(* one at a time is explored.                                              *)
(***************************************************************************)
EXTENDS HttpBody, RawInput

vars == <<httpVars, rawInputVars>>

Init == HttpInit /\ RawInputInit

Next ==
  \/ rpc = "off" /\ HttpNext /\ UNCHANGED rawInputVars
  \/ hpc = "off" /\ RawInputNext /\ UNCHANGED httpVars

Spec == Init /\ [][Next]_vars

\* Once the service reads a request it goes on: every read of it ends with what has
\* come or with its timeout.
FairSpec == Spec /\ WF_vars(HttpService /\ UNCHANGED rawInputVars)

-----------------------------------------------------------------------------
\* Every variable has its type, and no line or block grows beyond its buffer.
TypeOK == HttpTypeOK /\ RawInputTypeOK

\* A request that was begun comes to an end and gives the loop task back, whatever
\* its client writes, keeps to itself or closes.
RequestEnds == Serving ~> ~Serving
=============================================================================
