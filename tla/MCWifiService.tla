--------------------------- MODULE MCWifiService ---------------------------
(***************************************************************************)
(* A network with a password and one without; the password that is entered *)
(* may be the right one or not.                                            *)
(***************************************************************************)
EXTENDS WifiService

MCNetworks == {"home", "open"}
MCPasswords == {"right", "wrong"}
MCKey == [n \in MCNetworks |-> IF n = "home" THEN "right" ELSE Empty]
=============================================================================
