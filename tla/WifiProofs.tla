----------------------------- MODULE WifiProofs -----------------------------
(***************************************************************************)
(* What the Wi-Fi service keeps for every set of networks and passwords.   *)
(*                                                                         *)
(* Settings: between the form and its reply nothing counts as reported,    *)
(* and a name that was written is the one of the form.                     *)
(*                                                                         *)
(* Links: while the core does not join by itself, the station tries again  *)
(* only from serviceWifi(), and only after it has noted the loss; so a     *)
(* link that comes up is a new one to the next serviceWifi().              *)
(***************************************************************************)
EXTENDS WifiService, TLAPS

Told == {c \in Settings : c.ssid # Empty} \cup {None}

SaveInv ==
  /\ TypeOK
  /\ SavedIsStored
  /\ wpc \in {"name", "password"} => told = None /\ config.ssid # Empty /\ ~erased
  /\ wpc = "password" /\ wrote => stored.ssid = config.ssid

LEMMA EmptyIsNoName == Empty \notin Networks /\ Empty \in Passwords \cup {Empty}
BY WifiAssumption

LEMMA DefaultSettings == Defaults \in Settings
BY DEF Defaults, Settings

\* After power-on nothing is left of a save.
LEMMA PowerOnTypes ==
  ASSUME PowerOn, stored' \in Settings, told' \in Told, erased' \in BOOLEAN
  PROVE  TypeOK'
BY DefaultSettings DEF PowerOn, TypeOK, Told

\* An erasure leaves each record as it was, or none.
LEMMA EraseKeeps ==
  ASSUME TypeOK, SavedIsStored, EraseStore, told' = told
  PROVE  stored' \in Settings /\ erased' = TRUE /\ SavedIsStored'
<1>1. PICK s \in {stored.ssid, Empty}, p \in {stored.password, Empty} :
        stored' = [ssid |-> s, password |-> p]
  BY DEF EraseStore
<1>2. stored' \in Settings /\ stored'.ssid = s /\ stored'.password = p
  BY <1>1 DEF TypeOK, Settings
<1>3. erased' = TRUE
  BY DEF EraseStore
<1> QED BY <1>2, <1>3 DEF SavedIsStored

LEMMA SaveStep ==
  ASSUME SaveInv, [WifiNext]_wifiVars
  PROVE  SaveInv'
<1>0. TypeOK
  BY DEF SaveInv
<1>1. CASE Setup
  <2>1. config' \in Settings
    BY <1>0, <1>1, DefaultSettings DEF Setup, TypeOK
  <2>2. TypeOK'
    BY <1>0, <1>1, <2>1 DEF Setup, Begin, TypeOK
  <2> QED BY <1>1, <2>2 DEF Setup, SaveInv, SavedIsStored
<1>2. CASE BootWait
  BY <1>2 DEF BootWait, SaveInv, SavedIsStored, TypeOK
<1>3. CASE startConfigAP
  BY <1>3 DEF startConfigAP, Goes, SaveInv, SavedIsStored, TypeOK
<1>4. CASE NoteStatus
  BY <1>4 DEF NoteStatus, Goes, SaveInv, SavedIsStored, TypeOK
<1>5. CASE StartListeners
  BY <1>5 DEF StartListeners, startRawDiscovery, Goes, SaveInv, SavedIsStored, TypeOK
<1>6. CASE LookAtLink
  BY <1>6 DEF LookAtLink, startRawDiscovery, restartRawListener, Goes, SaveInv, SavedIsStored,
              TypeOK
<1>7. CASE serviceWifi
  <2>1. TypeOK'
    BY <1>0, <1>7 DEF serviceWifi, onWifiConnected, startRawDiscovery, restartRawListener, Goes,
                      Begin, Noted, TypeOK
  <2> QED BY <1>7, <2>1 DEF serviceWifi, Goes, SaveInv, SavedIsStored
<1>8. CASE NoForm
  BY <1>8 DEF NoForm, Goes, SaveInv, SavedIsStored, TypeOK
<1>9. CASE handleSave
  <2>1. PICK s \in AcceptedNames, p \in Passwords \cup {Empty, config.password} :
          config' = [ssid |-> s, password |-> p]
    BY <1>9 DEF handleSave
  <2>2. config' \in Settings /\ config'.ssid # Empty
    BY <1>0, <2>1, EmptyIsNoName DEF AcceptedNames, Settings, TypeOK
  <2>3. TypeOK'
    BY <1>0, <1>9, <2>2 DEF handleSave, Goes, TypeOK
  <2> QED BY <1>9, <2>2, <2>3 DEF handleSave, Goes, SaveInv, SavedIsStored
<1>10. CASE SaveName
  <2>1. stored' \in Settings /\ stored'.password = stored.password
    BY <1>0, <1>10 DEF SaveName, Settings, TypeOK
  <2>2. TypeOK'
    BY <1>0, <1>10, <2>1 DEF SaveName, NotSaved, TypeOK
  <2>3. told' = None /\ ~erased' /\ config' = config /\ wpc' \in {"look", "password"}
    BY <1>10 DEF SaveName, NotSaved, SaveInv
  <2>4. wpc' = "password" /\ wrote' => stored'.ssid = config'.ssid
    BY <1>0, <1>10 DEF SaveName, NotSaved, TypeOK, Settings
  <2> QED BY <1>10, <2>2, <2>3, <2>4 DEF SaveName, SaveInv, SavedIsStored
<1>11. CASE SavePassword
  <2>1. PICK ok \in BOOLEAN :
          /\ stored' = (IF ok THEN [stored EXCEPT !.password = config.password] ELSE stored)
          /\ \/ Saved(ok) /\ told' = config /\ PowerOn
             \/ ~Saved(ok) /\ NotSaved
    BY <1>11 DEF SavePassword
  <2>2. /\ stored' \in Settings /\ stored'.ssid = stored.ssid
        /\ ok => stored'.password = config.password
    BY <1>0, <2>1 DEF Settings, TypeOK
  <2>3. /\ told = None /\ config \in Settings /\ config.ssid # Empty
        /\ wrote => stored.ssid = config.ssid
    BY <1>0, <1>11 DEF SavePassword, SaveInv, TypeOK
  <2>4. CASE Saved(ok) /\ told' = config /\ PowerOn
    <3>1. TypeOK'
      <4>1. erased' \in BOOLEAN
        BY <1>0, <1>11 DEF SavePassword, TypeOK
      <4> QED BY <2>2, <2>3, <2>4, <4>1, PowerOnTypes DEF Told
    <3>2. SavedIsStored'
      BY <2>2, <2>3, <2>4 DEF Saved, SavedIsStored
    <3> QED BY <2>4, <3>1, <3>2 DEF PowerOn, SaveInv
  <2>5. CASE ~Saved(ok) /\ NotSaved
    <3>1. TypeOK'
      BY <1>0, <2>2, <2>5 DEF NotSaved, TypeOK
    <3> QED BY <2>3, <2>5, <3>1 DEF NotSaved, SaveInv, SavedIsStored
  <2> QED BY <2>1, <2>4, <2>5
<1>12. CASE LinkUp
  BY <1>12 DEF LinkUp, SaveInv, SavedIsStored, TypeOK
<1>13. CASE LinkDown
  BY <1>13 DEF LinkDown, SaveInv, SavedIsStored, TypeOK
<1>14. CASE HalfMinute
  BY <1>14 DEF HalfMinute, SaveInv, SavedIsStored, TypeOK
<1>15. CASE PowerCut
  <2>1. TypeOK'
    BY <1>0, <1>15, PowerOnTypes DEF PowerCut, TypeOK, Told
  <2> QED BY <1>15, <2>1 DEF PowerCut, PowerOn, SaveInv, SavedIsStored
<1>16. CASE UNCHANGED wifiVars
  BY <1>16 DEF wifiVars, ram, SaveInv, SavedIsStored, TypeOK
<1>17. CASE InitStore
  <2>1. told' = told /\ wpc' = "load"
    BY <1>17 DEF InitStore, Goes
  <2>2. stored' \in Settings /\ erased' \in BOOLEAN /\ SavedIsStored'
    <3>1. CASE EraseStore
      BY <1>0, <2>1, <3>1, EraseKeeps DEF SaveInv
    <3>2. CASE UNCHANGED <<stored, erased>>
      BY <1>0, <2>1, <3>2 DEF SaveInv, SavedIsStored, TypeOK
    <3> QED BY <1>17, <3>1, <3>2 DEF InitStore
  <2>3. TypeOK'
    BY <1>0, <1>17, <2>1, <2>2 DEF InitStore, TypeOK
  <2> QED BY <2>1, <2>2, <2>3 DEF SaveInv
<1>18. CASE EraseBreaksOff
  <2>1. told' = told /\ told \in Told /\ PowerOn
    BY <1>0, <1>18 DEF EraseBreaksOff, TypeOK, Told
  <2>2. stored' \in Settings /\ erased' = TRUE /\ SavedIsStored'
    BY <1>0, <1>18, <2>1, EraseKeeps DEF EraseBreaksOff, SaveInv
  <2>3. TypeOK'
    BY <2>1, <2>2, PowerOnTypes
  <2> QED BY <2>1, <2>2, <2>3 DEF PowerOn, SaveInv
<1> QED BY <1>1, <1>2, <1>3, <1>4, <1>5, <1>6, <1>7, <1>8, <1>9, <1>10, <1>11, <1>12, <1>13,
           <1>14, <1>15, <1>16, <1>17, <1>18 DEF WifiNext, WifiSetup, WifiLoop

LEMMA SaveInit == WifiInit => SaveInv
BY DefaultSettings DEF WifiInit, SaveInv, SavedIsStored, TypeOK

\* Types of the store, the radio and the loop.
THEOREM WifiTypes == WifiSpec => []TypeOK
<1>1. SaveInv /\ [WifiNext]_wifiVars => SaveInv'
  BY SaveStep
<1>2. SaveInv => TypeOK
  BY DEF SaveInv
<1> QED BY SaveInit, <1>1, <1>2, PTL DEF WifiSpec

\* Settings reported as saved stay in the store through power cuts and failed writes, and
\* setup()'s erasure of a stale partition leaves none of them or these.
THEOREM ReportedSettingsAreStored == WifiSpec => []SavedIsStored
<1>1. SaveInv /\ [WifiNext]_wifiVars => SaveInv'
  BY SaveStep
<1>2. SaveInv => SavedIsStored
  BY DEF SaveInv
<1> QED BY SaveInit, <1>1, <1>2, PTL DEF WifiSpec

-----------------------------------------------------------------------------
Booting == wpc \in {"setup", "load", "wait", "ap", "note"}

LinkInv ==
  /\ Booting => ~lastWifiStatus
  /\ ~autoReconnect /\ link = "trying" => ~lastWifiStatus
  /\ ~autoReconnect /\ wpc = "act" /\ status => link # "trying"
  /\ ~autoReconnect /\ link = "up" /\ lastWifiStatus => (configApActive => raced)
  /\ EveryLinkIsServed

LEMMA LinkStep ==
  ASSUME TypeOK, LinkInv, [WifiNext]_wifiVars
  PROVE  LinkInv'
<1> USE DEF LinkInv, EveryLinkIsServed, InLoop, Booting
<1>1. CASE Setup
  BY <1>1 DEF Setup
<1>2. CASE BootWait
  BY <1>2 DEF BootWait
<1>3. CASE startConfigAP
  BY <1>3 DEF startConfigAP, Goes
<1>4. CASE NoteStatus
  BY <1>4 DEF NoteStatus, Goes
<1>5. CASE StartListeners
  BY <1>5 DEF StartListeners, startRawDiscovery, Goes
<1>6. CASE LookAtLink
  BY <1>6 DEF LookAtLink, startRawDiscovery, restartRawListener, Goes
<1>7. CASE serviceWifi
  BY <1>7 DEF serviceWifi, onWifiConnected, startRawDiscovery, restartRawListener, Goes, Begin,
              Noted, RetryDue, TypeOK
<1>8. CASE NoForm
  BY <1>8 DEF NoForm, Goes
<1>9. CASE handleSave
  BY <1>9 DEF handleSave, Goes
<1>10. CASE SaveName
  BY <1>10 DEF SaveName, NotSaved
<1>11. CASE SavePassword
  BY <1>11 DEF SavePassword, NotSaved, PowerOn
<1>12. CASE LinkUp
  BY <1>12 DEF LinkUp
<1>13. CASE LinkDown
  BY <1>13 DEF LinkDown
<1>14. CASE HalfMinute
  BY <1>14 DEF HalfMinute
<1>15. CASE PowerCut
  BY <1>15 DEF PowerCut, PowerOn
<1>16. CASE UNCHANGED wifiVars
  BY <1>16 DEF wifiVars, ram
<1>17. CASE InitStore
  BY <1>17 DEF InitStore, Goes
<1>18. CASE EraseBreaksOff
  BY <1>18 DEF EraseBreaksOff, PowerOn
<1> QED BY <1>1, <1>2, <1>3, <1>4, <1>5, <1>6, <1>7, <1>8, <1>9, <1>10, <1>11, <1>12, <1>13,
           <1>14, <1>15, <1>16, <1>17, <1>18 DEF WifiNext, WifiSetup, WifiLoop

\* No link is missed: one that serviceWifi() takes for an old one was announced and had
\* its listeners bound, and the configuration AP was stopped for it.
THEOREM NoLinkIsMissed == WifiSpec => []EveryLinkIsServed
<1>1. WifiInit => LinkInv
  BY DEF WifiInit, LinkInv, EveryLinkIsServed, InLoop, Booting
<1>2. TypeOK /\ LinkInv /\ [WifiNext]_wifiVars => LinkInv'
  BY LinkStep
<1>3. LinkInv => EveryLinkIsServed
  BY DEF LinkInv
<1> QED BY <1>1, <1>2, <1>3, WifiTypes, PTL DEF WifiSpec
=============================================================================
