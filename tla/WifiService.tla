---------------------------- MODULE WifiService ----------------------------
(***************************************************************************)
(* The Wi-Fi side of HP-print-server.ino: the settings store, setup(), the *)
(* retries of serviceWifi(), what a new link starts or re-binds, and the   *)
(* settings form.                                                          *)
(*                                                                         *)
(* setup() and a pass of loop() are cut wherever the radio, which runs on  *)
(* its own, can be read or written between two statements; the power may   *)
(* go at any step, and with it everything but the store.  The store itself *)
(* goes when setup() finds its partition stale.  A clock is a flag that    *)
(* rises when its time has passed; the hour of the discovery retry is a    *)
(* choice.                                                                 *)
(***************************************************************************)
EXTENDS Integers

CONSTANTS
  Networks,   \* names of networks
  Passwords,  \* passwords, the empty one apart
  Key         \* the password of each network, "" for an open one

Empty == ""

ASSUME WifiAssumption ==
  /\ Empty \notin Networks \cup Passwords
  /\ Key \in [Networks -> Passwords \cup {Empty}]

VARIABLES
  stored,          \* the two records of the Preferences namespace
  config,          \* config in memory
  wpc,             \* the next step of setup() or loop()
  link, tried,     \* the station, and the credentials of its last attempt
  autoReconnect,   \* the core joins again by itself
  status,          \* serviceWifi()'s own copy of the link
  lastWifiStatus,  \* the link was up at the end of the last serviceWifi()
  due,             \* 30 s since lastWifiAttemptMs
  configApActive,
  raced,           \* the link came up while the configuration AP was started
  mdns,            \* the responder: "down", or "stale" or "fresh" for this link
  rawListener,     \* "stale" or "fresh", or "kept" for the client it serves
  ippListener,
  wrote,           \* saveConfig() stored the name
  told,            \* history: the settings last reported as saved, or None
  erased           \* history: setup() has erased the store since they were

ram == <<config, wpc, link, tried, autoReconnect, status, lastWifiStatus, due,
         configApActive, raced, mdns, rawListener, ippListener, wrote>>
wifiVars == <<stored, ram, told, erased>>

None == [ssid |-> "none", password |-> "none"]

Settings == [ssid : Networks \cup {Empty}, password : Passwords \cup {Empty}]

Defaults == [ssid |-> Empty, password |-> Empty]

Configured == config.ssid # Empty

\* The credentials are those of the network.
Right(c) == c.ssid \in Networks /\ Key[c.ssid] = c.password

\* After power-on: nothing is left but the store.
PowerOn ==
  /\ config' = Defaults /\ wpc' = "setup" /\ link' = "down" /\ tried' = Defaults
  /\ autoReconnect' = TRUE /\ status' = FALSE /\ lastWifiStatus' = FALSE /\ due' = FALSE
  /\ configApActive' = FALSE /\ raced' = FALSE /\ mdns' = "down"
  /\ rawListener' = "stale" /\ ippListener' = "stale" /\ wrote' = FALSE

WifiInit ==
  /\ stored = Defaults /\ told = None /\ erased = FALSE
  /\ config = Defaults /\ wpc = "setup" /\ link = "down" /\ tried = Defaults
  /\ autoReconnect = TRUE /\ status = FALSE /\ lastWifiStatus = FALSE /\ due = FALSE
  /\ configApActive = FALSE /\ raced = FALSE /\ mdns = "down"
  /\ rawListener = "stale" /\ ippListener = "stale" /\ wrote = FALSE

Goes(from, to) == wpc = from /\ wpc' = to

-----------------------------------------------------------------------------
(***************************************************************************)
(* The radio, the clock and the power                                      *)
(***************************************************************************)

\* What was started or bound before the link came up is stale for it.
LinkUp ==
  /\ link = "trying" /\ Right(tried) /\ link' = "up"
  /\ mdns' = (IF mdns = "down" THEN "down" ELSE "stale")
  /\ rawListener' = "stale" /\ ippListener' = "stale"
  /\ UNCHANGED <<stored, config, wpc, tried, autoReconnect, status, lastWifiStatus, due,
                 configApActive, raced, wrote, told, erased>>

\* An attempt fails, or the link is lost.
LinkDown ==
  /\ link # "down"
  /\ link' = (IF autoReconnect THEN "trying" ELSE "down")
  /\ UNCHANGED <<stored, config, wpc, tried, autoReconnect, status, lastWifiStatus, due,
                 configApActive, raced, mdns, rawListener, ippListener, wrote, told, erased>>

HalfMinute ==
  /\ ~due /\ due' = TRUE
  /\ UNCHANGED <<stored, config, wpc, link, tried, autoReconnect, status, lastWifiStatus,
                 configApActive, raced, mdns, rawListener, ippListener, wrote, told, erased>>

\* The power goes; while the store is erased, see EraseBreaksOff.
PowerCut == wpc # "setup" /\ PowerOn /\ UNCHANGED <<stored, told, erased>>

-----------------------------------------------------------------------------
(***************************************************************************)
(* What a link starts                                                      *)
(***************************************************************************)

\* WiFi.begin(): any link there was is given up.
Begin(c) == link' = "trying" /\ tried' = c

startRawDiscovery == mdns' \in {"down", "fresh"}

\* A listener whose client is still served is left as it is.
restartRawListener == rawListener' \in {"fresh", "kept"}

onWifiConnected ==
  /\ configApActive' = FALSE
  /\ startRawDiscovery /\ restartRawListener /\ ippListener' = "fresh"

-----------------------------------------------------------------------------
(***************************************************************************)
(* setup()                                                                 *)
(***************************************************************************)

\* nvs_flash_erase(), with the settings in the partition.  Nobody looks at its result:
\* what it does not get to is left.
EraseStore ==
  /\ erased' = TRUE
  /\ \E s \in {stored.ssid, Empty}, p \in {stored.password, Empty} :
       stored' = [ssid |-> s, password |-> p]

\* nvs_flash_init() may find the partition stale: without a free page, or written by
\* another version.
InitStore ==
  /\ Goes("setup", "load")
  /\ EraseStore \/ UNCHANGED <<stored, erased>>
  /\ UNCHANGED <<config, link, tried, autoReconnect, status, lastWifiStatus, due,
                 configApActive, raced, mdns, rawListener, ippListener, wrote, told>>

\* The power goes while the partition is erased.
EraseBreaksOff == wpc = "setup" /\ EraseStore /\ PowerOn /\ UNCHANGED told

\* loadConfig() falls back on the defaults when the store does not open.
Setup ==
  /\ wpc = "load"
  /\ config' \in {stored, Defaults}
  /\ \/ /\ config'.ssid # Empty /\ wpc' = "wait"
        /\ autoReconnect' = FALSE /\ Begin(config')
     \/ config'.ssid = Empty /\ wpc' = "ap" /\ UNCHANGED <<autoReconnect, link, tried>>
  /\ UNCHANGED <<stored, status, lastWifiStatus, due, configApActive, raced, mdns,
                 rawListener, ippListener, wrote, told, erased>>

\* The 20 s wait for the first link.
BootWait ==
  /\ wpc = "wait"
  /\ \/ link = "up" /\ wpc' = "note"
     \/ link # "up" /\ wpc' = "ap"
  /\ UNCHANGED <<stored, config, link, tried, autoReconnect, status, lastWifiStatus, due,
                 configApActive, raced, mdns, rawListener, ippListener, wrote, told, erased>>

\* The configuration AP may fail to start; it is not tried again.
startConfigAP ==
  /\ Goes("ap", "note")
  /\ configApActive' \in BOOLEAN
  /\ UNCHANGED <<stored, config, link, tried, autoReconnect, status, lastWifiStatus, due,
                 raced, mdns, rawListener, ippListener, wrote, told, erased>>

NoteStatus ==
  /\ Goes("note", "listen")
  /\ lastWifiStatus' = (link = "up")
  /\ raced' = (configApActive /\ link = "up")
  /\ due' = FALSE
  /\ UNCHANGED <<stored, config, link, tried, autoReconnect, status, configApActive, mdns,
                 rawListener, ippListener, wrote, told, erased>>

StartListeners ==
  /\ Goes("listen", "look")
  /\ \/ link = "up" /\ startRawDiscovery /\ rawListener' = "fresh"
     \/ link # "up" /\ UNCHANGED <<mdns, rawListener>>
  /\ ippListener' = "fresh"
  /\ UNCHANGED <<stored, config, link, tried, autoReconnect, status, lastWifiStatus, due,
                 configApActive, raced, wrote, told, erased>>

-----------------------------------------------------------------------------
(***************************************************************************)
(* serviceWifi()                                                           *)
(***************************************************************************)

\* The responder that is down may be started again; then the status is read.
LookAtLink ==
  /\ Goes("look", "act")
  /\ \/ UNCHANGED <<mdns, rawListener>>
     \/ /\ mdns = "down" /\ startRawDiscovery
        /\ \/ mdns' = "fresh" /\ restartRawListener
           \/ mdns' = "down" /\ UNCHANGED rawListener
  /\ status' = (link = "up")
  /\ UNCHANGED <<stored, config, link, tried, autoReconnect, lastWifiStatus, due,
                 configApActive, raced, ippListener, wrote, told, erased>>

\* Variant: only a new link updates the copy.
NotedKeepsLoss == lastWifiStatus \/ status

Noted == status

\* Variant: an attempt is made only when a link has just been lost.
RetryOnLossOnly == ~status /\ lastWifiStatus /\ Configured /\ due

\* The saved network is tried again half a minute after the last attempt.
RetryDue == ~status /\ Configured /\ due

serviceWifi ==
  /\ Goes("act", "web")
  /\ lastWifiStatus' = Noted
  /\ raced' = (raced /\ status)
  /\ \/ /\ status /\ ~lastWifiStatus /\ onWifiConnected
     \/ /\ ~(status /\ ~lastWifiStatus)
        /\ UNCHANGED <<configApActive, mdns, rawListener, ippListener>>
  /\ \/ RetryDue /\ Begin(config) /\ due' = FALSE
     \/ ~RetryDue /\ UNCHANGED <<link, tried, due>>
  /\ UNCHANGED <<stored, config, autoReconnect, status, wrote, told, erased>>

-----------------------------------------------------------------------------
(***************************************************************************)
(* The rest of a pass, with handleSave()                                   *)
(***************************************************************************)
NoForm == Goes("web", "look") /\ UNCHANGED <<stored, config, link, tried, autoReconnect,
                 status, lastWifiStatus, due, configApActive, raced, mdns, rawListener,
                 ippListener, wrote, told, erased>>

\* Variant: the form may leave the name empty.
AcceptedNamesAny == Networks \cup {Empty}

AcceptedNames == Networks

\* The form: a name, and a password that is given, cleared or left as it is.
handleSave ==
  /\ Goes("web", "name")
  /\ \E s \in AcceptedNames, p \in Passwords \cup {Empty, config.password} :
       config' = [ssid |-> s, password |-> p]
  /\ told' = None /\ erased' = FALSE
  /\ UNCHANGED <<stored, link, tried, autoReconnect, status, lastWifiStatus, due,
                 configApActive, raced, mdns, rawListener, ippListener, wrote>>

\* The form is refused: the settings stay in memory all the same.
NotSaved ==
  /\ wpc' = "look"
  /\ UNCHANGED <<config, link, tried, autoReconnect, status, lastWifiStatus, due,
                 configApActive, raced, mdns, rawListener, ippListener, wrote, told, erased>>

\* saveConfig(), first record.  The store may not open.
SaveName ==
  /\ wpc = "name"
  /\ \/ NotSaved /\ UNCHANGED stored
     \/ /\ wpc' = "password" /\ wrote' \in BOOLEAN
        /\ stored' = (IF wrote' THEN [stored EXCEPT !.ssid = config.ssid] ELSE stored)
        /\ UNCHANGED <<config, link, tried, autoReconnect, status, lastWifiStatus, due,
                       configApActive, raced, mdns, rawListener, ippListener, told, erased>>

\* Variant: a record that was written is enough.
SavedSome(ok) == wrote \/ ok

\* saveConfig()'s result: what is not empty was written.
Saved(ok) == wrote /\ (config.password = Empty \/ ok)

\* saveConfig(), second record.  The device restarts on settings that were saved.
SavePassword ==
  /\ wpc = "password"
  /\ \E ok \in BOOLEAN :
       /\ stored' = (IF ok THEN [stored EXCEPT !.password = config.password] ELSE stored)
       /\ \/ Saved(ok) /\ told' = config /\ PowerOn
          \/ ~Saved(ok) /\ NotSaved
  /\ UNCHANGED erased

-----------------------------------------------------------------------------
WifiSetup == InitStore \/ Setup \/ BootWait \/ startConfigAP \/ NoteStatus \/ StartListeners

WifiLoop == LookAtLink \/ serviceWifi \/ NoForm \/ SaveName \/ SavePassword

WifiNext ==
  \/ WifiSetup \/ WifiLoop \/ handleSave
  \/ LinkUp \/ LinkDown \/ HalfMinute \/ PowerCut \/ EraseBreaksOff

\* The loop goes on, time passes, and an attempt with the right credentials that is
\* made again and again succeeds some time: the network is in the air.
WifiSpec ==
  /\ WifiInit /\ [][WifiNext]_wifiVars
  /\ WF_wifiVars(WifiSetup \/ WifiLoop) /\ WF_wifiVars(HalfMinute) /\ SF_wifiVars(LinkUp)

-----------------------------------------------------------------------------
(***************************************************************************)
(* Properties                                                              *)
(***************************************************************************)

\* Every variable has its type.
TypeOK ==
  /\ stored \in Settings /\ config \in Settings /\ tried \in Settings
  /\ told \in {c \in Settings : c.ssid # Empty} \cup {None}
  /\ wpc \in {"setup", "load", "wait", "ap", "note", "listen", "look", "act", "web", "name",
              "password"}
  /\ link \in {"down", "trying", "up"}
  /\ {autoReconnect, status, lastWifiStatus, due, configApActive, raced, wrote,
      erased} \subseteq BOOLEAN
  /\ mdns \in {"down", "stale", "fresh"}
  /\ rawListener \in {"stale", "fresh", "kept"} /\ ippListener \in {"stale", "fresh"}

\* Settings reported as saved are in the store until the form is sent again: power cuts
\* and failed writes do not touch them, and setup(), which may erase them from a stale
\* partition, leaves none or these, never others.  An empty password is excepted: its
\* record's failure cannot be told from its success.
SavedIsStored ==
  LET left == IF erased THEN {Empty} ELSE {}
  IN told # None =>
       /\ stored.ssid \in {told.ssid} \cup left
       /\ told.password # Empty => stored.password \in {told.password} \cup left

InLoop == wpc \in {"look", "act", "web", "name", "password"}

\* A link that serviceWifi() takes for an old one has been served: it was announced
\* unless the responder is down, the listeners were re-bound, and the configuration AP
\* was stopped unless the link came up while it was being started.  So no loss of a
\* link is missed, as long as the core does not join again by itself.
EveryLinkIsServed ==
  InLoop /\ lastWifiStatus /\ link = "up" /\ ~autoReconnect =>
    /\ mdns # "stale" /\ rawListener # "stale" /\ ippListener # "stale"
    /\ configApActive => raced

\* With settings that are right from some time on, and a link that is not lost for
\* ever, the device ends up on the network and knows it, whatever happened before.
Reconnects ==
  <>[]Right(config) /\ <>[][link = "up" => link' = "up"]_link
    => <>[](link = "up" /\ lastWifiStatus)
=============================================================================
