---------------------------- MODULE EthernetWifi ----------------------------
(***************************************************************************)
(* EthernetWifiSwitch.java: Wi-Fi is switched off while the cable carries  *)
(* the network, and a preference remembers to switch it on again.  The     *)
(* broadcast says only that something has changed; the receiver asks what. *)
(***************************************************************************)
EXTENDS Naturals

CONSTANT MaxBroadcasts   \* broadcasts on their way at the same time (a bound)

ASSUME BroadcastAssumption == MaxBroadcasts \in Nat \ {0}

VARIABLES
  cable,           \* ethInfo.isConnected()
  wifi,            \* Wi-Fi is on, or coming on
  wifi_save_state,
  broadcasts,      \* CONNECTIVITY_ACTION, not yet received
  switched,        \* what onReceive has done and not yet saved: "on", "off", "no"
  \* history
  wished,          \* what the user last said
  cut              \* the process died between the switch and the preference

wifiVars == <<cable, wifi, wifi_save_state, broadcasts, switched, wished, cut>>

WifiInit ==
  /\ cable = FALSE /\ wifi \in BOOLEAN /\ wished = wifi
  /\ wifi_save_state = FALSE /\ broadcasts = 0 /\ switched = "no" /\ cut = FALSE

\* External: the cable, the user, and Wi-Fi that has found or lost its network.
CableChanges ==
  /\ broadcasts < MaxBroadcasts
  /\ cable' = ~cable /\ broadcasts' = broadcasts + 1
  /\ UNCHANGED <<wifi, wifi_save_state, switched, wished, cut>>

UserToggles ==
  /\ wifi' = ~wifi /\ wished' = wifi'
  /\ UNCHANGED <<cable, wifi_save_state, broadcasts, switched, cut>>

WifiChanges ==
  /\ broadcasts < MaxBroadcasts /\ broadcasts' = broadcasts + 1
  /\ UNCHANGED <<cable, wifi, wifi_save_state, switched, wished, cut>>

\* onReceive up to setWifiEnabled.
onReceive ==
  /\ broadcasts > 0 /\ switched = "no"
  /\ broadcasts' = broadcasts - 1
  /\ switched' = IF cable /\ wifi THEN "off" ELSE IF ~cable /\ wifi_save_state THEN "on" ELSE "no"
  /\ wifi' = IF switched' = "no" THEN wifi ELSE switched' = "on"
  /\ UNCHANGED <<cable, wifi_save_state, wished, cut>>

\* Mutant: the state of Wi-Fi is asked for after it was switched.
setWiFiSaveStateLate ==
  /\ switched # "no" /\ switched' = "no"
  /\ wifi_save_state' = (switched = "off" /\ wifi)
  /\ UNCHANGED <<cable, wifi, broadcasts, wished, cut>>

setWiFiSaveState ==
  /\ switched # "no" /\ switched' = "no"
  /\ wifi_save_state' = (switched = "off")
  /\ UNCHANGED <<cable, wifi, broadcasts, wished, cut>>

\* A broadcast that nobody answered to the end is not sent again.
ReceiverDies ==
  /\ switched # "no" /\ switched' = "no"
  /\ cut' = TRUE
  /\ UNCHANGED <<cable, wifi, wifi_save_state, broadcasts, wished>>

WifiNext ==
  \/ CableChanges \/ UserToggles \/ WifiChanges
  \/ onReceive \/ setWiFiSaveState \/ ReceiverDies

WifiSpec == WifiInit /\ [][WifiNext]_wifiVars

-----------------------------------------------------------------------------
(* Properties                                                              *)

WifiTypeOK ==
  /\ cable \in BOOLEAN /\ wifi \in BOOLEAN /\ wifi_save_state \in BOOLEAN
  /\ broadcasts \in 0 .. MaxBroadcasts /\ switched \in {"on", "off", "no"}
  /\ wished \in BOOLEAN /\ cut \in BOOLEAN

\* A user who wants Wi-Fi has it when the cable is out and every broadcast
\* has been answered, whenever the cable or the user moved meanwhile.
WifiRestored == (wished /\ ~cable /\ broadcasts = 0 /\ switched = "no" /\ ~cut) => wifi
=============================================================================
