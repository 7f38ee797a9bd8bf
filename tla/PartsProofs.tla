----------------------------- MODULE PartsProofs -----------------------------
(***************************************************************************)
(* Proofs about the parts that have no module of proofs of their own:      *)
(* Wi-Fi against the cable, the paths that HDMI-in removes and puts back,  *)
(* the zoom and the window of the video, the mode and the sound when       *)
(* televisions are changed, cameras, subtitles; and about all the parts    *)
(* together, as they are checked.                                          *)
(***************************************************************************)
EXTENDS MCParts, HdmiInAudioProofs, RemoteConfProofs, SequenceTheorems, TLAPS

-----------------------------------------------------------------------------
(* Wi-Fi                                                                   *)

\* Wi-Fi that the user wants and does not have was switched off for the cable,
\* which is remembered, or about to be; when the cable goes a broadcast comes.
WifiInv ==
  /\ WifiTypeOK
  /\ wished = TRUE /\ wifi = FALSE /\ cut = FALSE =>
       /\ switched = "off" \/ (switched = "no" /\ wifi_save_state = TRUE)
       /\ cable = TRUE \/ broadcasts > 0

LEMMA WifiInvInit == WifiInit => WifiInv
<1> SUFFICES ASSUME WifiInit PROVE WifiInv
  OBVIOUS
<1>1. wished = wifi /\ switched = "no" /\ broadcasts = 0
  BY DEF WifiInit
<1>2. broadcasts \in 0 .. MaxBroadcasts
  BY <1>1, BroadcastAssumption
<1>3. /\ cable \in BOOLEAN /\ wifi \in BOOLEAN /\ wifi_save_state \in BOOLEAN
      /\ wished \in BOOLEAN /\ cut \in BOOLEAN
  BY DEF WifiInit
<1>4. WifiTypeOK
  BY <1>1, <1>2, <1>3 DEF WifiTypeOK
<1>5. ~(wished = TRUE /\ wifi = FALSE)
  BY <1>1
<1> QED BY <1>4, <1>5 DEF WifiInv

LEMMA WifiInvNext == WifiInv /\ [WifiNext]_wifiVars => WifiInv'
<1> SUFFICES ASSUME WifiInv, [WifiNext]_wifiVars PROVE WifiInv'
  OBVIOUS
<1> USE BroadcastAssumption DEF WifiInv, WifiTypeOK
<1>1. CASE CableChanges
  BY <1>1 DEF CableChanges
<1>2. CASE UserToggles
  BY <1>2 DEF UserToggles
<1>3. CASE WifiChanges
  BY <1>3 DEF WifiChanges
<1>4. CASE onReceive
  <2>1. /\ broadcasts > 0 /\ broadcasts' = broadcasts - 1 /\ switched = "no"
        /\ UNCHANGED <<cable, wifi_save_state, wished, cut>>
    BY <1>4 DEF onReceive
  <2>2. CASE cable = TRUE /\ wifi = TRUE
    BY <1>4, <2>1, <2>2 DEF onReceive
  <2>3. CASE cable = FALSE /\ wifi_save_state = TRUE
    BY <1>4, <2>1, <2>3 DEF onReceive
  <2>4. CASE ~(cable = TRUE /\ wifi = TRUE) /\ ~(cable = FALSE /\ wifi_save_state = TRUE)
    <3>1. switched' = "no" /\ wifi' = wifi
      BY <1>4, <2>4 DEF onReceive
    <3> QED BY <2>1, <2>4, <3>1
  <2> QED BY <2>2, <2>3, <2>4
<1>5. CASE setWiFiSaveState
  BY <1>5 DEF setWiFiSaveState
<1>6. CASE ReceiverDies
  BY <1>6 DEF ReceiverDies
<1>7. CASE UNCHANGED wifiVars
  BY <1>7 DEF wifiVars
<1> QED BY <1>1, <1>2, <1>3, <1>4, <1>5, <1>6, <1>7 DEF WifiNext

\* EthernetWifiSwitch gives back the Wi-Fi that it took, however the cable, the
\* user and the broadcasts interleave with its two steps.
THEOREM WifiComesBack == WifiSpec => []WifiRestored
<1>1. WifiInv => WifiRestored
  BY DEF WifiInv, WifiTypeOK, WifiRestored
<1> QED BY <1>1, WifiInvInit, WifiInvNext, PTL DEF WifiSpec

-----------------------------------------------------------------------------
(* The paths of HDMI-in                                                    *)

MapsOK ==
  /\ vfm \in [VfmPaths \cup {"hdmiin"} -> Chains]
  /\ saved \in [VfmPaths -> Chains]
  /\ inCall \in {"no", "init", "deinit"}

\* HDMI-in is in use, as far as the process knows.
Held == opened \/ inCall # "no"

\* A path of the boot is there, or, while HDMI-in is held, kept as text.
PathsInv ==
  ~lost => \A p \in VfmPaths : atBoot[p] = "own" =>
             \/ vfm[p] = "own" /\ (Held => saved[p] \in {"own", "none"})
             \/ Held /\ saved[p] = "own"

\* default_ext, which the calls make anew, is always kept as text.
ExtInv == ~lost /\ Held /\ atBoot["default_ext"] = "own" => saved["default_ext"] = "own"

SwitchesInv ==
  ~lost =>
    /\ ~opened /\ inCall # "deinit" => vfm["hdmiin"] = "none"
    /\ ~opened => ~receiver
    /\ hdmiin_on_video => layer /\ (opened \/ inCall = "deinit")
    /\ disable_video = 1 => layer /\ (opened \/ inCall = "init")
    /\ inCall # "no" => ~opened

HvInv == MapsOK /\ PathsInv /\ ExtInv /\ SwitchesInv

LEMMA MapsNext == HvInv /\ [HvNext]_hvVars => MapsOK'
<1> SUFFICES ASSUME HvInv, [HvNext]_hvVars PROVE MapsOK'
  OBVIOUS
<1> USE DEF MapsOK, Chains, VfmPaths, hvKept, hvHistory, Calls
<1>init. ASSUME NEW l \in BOOLEAN, NEW ppmgr \in BOOLEAN, init(l, ppmgr) PROVE MapsOK'
  BY <1>init DEF init, getPaths, InTheWay, Without, getScreenDev, HvInv
<1>deinit. ASSUME deinit PROVE MapsOK'
  BY <1>deinit DEF deinit, HvInv
<1>waitFrames. ASSUME waitFrames PROVE MapsOK'
  BY <1>waitFrames DEF waitFrames, HvInv
<1>initEnds. ASSUME initEnds PROVE MapsOK'
  BY <1>initEnds DEF initEnds, HvInv
<1>deinitEnds. ASSUME deinitEnds PROVE MapsOK'
  BY <1>deinitEnds DEF deinitEnds, Resumed, Without, HvInv
<1>startVideo. ASSUME startVideo PROVE MapsOK'
  BY <1>startVideo DEF startVideo, HvInv
<1>stopVideo. ASSUME stopVideo PROVE MapsOK'
  BY <1>stopVideo DEF stopVideo, HvInv
<1>displayHdmi. ASSUME displayHdmi PROVE MapsOK'
  BY <1>displayHdmi DEF displayHdmi, HvInv
<1>displayAndroid. ASSUME displayAndroid PROVE MapsOK'
  BY <1>displayAndroid DEF displayAndroid, HvInv
<1>setEnable. ASSUME NEW enable \in BOOLEAN, setEnable(enable) PROVE MapsOK'
  BY <1>setEnable DEF setEnable, getScreenDev, HvInv
<1>setPreviewWindow. ASSUME setPreviewWindow PROVE MapsOK'
  BY <1>setPreviewWindow DEF setPreviewWindow, HvInv
<1>startMov. ASSUME startMov PROVE MapsOK'
  BY <1>startMov DEF startMov, HvInv
<1>stopMov. ASSUME stopMov PROVE MapsOK'
  BY <1>stopMov DEF stopMov, HvInv
<1>setStateCB. ASSUME setStateCB PROVE MapsOK'
  BY <1>setStateCB DEF setStateCB, HvInv
<1>hvKill. ASSUME hvKill PROVE MapsOK'
  BY <1>hvKill DEF hvKill, Nothing, HvInv
<1>frameShown. ASSUME frameShown PROVE MapsOK'
  BY <1>frameShown DEF frameShown, HvInv
<1>still. ASSUME UNCHANGED hvVars PROVE MapsOK'
  BY <1>still DEF hvVars, HvInv
<1> QED
  BY <1>init, <1>deinit, <1>waitFrames, <1>initEnds, <1>deinitEnds, <1>startVideo, <1>stopVideo, <1>displayHdmi, <1>displayAndroid, <1>setEnable, <1>setPreviewWindow, <1>startMov, <1>stopMov, <1>setStateCB, <1>hvKill, <1>frameShown, <1>still DEF HvNext

LEMMA PathsNext == HvInv /\ [HvNext]_hvVars => PathsInv'
<1> SUFFICES ASSUME HvInv, [HvNext]_hvVars PROVE PathsInv'
  OBVIOUS
<1> USE DEF PathsInv, Held, VfmPaths, hvKept, hvHistory, Calls
<1>init. ASSUME NEW l \in BOOLEAN, NEW ppmgr \in BOOLEAN, init(l, ppmgr) PROVE PathsInv'
  <2>1. /\ inCall = "no" /\ inCall' = "init" /\ opened' = FALSE /\ atBoot' = atBoot
        /\ vfm' = Without(vfm, InTheWay(l)) /\ getPaths(l) /\ (lost' <=> (lost \/ opened))
    BY <1>init DEF init
  <2>2. DOMAIN vfm = VfmPaths \cup {"hdmiin"}
    BY DEF HvInv, MapsOK
  <2> SUFFICES ASSUME ~lost', NEW p \in VfmPaths, atBoot[p] = "own"
               PROVE  (vfm'[p] = "own" /\ saved'[p] \in {"own", "none"}) \/ saved'[p] = "own"
    BY <2>1
  <2>3. vfm[p] = "own"
    BY <2>1 DEF HvInv
  <2>4. CASE p \in InTheWay(l)
    BY <2>1, <2>3, <2>4 DEF getPaths
  <2>5. CASE p \notin InTheWay(l)
    BY <2>1, <2>2, <2>3, <2>5 DEF getPaths, Without
  <2> QED BY <2>4, <2>5
<1>deinit. ASSUME deinit PROVE PathsInv'
  BY <1>deinit DEF deinit, HvInv
<1>waitFrames. ASSUME waitFrames PROVE PathsInv'
  BY <1>waitFrames DEF waitFrames, HvInv
<1>initEnds. ASSUME initEnds PROVE PathsInv'
  BY <1>initEnds DEF initEnds, HvInv
<1>deinitEnds. ASSUME deinitEnds PROVE PathsInv'
  <2>1. /\ inCall = "deinit" /\ inCall' = "no" /\ UNCHANGED <<opened, atBoot, lost>>
        /\ vfm' = Resumed(Without(vfm, {"hdmiin"}))
    BY <1>deinitEnds DEF deinitEnds
  <2>2. DOMAIN vfm = VfmPaths \cup {"hdmiin"}
    BY DEF HvInv, MapsOK
  <2>3. \A p \in VfmPaths : vfm'[p] = IF saved[p] # "none" THEN saved[p] ELSE vfm[p]
    BY <2>1, <2>2 DEF Resumed, Without
  <2>4. \A p \in VfmPaths : ~lost /\ atBoot[p] = "own" => vfm'[p] = "own"
    BY <2>1, <2>3 DEF HvInv
  <2>5. ~lost => ~opened
    BY <2>1 DEF HvInv, SwitchesInv
  <2> QED BY <2>1, <2>4, <2>5
<1>startVideo. ASSUME startVideo PROVE PathsInv'
  BY <1>startVideo DEF startVideo, HvInv
<1>stopVideo. ASSUME stopVideo PROVE PathsInv'
  BY <1>stopVideo DEF stopVideo, HvInv
<1>displayHdmi. ASSUME displayHdmi PROVE PathsInv'
  BY <1>displayHdmi DEF displayHdmi, HvInv, MapsOK, ExtInv
<1>displayAndroid. ASSUME displayAndroid PROVE PathsInv'
  BY <1>displayAndroid DEF displayAndroid, HvInv, MapsOK, ExtInv
<1>setEnable. ASSUME NEW enable \in BOOLEAN, setEnable(enable) PROVE PathsInv'
  BY <1>setEnable DEF setEnable, getScreenDev, HvInv
<1>setPreviewWindow. ASSUME setPreviewWindow PROVE PathsInv'
  BY <1>setPreviewWindow DEF setPreviewWindow, HvInv
<1>startMov. ASSUME startMov PROVE PathsInv'
  BY <1>startMov DEF startMov, HvInv
<1>stopMov. ASSUME stopMov PROVE PathsInv'
  BY <1>stopMov DEF stopMov, HvInv
<1>setStateCB. ASSUME setStateCB PROVE PathsInv'
  BY <1>setStateCB DEF setStateCB, HvInv
<1>hvKill. ASSUME hvKill PROVE PathsInv'
  BY <1>hvKill DEF hvKill, Nothing, HvInv
<1>frameShown. ASSUME frameShown PROVE PathsInv'
  BY <1>frameShown DEF frameShown, HvInv
<1>still. ASSUME UNCHANGED hvVars PROVE PathsInv'
  BY <1>still DEF hvVars, HvInv
<1> QED
  BY <1>init, <1>deinit, <1>waitFrames, <1>initEnds, <1>deinitEnds, <1>startVideo, <1>stopVideo, <1>displayHdmi, <1>displayAndroid, <1>setEnable, <1>setPreviewWindow, <1>startMov, <1>stopMov, <1>setStateCB, <1>hvKill, <1>frameShown, <1>still DEF HvNext

LEMMA ExtNext == HvInv /\ [HvNext]_hvVars => ExtInv'
<1> SUFFICES ASSUME HvInv, [HvNext]_hvVars PROVE ExtInv'
  OBVIOUS
<1> USE DEF ExtInv, Held, VfmPaths, hvKept, hvHistory, Calls
<1>init. ASSUME NEW l \in BOOLEAN, NEW ppmgr \in BOOLEAN, init(l, ppmgr) PROVE ExtInv'
  <2>1. /\ inCall = "no" /\ inCall' = "init" /\ opened' = FALSE /\ atBoot' = atBoot
        /\ vfm' = Without(vfm, InTheWay(l)) /\ getPaths(l) /\ (lost' <=> (lost \/ opened))
    BY <1>init DEF init
  <2>2. DOMAIN vfm = VfmPaths \cup {"hdmiin"}
    BY DEF HvInv, MapsOK
  <2>3. "default_ext" \in VfmPaths /\ "default_ext" \in InTheWay(l)
    BY DEF InTheWay
  <2>4. saved'["default_ext"] = vfm["default_ext"]
    BY <2>1, <2>3 DEF getPaths
  <2>5. ~lost' /\ atBoot["default_ext"] = "own" => vfm["default_ext"] = "own"
    BY <2>1, <2>3 DEF HvInv, PathsInv
  <2> QED BY <2>1, <2>4, <2>5
<1>deinit. ASSUME deinit PROVE ExtInv'
  BY <1>deinit DEF deinit, HvInv
<1>waitFrames. ASSUME waitFrames PROVE ExtInv'
  BY <1>waitFrames DEF waitFrames, HvInv
<1>initEnds. ASSUME initEnds PROVE ExtInv'
  BY <1>initEnds DEF initEnds, HvInv
<1>deinitEnds. ASSUME deinitEnds PROVE ExtInv'
  BY <1>deinitEnds DEF deinitEnds, Resumed, Without, HvInv
<1>startVideo. ASSUME startVideo PROVE ExtInv'
  BY <1>startVideo DEF startVideo, HvInv
<1>stopVideo. ASSUME stopVideo PROVE ExtInv'
  BY <1>stopVideo DEF stopVideo, HvInv
<1>displayHdmi. ASSUME displayHdmi PROVE ExtInv'
  BY <1>displayHdmi DEF displayHdmi, HvInv
<1>displayAndroid. ASSUME displayAndroid PROVE ExtInv'
  BY <1>displayAndroid DEF displayAndroid, HvInv
<1>setEnable. ASSUME NEW enable \in BOOLEAN, setEnable(enable) PROVE ExtInv'
  BY <1>setEnable DEF setEnable, getScreenDev, HvInv
<1>setPreviewWindow. ASSUME setPreviewWindow PROVE ExtInv'
  BY <1>setPreviewWindow DEF setPreviewWindow, HvInv
<1>startMov. ASSUME startMov PROVE ExtInv'
  BY <1>startMov DEF startMov, HvInv
<1>stopMov. ASSUME stopMov PROVE ExtInv'
  BY <1>stopMov DEF stopMov, HvInv
<1>setStateCB. ASSUME setStateCB PROVE ExtInv'
  BY <1>setStateCB DEF setStateCB, HvInv
<1>hvKill. ASSUME hvKill PROVE ExtInv'
  BY <1>hvKill DEF hvKill, Nothing, HvInv
<1>frameShown. ASSUME frameShown PROVE ExtInv'
  BY <1>frameShown DEF frameShown, HvInv
<1>still. ASSUME UNCHANGED hvVars PROVE ExtInv'
  BY <1>still DEF hvVars, HvInv
<1> QED
  BY <1>init, <1>deinit, <1>waitFrames, <1>initEnds, <1>deinitEnds, <1>startVideo, <1>stopVideo, <1>displayHdmi, <1>displayAndroid, <1>setEnable, <1>setPreviewWindow, <1>startMov, <1>stopMov, <1>setStateCB, <1>hvKill, <1>frameShown, <1>still DEF HvNext

LEMMA SwitchesNext == HvInv /\ [HvNext]_hvVars => SwitchesInv'
<1> SUFFICES ASSUME HvInv, [HvNext]_hvVars PROVE SwitchesInv'
  OBVIOUS
<1> USE DEF SwitchesInv, VfmPaths, hvKept, hvHistory, Calls
<1>init. ASSUME NEW l \in BOOLEAN, NEW ppmgr \in BOOLEAN, init(l, ppmgr) PROVE SwitchesInv'
  <2>1. /\ inCall = "no" /\ inCall' = "init" /\ opened' = FALSE /\ atBoot' = atBoot
        /\ vfm' = Without(vfm, InTheWay(l)) /\ getPaths(l) /\ (lost' <=> (lost \/ opened))
    BY <1>init DEF init
  <2>2. DOMAIN vfm = VfmPaths \cup {"hdmiin"}
    BY DEF HvInv, MapsOK
  <2>3. /\ layer' = l /\ receiver' = FALSE /\ UNCHANGED hdmiin_on_video
        /\ disable_video' = IF l THEN 1 ELSE disable_video
    BY <1>init DEF init
  <2>4. ~lost' => vfm'["hdmiin"] = "none"
    BY <2>1, <2>2 DEF HvInv, Without, InTheWay
  <2>5. ~lost' => (hdmiin_on_video' = hdmiin_on_video /\ ~hdmiin_on_video)
    BY <2>1, <2>3 DEF HvInv
  <2>6. ~lost' /\ disable_video' = 1 => l
    BY <2>1, <2>3 DEF HvInv
  <2> QED BY <2>1, <2>3, <2>4, <2>5, <2>6
<1>deinit. ASSUME deinit PROVE SwitchesInv'
  BY <1>deinit DEF deinit, HvInv
<1>waitFrames. ASSUME waitFrames PROVE SwitchesInv'
  BY <1>waitFrames DEF waitFrames, HvInv
<1>initEnds. ASSUME initEnds PROVE SwitchesInv'
  BY <1>initEnds DEF initEnds, HvInv
<1>deinitEnds. ASSUME deinitEnds PROVE SwitchesInv'
  <2>1. /\ inCall = "deinit" /\ inCall' = "no" /\ UNCHANGED <<layer, receiver, disable_video, opened, lost>>
        /\ vfm' = Resumed(Without(vfm, {"hdmiin"}))
        /\ (hdmiin_on_video' <=> (~layer /\ hdmiin_on_video))
    BY <1>deinitEnds DEF deinitEnds
  <2>2. DOMAIN vfm = VfmPaths \cup {"hdmiin"}
    BY DEF HvInv, MapsOK
  <2>3. vfm'["hdmiin"] = "none"
    BY <2>1, <2>2 DEF Resumed, Without
  <2> QED BY <2>1, <2>3 DEF HvInv
<1>startVideo. ASSUME startVideo PROVE SwitchesInv'
  BY <1>startVideo DEF startVideo, HvInv
<1>stopVideo. ASSUME stopVideo PROVE SwitchesInv'
  BY <1>stopVideo DEF stopVideo, HvInv
<1>displayHdmi. ASSUME displayHdmi PROVE SwitchesInv'
  BY <1>displayHdmi DEF displayHdmi, HvInv
<1>displayAndroid. ASSUME displayAndroid PROVE SwitchesInv'
  BY <1>displayAndroid DEF displayAndroid, HvInv
<1>setEnable. ASSUME NEW enable \in BOOLEAN, setEnable(enable) PROVE SwitchesInv'
  BY <1>setEnable DEF setEnable, getScreenDev, HvInv
<1>setPreviewWindow. ASSUME setPreviewWindow PROVE SwitchesInv'
  BY <1>setPreviewWindow DEF setPreviewWindow, HvInv
<1>startMov. ASSUME startMov PROVE SwitchesInv'
  BY <1>startMov DEF startMov, HvInv
<1>stopMov. ASSUME stopMov PROVE SwitchesInv'
  BY <1>stopMov DEF stopMov, HvInv
<1>setStateCB. ASSUME setStateCB PROVE SwitchesInv'
  BY <1>setStateCB DEF setStateCB, HvInv
<1>hvKill. ASSUME hvKill PROVE SwitchesInv'
  BY <1>hvKill DEF hvKill, Nothing, HvInv
<1>frameShown. ASSUME frameShown PROVE SwitchesInv'
  BY <1>frameShown DEF frameShown, HvInv
<1>still. ASSUME UNCHANGED hvVars PROVE SwitchesInv'
  BY <1>still DEF hvVars, HvInv
<1> QED
  BY <1>init, <1>deinit, <1>waitFrames, <1>initEnds, <1>deinitEnds, <1>startVideo, <1>stopVideo, <1>displayHdmi, <1>displayAndroid, <1>setEnable, <1>setPreviewWindow, <1>startMov, <1>stopMov, <1>setStateCB, <1>hvKill, <1>frameShown, <1>still DEF HvNext

LEMMA HvInvInit == HvInit => HvInv
<1> SUFFICES ASSUME HvInit PROVE HvInv
  OBVIOUS
<1>1. PICK own \in BootPaths :
        vfm = [p \in VfmPaths \cup {"hdmiin"} |-> IF p \in own THEN "own" ELSE "none"]
  BY DEF HvInit
<1>2. "hdmiin" \notin own
  BY BootAssumption DEF VfmPaths
<1>3. /\ saved = Nothing /\ atBoot = vfm /\ inCall = "no" /\ ~opened /\ ~receiver
      /\ disable_video = 0 /\ ~hdmiin_on_video
  BY DEF HvInit
<1>4. MapsOK
  BY <1>1, <1>3 DEF MapsOK, Nothing, Chains
<1>5. PathsInv /\ ExtInv
  BY <1>3 DEF PathsInv, ExtInv, Held
<1>6. vfm["hdmiin"] = "none"
  BY <1>1, <1>2
<1>7. SwitchesInv
  BY <1>3, <1>6 DEF SwitchesInv
<1> QED BY <1>4, <1>5, <1>7 DEF HvInv

\* When deinit has ended the frame manager has the paths of the boot again, and
\* the receiver and the flags of the video layer are off, whatever was called
\* between, and whether or not the frames stopped in time.
THEOREM PathsComeBack == HvSpec => []PathsRestored
<1>1. HvInv => PathsRestored
  BY DEF HvInv, MapsOK, PathsInv, SwitchesInv, Held, PathsRestored
<1>2. HvInv /\ [HvNext]_hvVars => HvInv'
  BY MapsNext, PathsNext, ExtNext, SwitchesNext DEF HvInv
<1> QED BY <1>1, <1>2, HvInvInit, PTL DEF HvSpec

\* safeRmPath has a look left as long as it waits.
RetryOK == inCall # "no" => retry >= 1

LEMMA HvTypeInit == HvInit => HvTypeOK /\ RetryOK
<1> SUFFICES ASSUME HvInit PROVE HvTypeOK /\ RetryOK
  OBVIOUS
<1>1. PICK own \in BootPaths :
        vfm = [p \in VfmPaths \cup {"hdmiin"} |-> IF p \in own THEN "own" ELSE "none"]
  BY DEF HvInit
<1>2. vfm \in [VfmPaths \cup {"hdmiin"} -> Chains] /\ saved \in [VfmPaths -> Chains]
  BY HvInvInit DEF HvInv, MapsOK
<1>3. atBoot \in [DOMAIN vfm -> {"none", "own"}]
  BY <1>1 DEF HvInit
<1>4. retry \in 0 .. MaxRetry /\ disable_video \in 0 .. 2
  BY RetryAssumption DEF HvInit
<1>5. frames \in BOOLEAN /\ layer \in BOOLEAN /\ usePpmgr \in BOOLEAN /\ receiver \in BOOLEAN
      /\ hdmiin_on_video \in BOOLEAN /\ opened \in BOOLEAN /\ lost \in BOOLEAN
  BY DEF HvInit
<1> QED BY <1>2, <1>3, <1>4, <1>5 DEF HvInit, HvTypeOK, RetryOK, Chains

LEMMA HvTypeNext == HvInv /\ HvTypeOK /\ RetryOK /\ [HvNext]_hvVars => HvTypeOK' /\ RetryOK'
<1> SUFFICES ASSUME HvInv, HvTypeOK, RetryOK, [HvNext]_hvVars PROVE HvTypeOK' /\ RetryOK'
  OBVIOUS
<1>0. vfm' \in [VfmPaths \cup {"hdmiin"} -> Chains] /\ saved' \in [VfmPaths -> Chains]
      /\ inCall' \in {"no", "init", "deinit"}
  BY MapsNext DEF MapsOK
<1>1. atBoot' = atBoot
  BY DEF HvNext, init, deinit, waitFrames, initEnds, deinitEnds, startVideo, stopVideo, displayHdmi,
     displayAndroid, setEnable, setPreviewWindow, startMov, stopMov, setStateCB, hvKill, frameShown,
     hvKept, hvHistory, hvVars
<1>2. atBoot' \in [DOMAIN vfm' -> {"none", "own"}]
  BY <1>0, <1>1 DEF HvTypeOK
<1> DEFINE Ranges == /\ vfmHdmiin' \in Chains /\ retry' \in 0 .. MaxRetry /\ RetryOK'
                     /\ disable_video' \in 0 .. 2
                     /\ screenDev' \in {"closed", "open", "streaming"}
                     /\ displayState' \in {"START", "STOP"}
           Flags == /\ layer' \in BOOLEAN /\ usePpmgr' \in BOOLEAN /\ frames' \in BOOLEAN
                    /\ receiver' \in BOOLEAN /\ hdmiin_on_video' \in BOOLEAN
                    /\ opened' \in BOOLEAN /\ lost' \in BOOLEAN
<1>3. Ranges
  <2> USE RetryAssumption DEF HvTypeOK, RetryOK, hvKept, hvHistory, hvScreen, getScreenDev, Calls
  <2>1. ASSUME NEW l \in BOOLEAN, NEW ppmgr \in BOOLEAN, init(l, ppmgr) PROVE Ranges
    BY <2>1 DEF init, Chains
  <2>2. CASE deinit
    BY <2>2 DEF deinit
  <2>3. CASE waitFrames
    BY <2>3 DEF waitFrames, Removes
  <2>4. CASE initEnds
    BY <2>4 DEF initEnds
  <2>5. CASE deinitEnds
    BY <2>5 DEF deinitEnds
  <2>6. CASE startVideo \/ stopVideo
    BY <2>6 DEF startVideo, stopVideo
  <2>7. CASE displayHdmi \/ displayAndroid
    BY <2>7 DEF displayHdmi, displayAndroid
  <2>8. ASSUME NEW enable \in BOOLEAN, setEnable(enable) PROVE Ranges
    BY <2>8 DEF setEnable
  <2>9. CASE setPreviewWindow \/ startMov \/ stopMov \/ setStateCB
    BY <2>9 DEF setPreviewWindow, startMov, stopMov, setStateCB
  <2>10. CASE hvKill
    BY <2>10 DEF hvKill, Chains
  <2>11. CASE frameShown \/ UNCHANGED hvVars
    BY <2>11 DEF frameShown, hvVars
  <2> QED BY <2>1, <2>2, <2>3, <2>4, <2>5, <2>6, <2>7, <2>8, <2>9, <2>10, <2>11 DEF HvNext
<1>4. Flags
  <2> USE DEF HvTypeOK, hvKept, hvHistory, Calls
  <2>1. ASSUME NEW l \in BOOLEAN, NEW ppmgr \in BOOLEAN, init(l, ppmgr) PROVE Flags
    BY <2>1 DEF init
  <2>2. CASE deinit
    BY <2>2 DEF deinit
  <2>3. CASE waitFrames
    BY <2>3 DEF waitFrames
  <2>4. CASE initEnds
    BY <2>4 DEF initEnds
  <2>5. CASE deinitEnds
    BY <2>5 DEF deinitEnds
  <2>6. CASE startVideo \/ stopVideo
    BY <2>6 DEF startVideo, stopVideo
  <2>7. CASE displayHdmi \/ displayAndroid
    BY <2>7 DEF displayHdmi, displayAndroid
  <2>8. ASSUME NEW enable \in BOOLEAN, setEnable(enable) PROVE Flags
    BY <2>8 DEF setEnable
  <2>9. CASE setPreviewWindow \/ startMov \/ stopMov \/ setStateCB
    BY <2>9 DEF setPreviewWindow, startMov, stopMov, setStateCB
  <2>10. CASE hvKill
    BY <2>10 DEF hvKill
  <2>11. CASE frameShown \/ UNCHANGED hvVars
    BY <2>11 DEF frameShown, hvVars
  <2> QED BY <2>1, <2>2, <2>3, <2>4, <2>5, <2>6, <2>7, <2>8, <2>9, <2>10, <2>11 DEF HvNext
<1> QED BY <1>0, <1>2, <1>3, <1>4 DEF HvTypeOK

-----------------------------------------------------------------------------
(* The zoom                                                                *)

\* The size that belongs to a key.
KeyStep(k) ==
  CASE k \in {"480i", "480p60hz"}  -> Wide(720, 480)
    [] k \in {"576i", "576p50hz"}  -> Wide(720, 576)
    [] k = "720p"                  -> Wide(1280, 720)
    [] k \in {"1080i", "1080p"}    -> Wide(1920, 1080)
    [] k = "smpte24hz"             -> Wide(4096, 2160)
    [] OTHER                       -> Wide(3840, 2160)

\* Modes that share variables have the same size, and only modes of a
\* television have any.
LEMMA KeyDecidesSize ==
  ASSUME NEW m \in WindowModes, Key(m) # "none"
  PROVE  m \in TvModes /\ Step(m) = KeyStep(Key(m)) /\ Size(m) = Step(m)
<1>1. m \in TvModes
  BY WindowAssumption DEF Key, TvModes
<1>2. TvSize(m) = KeyStep(Key(m))
  <2>1. CASE m \in {"480i60hz", "480cvbs", "480p60hz"}
    BY <2>1 DEF TvSize, Key, KeyStep
  <2>2. CASE m \in {"576i50hz", "576cvbs", "576p50hz"}
    BY <2>2 DEF TvSize, Key, KeyStep
  <2>3. CASE m \in {"720p60hz", "720p50hz", "1080i60hz", "1080i50hz", "1080p60hz", "1080p50hz", "1080p24hz"}
    BY <2>3 DEF TvSize, Key, KeyStep
  <2>4. CASE m \in {"2160p24hz", "2160p25hz", "2160p30hz", "2160p50hz", "2160p50hz420",
                    "2160p60hz", "2160p60hz420", "smpte24hz"}
    BY <2>4, <1>1 DEF TvSize, Key, KeyStep
  <2> QED BY <1>1, <2>1, <2>2, <2>3, <2>4 DEF TvModes
<1> QED BY <1>1, <1>2 DEF Step, Size

LEMMA RateReadBack ==
  ASSUME NEW max \in {719, 1279, 1919, 3839, 4095}, NEW p \in 80 .. 100
  PROVE  InitialRate(Offset(p, max), max) = p
<1>1. CASE max = 719
  BY <1>1 DEF InitialRate, Offset
<1>2. CASE max = 1279
  BY <1>2 DEF InitialRate, Offset
<1>3. CASE max = 1919
  BY <1>3 DEF InitialRate, Offset
<1>4. CASE max = 3839
  BY <1>4 DEF InitialRate, Offset
<1>5. CASE max = 4095
  BY <1>5 DEF InitialRate, Offset
<1> QED BY <1>1, <1>2, <1>3, <1>4, <1>5

\* The rectangle r, saved in mode m, is that of the percentage p.
IsZoom(r, m, p) ==
  /\ InitialRate(r.x, MaxRight(m)) = p
  /\ r.x >= 0 /\ r.y >= 0
  /\ r.w = Size(m).w - 2 * r.x /\ r.h = Size(m).h - 2 * r.y

LEMMA ZoomedIsZoom ==
  ASSUME NEW m \in WindowModes, Key(m) # "none", NEW p \in 80 .. 100
  PROVE  IsZoom(Zoomed(p, m), m, p)
<1> DEFINE w == Step(m).w
           h == Step(m).h
<1>1. /\ w \in {720, 1280, 1920, 3840, 4096} /\ h \in {480, 576, 720, 1080, 2160}
      /\ Size(m) = Step(m)
  BY KeyDecidesSize DEF KeyStep, Wide
<1> HIDE DEF w, h
<1>2. MaxRight(m) = w - 1 /\ MaxBottom(m) = h - 1
  BY DEF MaxRight, MaxBottom, w, h
<1>3. Size(m).w = w /\ Size(m).h = h
  BY <1>1 DEF w, h
<1> DEFINE left == Offset(p, w - 1)
           top == Offset(p, h - 1)
<1>4. left \in Int /\ left >= 0 /\ top \in Int /\ top >= 0
  <2>1. (100 - p) * (w - 1) \in Nat /\ (100 - p) * (h - 1) \in Nat
    BY <1>1
  <2> QED BY <2>1 DEF Offset
<1>5. InitialRate(left, w - 1) = p
  <2>1. w - 1 \in {719, 1279, 1919, 3839, 4095}
    BY <1>1
  <2> QED BY <2>1, RateReadBack
<1>6. Zoomed(p, m) = [x |-> left, y |-> top, w |-> (w - 1) - 2 * left + 1,
                      h |-> (h - 1) - 2 * top + 1]
  BY <1>2 DEF Zoomed
<1> HIDE DEF left, top
<1>7. (w - 1) - 2 * left + 1 = w - 2 * left /\ (h - 1) - 2 * top + 1 = h - 2 * top
  BY <1>1, <1>4
<1> QED BY <1>2, <1>3, <1>4, <1>5, <1>6, <1>7 DEF IsZoom

\* Every mode has a size, and a picture that fits it.
LEMMA Sizes ==
  ASSUME NEW m \in WindowModes
  PROVE  /\ Size(m).w \in Nat \ {0} /\ Size(m).h \in Nat \ {0}
         /\ Size(m).w % 2 = 0 /\ Size(m).h % 2 = 0
         /\ Display(m).w \in Nat \ {0} /\ Display(m).h \in Nat \ {0}
<1>1. \A s \in {<<720, 480>>, <<720, 576>>, <<1280, 720>>, <<1920, 1080>>, <<3840, 2160>>, <<4096, 2160>>} :
        /\ s[1] \in Nat \ {0} /\ s[2] \in Nat \ {0} /\ s[1] % 2 = 0 /\ s[2] % 2 = 0
  OBVIOUS
<1>2. \A row \in PcSizes : /\ row[2] \in Nat \ {0} /\ row[3] \in Nat \ {0}
                           /\ row[2] % 2 = 0 /\ row[3] % 2 = 0
  BY DEF PcSizes
<1>3. \E s : /\ s[1] \in Nat \ {0} /\ s[2] \in Nat \ {0} /\ s[1] % 2 = 0 /\ s[2] % 2 = 0
             /\ Size(m) = Wide(s[1], s[2])
  <2>1. CASE m \in TvModes
    <3>1. \E s \in {<<720, 480>>, <<720, 576>>, <<1280, 720>>, <<1920, 1080>>, <<3840, 2160>>, <<4096, 2160>>} :
            Size(m) = Wide(s[1], s[2])
      BY <2>1 DEF Size, TvSize
    <3> QED BY <1>1, <3>1
  <2>2. CASE m \notin TvModes
    <3>1. m \in PcModes
      BY <2>2, WindowAssumption
    <3> DEFINE row == CHOOSE r \in PcSizes : r[1] = m
    <3>2. row \in PcSizes
      BY <3>1 DEF PcModes
    <3>3. Size(m) = Wide(row[2], row[3])
      BY <2>2 DEF Size, PcSize
    <3> HIDE DEF row
    <3>4. Size(m) = Wide(<<row[2], row[3]>>[1], <<row[2], row[3]>>[2])
      BY <3>3
    <3> QED BY <1>2, <3>2, <3>4
  <2> QED BY <2>1, <2>2
<1>4. Display(m) = Size(m) \/ Display(m) = Wide(1920, 1080) \/ Display(m) = Wide(2560, 1080)
  BY DEF Display
<1> QED BY <1>3, <1>4 DEF Wide

\* The rectangle of each mode is that of the zoom last saved for it.
EnvInv ==
  /\ dwMode \in WindowModes /\ page \in {"closed", dwMode}
  /\ DOMAIN env = Keys /\ zoomed \in [Keys -> 80 .. 100]
  /\ \A m \in WindowModes : Key(m) # "none" => env[Key(m)] = Zoomed(zoomed[Key(m)], m)

LEMMA FullIsZoomed ==
  ASSUME NEW m \in WindowModes, Key(m) # "none"
  PROVE  Full(m) = Zoomed(100, m)
<1>1. Size(m) = Step(m) /\ Size(m).w \in Nat /\ Size(m).h \in Nat
  BY KeyDecidesSize, Sizes
<1>2. MaxRight(m) = Size(m).w - 1 /\ MaxBottom(m) = Size(m).h - 1
  BY <1>1 DEF MaxRight, MaxBottom
<1>3. Offset(100, MaxRight(m)) = 0 /\ Offset(100, MaxBottom(m)) = 0
  BY <1>1, <1>2 DEF Offset
<1> QED BY <1>1, <1>2, <1>3 DEF Full, Zoomed

\* Modes with one key have the same picture at every zoom.
LEMMA SameKeySamePicture ==
  ASSUME NEW m \in WindowModes, NEW n \in WindowModes, Key(m) # "none", Key(m) = Key(n), NEW p
  PROVE  Zoomed(p, m) = Zoomed(p, n)
<1>1. Step(m) = Step(n)
  BY KeyDecidesSize
<1> QED BY <1>1 DEF Zoomed, MaxRight, MaxBottom

LEMMA EnvInvInit == DwInit => EnvInv
<1> SUFFICES ASSUME DwInit PROVE EnvInv
  OBVIOUS
<1>1. /\ dwMode \in WindowModes /\ page = "closed"
      /\ env = [k \in Keys |-> Full(CHOOSE m \in WindowModes : Key(m) = k)]
      /\ zoomed = [k \in Keys |-> 100]
  BY DEF DwInit
<1>2. ASSUME NEW m \in WindowModes, Key(m) # "none"
      PROVE  env[Key(m)] = Zoomed(zoomed[Key(m)], m)
  <2> DEFINE n == CHOOSE o \in WindowModes : Key(o) = Key(m)
  <2>1. n \in WindowModes /\ Key(n) = Key(m)
    OBVIOUS
  <2>2. Key(m) \in Keys
    BY <1>2 DEF Keys
  <2>3. env[Key(m)] = Full(n) /\ zoomed[Key(m)] = 100
    BY <1>1, <2>2
  <2> HIDE DEF n
  <2>4. Full(n) = Zoomed(100, n)
    BY <1>2, <2>1, FullIsZoomed
  <2>5. Zoomed(100, n) = Zoomed(100, m)
    BY <1>2, <2>1, SameKeySamePicture
  <2> QED BY <2>3, <2>4, <2>5
<1>3. zoomed \in [Keys -> 80 .. 100]
  <2>1. 100 \in 80 .. 100
    OBVIOUS
  <2> QED BY <1>1, <2>1
<1> QED BY <1>1, <1>2, <1>3 DEF EnvInv

LEMMA EnvZoom ==
  ASSUME EnvInv, NEW p \in Percents, zoomByPercent(p)
  PROVE  EnvInv'
<1>1. /\ page = dwMode /\ UNCHANGED <<dwMode, page>> /\ p \in 80 .. 100
      /\ env' = [k \in Keys |-> IF k = Key(dwMode) THEN Zoomed(p, dwMode) ELSE env[k]]
      /\ zoomed' = [k \in Keys |-> IF k = Key(dwMode) THEN p ELSE zoomed[k]]
  BY WindowAssumption DEF zoomByPercent, setPosition, EnvInv
<1>2. ASSUME NEW m \in WindowModes, Key(m) # "none"
      PROVE  env'[Key(m)] = Zoomed(zoomed'[Key(m)], m)
  <2>1. Key(m) \in Keys
    BY <1>2 DEF Keys
  <2>2. CASE Key(m) = Key(dwMode)
    BY <1>1, <1>2, <2>1, <2>2, SameKeySamePicture DEF EnvInv
  <2>3. CASE Key(m) # Key(dwMode)
    BY <1>1, <1>2, <2>1, <2>3 DEF EnvInv
  <2> QED BY <2>2, <2>3
<1>3. zoomed' \in [Keys -> 80 .. 100]
  BY <1>1 DEF EnvInv
<1> QED BY <1>1, <1>2, <1>3 DEF EnvInv

LEMMA EnvInvNext == EnvInv /\ [DwNext]_dwVars => EnvInv'
<1> SUFFICES ASSUME EnvInv, [DwNext]_dwVars PROVE EnvInv'
  OBVIOUS
<1>1. ASSUME NEW m \in WindowModes, SwitchMode(m) PROVE EnvInv'
  BY <1>1 DEF SwitchMode, EnvInv
<1>2. ASSUME NEW r \in Windows, setNativeWindow(r) PROVE EnvInv'
  BY <1>2 DEF setNativeWindow, EnvInv
<1>3. CASE initPostion
  BY <1>3 DEF initPostion, EnvInv
<1>4. CASE CloseZoom
  BY <1>4 DEF CloseZoom, EnvInv
<1>5. ASSUME NEW p \in Percents, zoomByPercent(p) PROVE EnvInv'
  BY <1>5, EnvZoom
<1>6. ASSUME NEW step, zoom(step) PROVE EnvInv'
  BY <1>6, EnvZoom DEF zoom
<1>7. CASE UNCHANGED dwVars
  BY <1>7 DEF dwVars, EnvInv
<1> QED BY <1>1, <1>2, <1>3, <1>4, <1>5, <1>6, <1>7 DEF DwNext

\* DisplayPositionManager reads back from the rectangle the percentage that was
\* set, in every mode of a television and for every zoom from 80 to 100, and the
\* rectangle is centred in the picture.
THEOREM ZoomReadsBack == DwSpec => []ZoomKept
<1>1. EnvInv => ZoomKept
  <2> SUFFICES ASSUME EnvInv, NEW m \in WindowModes, Key(m) # "none"
               PROVE  IsZoom(env[Key(m)], m, zoomed[Key(m)])
    BY DEF ZoomKept, IsZoom
  <2>1. zoomed[Key(m)] \in 80 .. 100 /\ env[Key(m)] = Zoomed(zoomed[Key(m)], m)
    BY DEF EnvInv, Keys
  <2> QED BY <2>1, ZoomedIsZoom
<1> QED BY <1>1, EnvInvInit, EnvInvNext, PTL DEF DwSpec

-----------------------------------------------------------------------------
(* The window of the video                                                 *)

LEMMA Offsets ==
  ASSUME NEW p \in 80 .. 100, NEW max \in {479, 575, 719, 1079, 1279, 1919, 2159, 3839, 4095}
  PROVE  Offset(p, max) \in Nat /\ 20 * Offset(p, max) <= max
<1>1. CASE max \in {479, 575, 719}
  BY <1>1 DEF Offset
<1>2. CASE max \in {1079, 1279, 1919}
  BY <1>2 DEF Offset
<1>3. CASE max \in {2159, 3839, 4095}
  BY <1>3 DEF Offset
<1> QED BY <1>1, <1>2, <1>3

LEMMA ZoomedRect ==
  ASSUME NEW m \in WindowModes, Key(m) # "none", NEW p \in 80 .. 100
  PROVE  Zoomed(p, m) \in Rect /\ Zoomed(p, m).w > 0 /\ Zoomed(p, m).h > 0
<1> DEFINE left == Offset(p, MaxRight(m))
           top == Offset(p, MaxBottom(m))
<1>1. MaxRight(m) \in {719, 1279, 1919, 3839, 4095} /\ MaxBottom(m) \in {479, 575, 719, 1079, 2159}
  BY KeyDecidesSize DEF MaxRight, MaxBottom, KeyStep, Wide
<1>2. left \in Nat /\ 20 * left <= MaxRight(m) /\ top \in Nat /\ 20 * top <= MaxBottom(m)
  BY <1>1, Offsets
<1>3. Zoomed(p, m) = [x |-> left, y |-> top, w |-> MaxRight(m) - 2 * left + 1,
                      h |-> MaxBottom(m) - 2 * top + 1]
  BY DEF Zoomed
<1> HIDE DEF left, top
<1> QED BY <1>1, <1>2, <1>3 DEF Rect

\* A picture has a size, so that a window can be scaled by it.
LEMMA Positions ==
  ASSUME EnvInv, NEW m \in WindowModes
  PROVE  getPosition(m) \in Rect /\ getPosition(m).w > 0 /\ getPosition(m).h > 0
<1>1. CASE Key(m) = "none"
  BY <1>1, Sizes DEF getPosition, Full, Rect
<1>2. CASE Key(m) # "none"
  <2>1. zoomed[Key(m)] \in 80 .. 100 /\ getPosition(m) = Zoomed(zoomed[Key(m)], m)
    BY <1>2 DEF EnvInv, Keys, getPosition
  <2> QED BY <1>2, <2>1, ZoomedRect
<1> QED BY <1>1, <1>2

\* The driver keeps a rectangle in its grain: once is enough, no coordinate
\* moves by more than a pixel, and none becomes valid by it.
LEMMA StoredRect ==
  ASSUME NEW a \in Rect
  PROVE  /\ Stored(a) \in Rect /\ Stored(Stored(a)) = Stored(a)
         /\ axisValid(Stored(a)) => checkAxisSame(a, Stored(a))
<1>1. \A v \in Int : /\ (v \div Grain) * Grain \in Int
                     /\ (((v \div Grain) * Grain) \div Grain) * Grain = (v \div Grain) * Grain
                     /\ axisEqual(v, (v \div Grain) * Grain)
                     /\ (v \div Grain) * Grain >= 0 => v >= 0
                     /\ (v \div Grain) * Grain > 0 => v > 0
  <2>1. CASE Grain = 1
    BY <2>1 DEF axisEqual
  <2>2. CASE Grain = 2
    BY <2>2 DEF axisEqual
  <2> QED BY <2>1, <2>2, WindowAssumption
<1>2. a.x \in Int /\ a.y \in Int /\ a.w \in Int /\ a.h \in Int
  BY DEF Rect
<1> QED BY <1>1, <1>2 DEF Stored, Rect, checkAxisSame, axisValid

LEMMA FullStored ==
  ASSUME NEW m \in WindowModes
  PROVE  Full(m) \in Rect /\ Stored(Full(m)) = Full(m)
<1>1. \A v \in Nat : v % 2 = 0 => (v \div Grain) * Grain = v
  <2>1. CASE Grain = 1
    BY <2>1
  <2>2. CASE Grain = 2
    BY <2>2
  <2> QED BY <2>1, <2>2, WindowAssumption
<1>2. (0 \div Grain) * Grain = 0
  BY <1>1
<1> QED BY <1>1, <1>2, Sizes DEF Full, Stored, Rect

LEMMA RoundedInt ==
  ASSUME NEW n \in Int, NEW d \in Int, d > 0
  PROVE  Rounded(n, d) \in Int
BY DEF Rounded

LEMMA ComputedRect ==
  ASSUME NEW pre \in Rect, pre.w > 0, pre.h > 0, NEW pos \in Rect, NEW a \in Rect
  PROVE  calcVideoAxis(pre, pos, a) \in Rect
<1>1. /\ pre.w \in Int /\ pre.h \in Int
      /\ (a.x - pre.x) * pos.w \in Int /\ (a.y - pre.y) * pos.h \in Int
      /\ a.w * pos.w \in Int /\ a.h * pos.h \in Int /\ pos.x \in Int /\ pos.y \in Int
  BY DEF Rect
<1>2. /\ Rounded((a.x - pre.x) * pos.w, pre.w) \in Int /\ Rounded((a.y - pre.y) * pos.h, pre.h) \in Int
      /\ Rounded(a.w * pos.w, pre.w) \in Int /\ Rounded(a.h * pos.h, pre.h) \in Int
  BY <1>1, RoundedInt
<1> QED BY <1>1, <1>2 DEF calcVideoAxis, Rect

\* The register holds what the driver makes of a rectangle.  Every mode that
\* the history speaks of is in the map, and the map stands for the place the
\* window had; so the next switch finds it known.
WindowInv ==
  /\ EnvInv
  /\ axis \in Rect /\ Stored(axis) = axis
  /\ DOMAIN mVideoAxisMap \subseteq WindowModes
  /\ \A m \in DOMAIN mVideoAxisMap : mVideoAxisMap[m] \in Rect
  /\ mVideoAxisMap = [m \in DOMAIN mVideoAxisMap |-> mVideoAxisMap[m]]
  /\ DOMAIN home \subseteq DOMAIN mVideoAxisMap
  /\ \A m \in DOMAIN home : home[m] = Stored(mVideoAxisMap[m])
  /\ DOMAIN home # {} => dwMode \in DOMAIN home /\ home[dwMode] = axis /\ axisValid(axis)

LEMMA WindowInvInit == DwInit => WindowInv
<1> SUFFICES ASSUME DwInit PROVE WindowInv
  OBVIOUS
<1>1. EnvInv
  BY EnvInvInit
<1>2. axis \in Rect /\ Stored(axis) = axis
  BY FullStored DEF DwInit
<1>3. DOMAIN mVideoAxisMap = {} /\ DOMAIN home = {} /\ mVideoAxisMap = [m \in {} |-> mVideoAxisMap[m]]
  BY DEF DwInit, Nowhere
<1> QED BY <1>1, <1>2, <1>3 DEF WindowInv

LEMMA WindowSwitch ==
  ASSUME WindowInv, NEW m \in WindowModes, SwitchMode(m)
  PROVE  WindowInv'
<1>1. m # dwMode /\ dwMode' = m /\ dwMode \in WindowModes
  BY DEF SwitchMode, WindowInv, EnvInv
<1>2. EnvInv'
  BY DEF SwitchMode, WindowInv, EnvInv
<1> DEFINE pre == getPosition(dwMode)
           pos == getPosition(m)
           computed == calcVideoAxis(pre, pos, axis)
           known == dwMode \in DOMAIN mVideoAxisMap /\ checkAxisSame(mVideoAxisMap[dwMode], axis)
           noted == Set(IF known THEN mVideoAxisMap ELSE Nowhere, dwMode, axis)
<1>3. pre \in Rect /\ pre.w > 0 /\ pre.h > 0 /\ pos \in Rect /\ axis \in Rect
  BY <1>1, Positions DEF WindowInv
<1>4. computed \in Rect
  BY <1>3, ComputedRect
<1>5. CASE FillsPicture(axis, pre)
  <2>1. axis' = Stored(pos) /\ UNCHANGED mVideoAxisMap /\ home' = Nowhere
    BY <1>5 DEF SwitchMode, setVideoAxis
  <2>2. axis' \in Rect /\ Stored(axis') = axis'
    BY <1>3, <2>1, StoredRect
  <2> QED BY <1>2, <2>1, <2>2 DEF WindowInv, Nowhere
<1>6. CASE ~FillsPicture(axis, pre)
  <2>1. /\ mVideoAxisMap' = IF known /\ m \in DOMAIN noted THEN noted ELSE Set(noted, m, computed)
        /\ axis' = Stored(mVideoAxisMap'[m])
    BY <1>6 DEF SwitchMode, setVideoAxis
  <2>2. /\ DOMAIN noted \subseteq WindowModes /\ dwMode \in DOMAIN noted /\ noted[dwMode] = axis
        /\ \A n \in DOMAIN noted : noted[n] \in Rect
        /\ known => DOMAIN noted = DOMAIN mVideoAxisMap /\ \A n \in DOMAIN noted \ {dwMode} : noted[n] = mVideoAxisMap[n]
        /\ noted = [n \in DOMAIN noted |-> noted[n]]
    BY <1>1, <1>3 DEF WindowInv, Set, Nowhere
  <2> HIDE DEF noted, computed
  <2>3. /\ DOMAIN mVideoAxisMap' = DOMAIN noted \cup {m}
        /\ \A n \in DOMAIN noted \ {m} : mVideoAxisMap'[n] = noted[n]
        /\ mVideoAxisMap'[m] = IF known /\ m \in DOMAIN noted THEN noted[m] ELSE computed
        /\ mVideoAxisMap' = [n \in DOMAIN mVideoAxisMap' |-> mVideoAxisMap'[n]]
    BY <2>1, <2>2 DEF Set
  <2>4. DOMAIN mVideoAxisMap' \subseteq WindowModes /\ \A n \in DOMAIN mVideoAxisMap' : mVideoAxisMap'[n] \in Rect
    BY <1>4, <2>2, <2>3
  <2>5. axis' \in Rect /\ Stored(axis') = axis'
    BY <2>1, <2>3, <2>4, StoredRect
  <2>6. CASE ~axisValid(axis')
    <3>1. home' = Nowhere
      BY <2>6 DEF SwitchMode
    <3> QED BY <1>2, <2>3, <2>4, <2>5, <3>1 DEF WindowInv, Nowhere
  <2>7. CASE axisValid(axis')
    <3> DEFINE left == IF dwMode \in DOMAIN home THEN home ELSE Set(home, dwMode, axis)
    <3>1. home' = IF m \in DOMAIN left THEN left ELSE Set(left, m, axis')
      BY <1>6, <2>7 DEF SwitchMode
    <3>2. dwMode \in DOMAIN home => known
      <4> SUFFICES ASSUME dwMode \in DOMAIN home PROVE known
        OBVIOUS
      <4>1. /\ dwMode \in DOMAIN mVideoAxisMap /\ mVideoAxisMap[dwMode] \in Rect
            /\ axis = Stored(mVideoAxisMap[dwMode]) /\ axisValid(axis)
        BY DEF WindowInv
      <4> QED BY <4>1, StoredRect
    <3>3. /\ DOMAIN left \subseteq DOMAIN noted /\ dwMode \in DOMAIN left
          /\ \A n \in DOMAIN left : left[n] = Stored(noted[n])
      <4>1. CASE dwMode \in DOMAIN home
        BY <2>2, <3>2, <4>1 DEF WindowInv
      <4>2. CASE dwMode \notin DOMAIN home
        <5>1. DOMAIN left = {dwMode} /\ left[dwMode] = axis
          BY <4>2 DEF WindowInv, Set
        <5> QED BY <2>2, <5>1 DEF WindowInv
      <4> QED BY <4>1, <4>2
    <3>4. m \in DOMAIN left => known
      BY <1>1, <3>2 DEF WindowInv, Set
    <3> HIDE DEF left, known
    <3>5. DOMAIN home' = DOMAIN left \cup {m} /\ DOMAIN home' \subseteq DOMAIN mVideoAxisMap'
      BY <2>3, <3>1, <3>3 DEF Set
    <3>6. home'[m] = axis'
      BY <2>1, <2>3, <3>1, <3>3, <3>4 DEF Set
    <3>7. \A n \in DOMAIN home' \ {m} : home'[n] = left[n]
      BY <3>1, <3>5 DEF Set
    <3>8. \A n \in DOMAIN home' : home'[n] = Stored(mVideoAxisMap'[n])
      BY <2>1, <2>3, <3>3, <3>5, <3>6, <3>7
    <3> QED BY <1>1, <1>2, <2>3, <2>4, <2>5, <2>7, <3>5, <3>6, <3>8 DEF WindowInv
  <2> QED BY <2>6, <2>7
<1> QED BY <1>5, <1>6

LEMMA NativeRect ==
  ASSUME WindowInv, mDisplay \in {Display(m) : m \in WindowModes}, NEW r \in Windows, setNativeWindow(r)
  PROVE  axis' \in Rect /\ Stored(axis') = axis'
<1>1. /\ getPosition(dwMode) \in Rect /\ r \in Rect
      /\ mDisplay.w \in Nat \ {0} /\ mDisplay.h \in Nat \ {0}
  BY Positions, Sizes, WindowAssumption DEF WindowInv, EnvInv
<1> DEFINE pos == getPosition(dwMode)
<1>2. /\ r.x * pos.w \in Int /\ r.y * pos.h \in Int /\ r.w * pos.w \in Int /\ r.h * pos.h \in Int
      /\ pos.x \in Int /\ pos.y \in Int
  BY <1>1 DEF Rect
<1>3. \A n \in Int : n \div mDisplay.w \in Int /\ n \div mDisplay.h \in Int
  BY <1>1
<1> DEFINE placed == [x |-> pos.x + (r.x * pos.w) \div mDisplay.w,
                      y |-> pos.y + (r.y * pos.h) \div mDisplay.h,
                      w |-> (r.w * pos.w) \div mDisplay.w,
                      h |-> (r.h * pos.h) \div mDisplay.h]
<1>4. placed \in Rect
  BY <1>2, <1>3 DEF Rect
<1>5. axis' = Stored(placed)
  BY DEF setNativeWindow
<1> HIDE DEF placed
<1> QED BY <1>4, <1>5, StoredRect

LEMMA WindowInvNext ==
  WindowInv /\ mDisplay \in {Display(m) : m \in WindowModes} /\ [DwNext]_dwVars => WindowInv'
<1> SUFFICES ASSUME WindowInv, mDisplay \in {Display(m) : m \in WindowModes}, [DwNext]_dwVars
             PROVE  WindowInv'
  OBVIOUS
<1>0. EnvInv'
  BY EnvInvNext DEF WindowInv
<1>1. ASSUME NEW m \in WindowModes, SwitchMode(m) PROVE WindowInv'
  BY <1>1, WindowSwitch
<1>2. ASSUME NEW r \in Windows, setNativeWindow(r) PROVE WindowInv'
  <2>1. axis' \in Rect /\ Stored(axis') = axis'
    BY <1>2, NativeRect
  <2> QED BY <1>0, <1>2, <2>1 DEF setNativeWindow, WindowInv, Nowhere
<1>3. CASE initPostion
  BY <1>0, <1>3 DEF initPostion, WindowInv
<1>4. CASE CloseZoom
  BY <1>0, <1>4 DEF CloseZoom, WindowInv
<1>5. ASSUME NEW p \in Percents, zoomByPercent(p) PROVE WindowInv'
  BY <1>0, <1>5 DEF zoomByPercent, WindowInv, Nowhere
<1>6. ASSUME NEW step, zoom(step) PROVE WindowInv'
  BY <1>5, <1>6 DEF zoom
<1>7. CASE UNCHANGED dwVars
  BY <1>0, <1>7 DEF dwVars, WindowInv
<1> QED BY <1>1, <1>2, <1>3, <1>4, <1>5, <1>6, <1>7 DEF DwNext

LEMMA DwTypeInit == DwInit => DwTypeOK
<1> SUFFICES ASSUME DwInit PROVE DwTypeOK
  OBVIOUS
<1>1. \A k \in Keys : env[k] \in Rect
  <2> SUFFICES ASSUME NEW k \in Keys PROVE env[k] \in Rect
    OBVIOUS
  <2>1. \E m \in WindowModes : Key(m) = k
    BY DEF Keys
  <2>2. env[k] = Full(CHOOSE m \in WindowModes : Key(m) = k)
    BY DEF DwInit
  <2> QED BY <2>1, <2>2, FullStored
<1>2. env \in [Keys -> Rect]
  BY <1>1 DEF DwInit
<1>3. /\ mDisplay \in {Display(m) : m \in WindowModes} /\ page = "closed" /\ screen_rate = 100
      /\ DOMAIN home = {}
  BY DEF DwInit, Nowhere
<1> QED BY <1>2, <1>3, WindowInvInit DEF DwTypeOK, WindowInv, EnvInv

LEMMA DwTypeZoom ==
  ASSUME WindowInv, DwTypeOK, WindowInv', NEW p \in Percents, zoomByPercent(p)
  PROVE  DwTypeOK'
<1>1. /\ page = dwMode /\ UNCHANGED <<mDisplay, page>> /\ p \in 80 .. 100 /\ screen_rate' = p
      /\ env' = [k \in Keys |-> IF k = Key(dwMode) THEN Zoomed(p, dwMode) ELSE env[k]]
      /\ home' = Nowhere
  BY WindowAssumption DEF zoomByPercent, setPosition, WindowInv, EnvInv
<1>2. \A k \in Keys : k = Key(dwMode) => Zoomed(p, dwMode) \in Rect
  BY <1>1, ZoomedRect DEF Keys, WindowInv, EnvInv
<1>3. env' \in [Keys -> Rect]
  BY <1>1, <1>2 DEF DwTypeOK
<1>4. screen_rate' \in 80 .. 100 /\ DOMAIN home' = {}
  BY <1>1 DEF Nowhere
<1> QED BY <1>1, <1>3, <1>4 DEF DwTypeOK, WindowInv, EnvInv

\* Whatever is read back into the page is a zoom that could have been set.
LEMMA DwTypeNext == WindowInv /\ DwTypeOK /\ [DwNext]_dwVars => DwTypeOK'
<1> SUFFICES ASSUME WindowInv, DwTypeOK, [DwNext]_dwVars PROVE DwTypeOK'
  OBVIOUS
<1>0. WindowInv'
  BY WindowInvNext DEF DwTypeOK
<1>1. ASSUME NEW m \in WindowModes, SwitchMode(m) PROVE DwTypeOK'
  BY <1>0, <1>1 DEF SwitchMode, DwTypeOK, WindowInv
<1>2. ASSUME NEW r \in Windows, setNativeWindow(r) PROVE DwTypeOK'
  BY <1>0, <1>2 DEF setNativeWindow, DwTypeOK, WindowInv
<1>3. CASE initPostion
  <2>1. InitialRate(getPosition(dwMode).x, MaxRight(dwMode)) \in 80 .. 100
    <3>1. CASE Key(dwMode) = "none"
      <4>1. getPosition(dwMode).x = 0 /\ 100 \in 80 .. 100
        BY <3>1 DEF getPosition, Full
      <4> QED BY <4>1 DEF InitialRate
    <3>2. CASE Key(dwMode) # "none"
      <4>1. /\ zoomed[Key(dwMode)] \in 80 .. 100 /\ dwMode \in WindowModes
            /\ getPosition(dwMode) = Zoomed(zoomed[Key(dwMode)], dwMode)
        BY <3>2 DEF getPosition, WindowInv, EnvInv, Keys
      <4> QED BY <3>2, <4>1, ZoomedIsZoom DEF IsZoom
    <3> QED BY <3>1, <3>2
  <2> QED BY <1>0, <1>3, <2>1 DEF initPostion, DwTypeOK, WindowInv
<1>4. CASE CloseZoom
  BY <1>0, <1>4 DEF CloseZoom, DwTypeOK, WindowInv
<1>5. ASSUME NEW p \in Percents, zoomByPercent(p) PROVE DwTypeOK'
  BY <1>0, <1>5, DwTypeZoom
<1>6. ASSUME NEW step, zoom(step) PROVE DwTypeOK'
  BY <1>5, <1>6 DEF zoom
<1>7. CASE UNCHANGED dwVars
  BY <1>7 DEF dwVars, DwTypeOK
<1> QED BY <1>1, <1>2, <1>3, <1>4, <1>5, <1>6, <1>7 DEF DwNext

LEMMA WindowInvariant == DwSpec => [](WindowInv /\ DwTypeOK)
<1>1. WindowInv /\ DwTypeOK /\ [DwNext]_dwVars => (WindowInv /\ DwTypeOK)'
  BY WindowInvNext, DwTypeNext DEF DwTypeOK
<1> QED BY <1>1, WindowInvInit, DwTypeInit, PTL DEF DwSpec

\* The output goes from mode to mode and back, as often as it likes, through
\* modes of any sizes and zooms: the video is where it was.  The rectangle that
\* setVideoAxis remembers, and not the one the roundings have led to, decides.
THEOREM WindowComesBack == DwSpec => []WindowReturns
<1>1. WindowInv => WindowReturns
  <2> SUFFICES ASSUME WindowInv, dwMode \in DOMAIN home PROVE checkAxisSame(home[dwMode], axis)
    BY DEF WindowReturns
  <2>1. home[dwMode] = axis /\ axisValid(axis) /\ axis \in Rect
    BY DEF WindowInv
  <2> QED BY <2>1 DEF checkAxisSame, axisEqual, Rect
<1> QED BY <1>1, WindowInvariant, PTL

-----------------------------------------------------------------------------
(* Televisions that come and go                                            *)

LEMMA BestTyped ==
  ASSUME tv \in Tvs \cup {NoTv}
  PROVE  getBestMatchResolution \in HdmiModes
<1>1. tv.star \in HdmiModes \cup {NoStar}
  BY PlugAssumption DEF NoTv
<1> QED BY <1>1, PlugAssumption DEF getBestMatchResolution

LEMMA SupportedTyped ==
  ASSUME OpTypeOK
  PROVE  getSupportedResolution \in HdmiModes
BY BestTyped DEF OpTypeOK, getSupportedResolution

LEMMA AutoTyped == ASSUME NEW cap PROVE autoSwitch(cap) \in AutoSounds
BY DEF autoSwitch, AutoSounds

\* What a switch leaves, whichever thread asks for it.
LEMMA SetOutputModeTyped ==
  ASSUME OpTypeOK, NEW m \in OutModes, setOutputMode(m)
  PROVE  /\ shown' \in OutModes /\ currentOutputmode' \in OutModes
         /\ hdmimode' \in HdmiModes /\ cvbsmode' \in CvbsModeNames
         /\ currentOutputmode = shown /\ (shown \in HdmiModes => hdmimode = shown) =>
              /\ currentOutputmode' = shown' /\ shown' = m
              /\ m \in HdmiModes => hdmimode' = m
         /\ hdmimode' = hdmimode \/ (m \in HdmiModes /\ hdmimode' = m)
BY PlugAssumption DEF OpTypeOK, setOutputMode, saveNewModeProp, OutModes

\* The last event is about what is plugged in now, and the call under way is
\* about the first one.
EventsInv ==
  /\ plugEvents # <<>> =>
       plugEvents[Len(plugEvents)] = IF tv = NoTv THEN "unplugged" ELSE "plugged"
  /\ plugPc # "idle" =>
       plugEvents # <<>> /\ Head(plugEvents) = IF plugPc = "cvbs" THEN "unplugged" ELSE "plugged"
  /\ plugPc = "cvbs" => plugMode \in CvbsModeNames

\* The user's choice is in the environment, the call under way goes back to it,
\* and it is shown once that call is through; a digital mode that is shown was saved,
\* so that asking for it again need not save it.
ChoiceInv ==
  /\ currentOutputmode = shown
  /\ shown \in HdmiModes => hdmimode = shown
  /\ choice # NoChoice =>
       /\ hdmimode = choice /\ isBest = FALSE
       /\ plugPc = "auto" => isAutoMode = FALSE
       /\ plugPc = "mode" => plugMode = choice
       /\ plugPc = "sound" \/ HdmiOnly = FALSE \/ (plugEvents = <<>> /\ tv # NoTv) => shown = choice

\* The sound goes where the environment says, which is right for the last
\* television that the thread was told of.
SoundInv ==
  /\ sound = Sent(digitaudio)
  /\ plugEvents = <<>> /\ tv # NoTv /\ digitaudio \in AutoSounds => digitaudio = autoSwitch(tv.sound)

PlugInv == OpTypeOK /\ EventsInv /\ ChoiceInv /\ SoundInv

LEMMA OpTyped == PlugInv /\ [OpNext]_opVars => OpTypeOK'
<1> SUFFICES ASSUME OpTypeOK, EventsInv, [OpNext]_opVars PROVE OpTypeOK'
  BY DEF PlugInv
<1> USE DEF OpTypeOK, plugVars, askVars, modeVars, soundVars
<1>1. ASSUME NEW t \in Tvs \cup {NoTv}, Plug(t) PROVE OpTypeOK'
  BY <1>1 DEF Plug
<1>2. ASSUME NEW nullEdid \in BOOLEAN, setHdmiPlugged(nullEdid) PROVE OpTypeOK'
  BY <1>2 DEF setHdmiPlugged
<1>3. CASE chooseMode
  <2>1. plugMode' \in OutModes
    BY <1>3, BestTyped, SupportedTyped DEF chooseMode, OutModes
  <2> QED BY <1>3, <2>1 DEF chooseMode
<1>4. CASE setPlugMode
  BY <1>4, SetOutputModeTyped DEF setPlugMode
<1>5. CASE switchHdmiPassthough
  <2>1. digitaudio' \in ManualSounds \cup AutoSounds
    BY <1>5, AutoTyped DEF switchHdmiPassthough
  <2>2. plugEvents' \in Seq({"plugged", "unplugged"})
    BY <1>5 DEF switchHdmiPassthough, EventsInv
  <2> QED BY <1>5, <2>1, <2>2 DEF switchHdmiPassthough
<1>6. CASE setHdmiUnPlugged
  BY <1>6 DEF setHdmiUnPlugged, OutModes
<1>7. CASE setUnplugMode
  <2>1. plugEvents' \in Seq({"plugged", "unplugged"})
    BY <1>7 DEF setUnplugMode, EventsInv
  <2> QED BY <1>7, <2>1, SetOutputModeTyped DEF setUnplugMode
<1>8. ASSUME NEW m \in OutModes, setBestMode(m) \/ askOutputMode(m) PROVE OpTypeOK'
  BY <1>8 DEF setBestMode, askOutputMode
<1>9. CASE toggleBestMode
  BY <1>9 DEF toggleBestMode
<1>10. CASE askBest
  <2>1. askMode' \in OutModes
    BY <1>10, BestTyped DEF askBest, OutModes
  <2> QED BY <1>10, <2>1 DEF askBest
<1>11. CASE setAskedMode
  BY <1>11, SetOutputModeTyped DEF setAskedMode
<1>12. CASE setSound
  <2>1. digitaudio' \in ManualSounds \cup AutoSounds
    BY <1>12, AutoTyped DEF setSound
  <2> QED BY <1>12, <2>1 DEF setSound
<1>13. CASE UNCHANGED opVars
  BY <1>13 DEF opVars
<1> QED BY <1>1, <1>2, <1>3, <1>4, <1>5, <1>6, <1>7, <1>8, <1>9, <1>10, <1>11, <1>12, <1>13 DEF OpNext

LEMMA PlugInvInit == OpInit => PlugInv
<1> SUFFICES ASSUME OpInit PROVE PlugInv
  OBVIOUS
<1>1. OpTypeOK
  <2>1. digitaudio \in ManualSounds \cup AutoSounds /\ sound = Sent(digitaudio)
    BY DEF OpInit, ManualSounds, AutoSounds
  <2>2. plugEvents \in Seq({"plugged", "unplugged"})
    <3>1. plugEvents = <<"plugged">> \/ plugEvents = <<"unplugged">> \/ plugEvents = <<>>
      BY DEF OpInit
    <3>2. <<"plugged">> \in Seq({"plugged", "unplugged"}) /\ <<"unplugged">> \in Seq({"plugged", "unplugged"})
      OBVIOUS
    <3>3. <<>> \in Seq({"plugged", "unplugged"})
      OBVIOUS
    <3> QED BY <3>1, <3>2, <3>3
  <2>3. shown \in OutModes /\ hdmimode \in HdmiModes /\ cvbsmode \in CvbsModeNames
    BY DEF OpInit, OutModes
  <2>4. /\ sound \in {Sent(v) : v \in ManualSounds \cup AutoSounds}
        /\ tv \in Tvs \cup {NoTv} /\ isBest \in BOOLEAN
    BY <2>1 DEF OpInit
  <2> QED BY <2>1, <2>2, <2>3, <2>4 DEF OpInit, OpTypeOK
<1>2. EventsInv
  BY DEF OpInit, EventsInv
<1>3. ChoiceInv
  BY PlugAssumption DEF OpInit, ChoiceInv
<1>4. SoundInv
  BY DEF OpInit, SoundInv
<1> QED BY <1>1, <1>2, <1>3, <1>4 DEF PlugInv

\* The events behind the first one.
LEMMA TailEvents ==
  ASSUME OpTypeOK, EventsInv, plugEvents # <<>>, Tail(plugEvents) # <<>>
  PROVE  Tail(plugEvents)[Len(Tail(plugEvents))] = plugEvents[Len(plugEvents)]
BY DEF OpTypeOK

\* The last of the events.
LEMMA OneEvent ==
  ASSUME OpTypeOK, EventsInv, plugEvents # <<>>, Tail(plugEvents) = <<>>
  PROVE  Head(plugEvents) = IF tv = NoTv THEN "unplugged" ELSE "plugged"
<1>1. Len(Tail(plugEvents)) = Len(plugEvents) - 1 /\ Len(plugEvents) \in Nat
  BY DEF OpTypeOK
<1>2. Len(plugEvents) = 1
  BY <1>1
<1> QED BY <1>2 DEF OpTypeOK, EventsInv

LEMMA EventsKept == PlugInv /\ [OpNext]_opVars => EventsInv'
<1> SUFFICES ASSUME PlugInv, [OpNext]_opVars PROVE EventsInv'
  OBVIOUS
<1> USE DEF PlugInv, EventsInv, OpTypeOK, plugVars
<1>1. ASSUME NEW t \in Tvs \cup {NoTv}, Plug(t) PROVE EventsInv'
  BY <1>1 DEF Plug
<1>2. ASSUME NEW nullEdid \in BOOLEAN, setHdmiPlugged(nullEdid) PROVE EventsInv'
  BY <1>2 DEF setHdmiPlugged
<1>3. CASE chooseMode \/ setPlugMode
  BY <1>3 DEF chooseMode, setPlugMode
<1>4. CASE switchHdmiPassthough \/ setUnplugMode
  <2>1. /\ plugPc' = "idle" /\ plugEvents' = Tail(plugEvents) /\ UNCHANGED tv
        /\ plugEvents # <<>>
    BY <1>4 DEF switchHdmiPassthough, setUnplugMode
  <2> QED BY <2>1, TailEvents
<1>5. CASE setHdmiUnPlugged
  BY <1>5 DEF setHdmiUnPlugged
<1>6. CASE UNCHANGED plugVars
  BY <1>6
<1>7. ASSUME NEW m \in OutModes, setBestMode(m) \/ askOutputMode(m) PROVE UNCHANGED plugVars
  BY <1>7 DEF setBestMode, askOutputMode
<1>8. CASE toggleBestMode \/ askBest \/ setAskedMode \/ setSound
  BY <1>8, <1>6 DEF toggleBestMode, askBest, setAskedMode, setSound
<1>9. CASE UNCHANGED opVars
  BY <1>9 DEF opVars
<1> QED BY <1>1, <1>2, <1>3, <1>4, <1>5, <1>6, <1>7, <1>8, <1>9 DEF OpNext

LEMMA ChoiceKept == PlugInv /\ [OpNext]_opVars => ChoiceInv'
<1> SUFFICES ASSUME PlugInv, [OpNext]_opVars PROVE ChoiceInv'
  OBVIOUS
<1> USE PlugAssumption DEF PlugInv, ChoiceInv, modeVars
<1>1. ASSUME NEW t \in Tvs \cup {NoTv}, Plug(t) PROVE ChoiceInv'
  <2>1. plugEvents' # <<>>
    BY <1>1 DEF Plug, OpTypeOK
  <2> QED BY <1>1, <2>1 DEF Plug
<1>2. ASSUME NEW nullEdid \in BOOLEAN, setHdmiPlugged(nullEdid) PROVE ChoiceInv'
  BY <1>2 DEF setHdmiPlugged
<1>3. CASE chooseMode
  BY <1>3 DEF chooseMode, getSupportedResolution
<1>4. CASE setPlugMode
  <2>1. /\ currentOutputmode' = shown' /\ shown' = plugMode
        /\ plugMode \in HdmiModes => hdmimode' = plugMode
        /\ hdmimode' = hdmimode \/ hdmimode' = plugMode
    BY <1>4, SetOutputModeTyped DEF setPlugMode, OpTypeOK
  <2> QED BY <1>4, <2>1 DEF setPlugMode
<1>5. CASE switchHdmiPassthough
  BY <1>5 DEF switchHdmiPassthough
<1>6. CASE setHdmiUnPlugged
  BY <1>6 DEF setHdmiUnPlugged
<1>7. CASE setUnplugMode
  <2>1. plugEvents # <<>> /\ plugPc = "cvbs" /\ plugPc' = "idle"
        /\ plugEvents' = Tail(plugEvents) /\ UNCHANGED <<tv, choice, isBest>>
    BY <1>7 DEF setUnplugMode, EventsInv
  <2>2. ~(plugEvents' = <<>> /\ tv' # NoTv)
    BY <2>1, OneEvent DEF EventsInv
  <2>3. /\ currentOutputmode' = shown' /\ hdmimode' = hdmimode
        /\ shown' \in HdmiModes => hdmimode' = shown'
    <3>1. CASE HdmiOnly
      BY <1>7, <3>1, SetOutputModeTyped DEF setUnplugMode, OpTypeOK, EventsInv
    <3>2. CASE ~HdmiOnly
      BY <1>7, <3>2 DEF setUnplugMode
    <3> QED BY <3>1, <3>2
  <2>4. HdmiOnly = FALSE => shown' = shown
    BY <1>7 DEF setUnplugMode
  <2> QED BY <2>1, <2>2, <2>3, <2>4
<1>8. ASSUME NEW m \in OutModes, setBestMode(m) \/ askOutputMode(m) PROVE ChoiceInv'
  BY <1>8 DEF setBestMode, askOutputMode
<1>9. CASE toggleBestMode
  BY <1>9 DEF toggleBestMode
<1>10. CASE askBest
  BY <1>10 DEF askBest, plugVars
<1>11. CASE setAskedMode
  <2>1. /\ currentOutputmode' = shown' /\ shown' = askMode
        /\ askMode \in HdmiModes => hdmimode' = askMode
        /\ hdmimode' = hdmimode \/ hdmimode' = askMode
    BY <1>11, SetOutputModeTyped DEF setAskedMode, OpTypeOK
  <2>2. CASE askMode \in HdmiModes /\ ~isBest /\ plugPc = "idle"
    <3>1. hdmimode' = askMode
      BY <2>1, <2>2
    <3> QED BY <1>11, <2>1, <2>2, <3>1 DEF setAskedMode, plugVars, OpTypeOK
  <2>3. CASE ~(askMode \in HdmiModes /\ ~isBest /\ plugPc = "idle")
    BY <1>11, <2>1, <2>3 DEF setAskedMode
  <2> QED BY <2>2, <2>3
<1>12. CASE setSound
  BY <1>12 DEF setSound, plugVars
<1>13. CASE UNCHANGED opVars
  BY <1>13 DEF opVars
<1> QED BY <1>1, <1>2, <1>3, <1>4, <1>5, <1>6, <1>7, <1>8, <1>9, <1>10, <1>11, <1>12, <1>13 DEF OpNext

LEMMA SoundKept == PlugInv /\ [OpNext]_opVars => SoundInv'
<1> SUFFICES ASSUME PlugInv, [OpNext]_opVars PROVE SoundInv'
  OBVIOUS
<1> USE DEF PlugInv, SoundInv, soundVars, plugVars
<1>1. ASSUME NEW t \in Tvs \cup {NoTv}, Plug(t) PROVE SoundInv'
  <2>1. plugEvents' # <<>>
    BY <1>1 DEF Plug, OpTypeOK
  <2> QED BY <1>1, <2>1 DEF Plug
<1>2. ASSUME NEW nullEdid \in BOOLEAN, setHdmiPlugged(nullEdid) PROVE SoundInv'
  BY <1>2 DEF setHdmiPlugged
<1>3. CASE chooseMode \/ setPlugMode \/ setHdmiUnPlugged
  BY <1>3 DEF chooseMode, setPlugMode, setHdmiUnPlugged
<1>4. CASE switchHdmiPassthough
  BY <1>4, AutoTyped DEF switchHdmiPassthough
<1>5. CASE setUnplugMode
  <2>1. ~(plugEvents' = <<>> /\ tv' # NoTv)
    BY <1>5, OneEvent DEF setUnplugMode, EventsInv
  <2> QED BY <1>5, <2>1 DEF setUnplugMode
<1>6. ASSUME NEW m \in OutModes, setBestMode(m) \/ askOutputMode(m) PROVE SoundInv'
  BY <1>6 DEF setBestMode, askOutputMode
<1>7. CASE toggleBestMode \/ askBest \/ setAskedMode
  BY <1>7 DEF toggleBestMode, askBest, setAskedMode
<1>8. CASE setSound
  <2>1. digitaudio' \in AutoSounds => digitaudio' = autoSwitch(tv.sound)
    BY <1>8 DEF setSound, ManualSounds, AutoSounds
  <2> QED BY <1>8, <2>1 DEF setSound
<1>9. CASE UNCHANGED opVars
  BY <1>9 DEF opVars
<1> QED BY <1>1, <1>2, <1>3, <1>4, <1>5, <1>6, <1>7, <1>8, <1>9 DEF OpNext

\* However many televisions come and go, and however the two threads of
\* OutputModeManager interleave: once the thread of the plug has been told of
\* the last one, the user's mode is shown again if every list that was read has
\* it, and automatic sound is in a format of that television.
THEOREM PlugBringsBack == OpSpec => []PlugSettles
<1>1. PlugInv /\ [OpNext]_opVars => PlugInv'
  BY OpTyped, EventsKept, ChoiceKept, SoundKept DEF PlugInv
<1>2. PlugInv => PlugSettles
  BY DEF PlugInv, PlugSettles, Told, ChoiceInv, SoundInv
<1> QED BY <1>1, <1>2, PlugInvInit, PTL DEF OpSpec

-----------------------------------------------------------------------------
(* The cameras                                                             *)

\* Every thread belongs to a broadcast, and no node is there without a camera.
CamInv == CamTypeOK /\ devNum <= plugged /\ Len(threads) <= Len(sent)

VideoDevThread == [mIsAttach : BOOLEAN, mCamNum : 0 .. MaxCameras, loopCount : 0 .. Ended]

LEMMA ThreadTyped ==
  ASSUME CamInv, NEW t \in 1 .. Len(threads)
  PROVE  threads[t] \in VideoDevThread
<1>1. threads \in Seq(VideoDevThread)
  BY DEF CamInv, CamTypeOK, VideoDevThread
<1> QED BY <1>1, ElementOfSeq

LEMMA CamInvInit == CamInit => CamInv
<1> SUFFICES ASSUME CamInit PROVE CamInv
  OBVIOUS
<1>1. /\ plugged \in 0 .. MaxCameras /\ devNum \in 0 .. plugged /\ cameras \in 0 .. devNum
      /\ sent = [n \in 1 .. plugged |-> TRUE] /\ threads = <<>>
      /\ enabled \in BOOLEAN /\ booted \in BOOLEAN
  BY DEF CamInit
<1>2. devNum \in 0 .. MaxCameras /\ cameras \in 0 .. MaxCameras /\ devNum <= plugged
  BY <1>1, CameraAssumption
<1>3. sent \in Seq(BOOLEAN) /\ Len(sent) = plugged
  <2>1. plugged \in Nat
    BY <1>1
  <2>2. sent \in [1 .. plugged -> BOOLEAN]
    BY <1>1
  <2> QED BY <2>1, <2>2, SeqDef, LenProperties
<1>4. threads \in Seq(VideoDevThread) /\ Len(threads) = 0
  BY <1>1
<1> QED BY <1>1, <1>2, <1>3, <1>4 DEF CamInv, CamTypeOK, VideoDevThread

LEMMA RunTyped ==
  ASSUME CamInv, NEW t \in 1 .. Len(threads), run(t)
  PROVE  /\ threads' \in Seq(VideoDevThread) /\ Len(threads') = Len(threads)
         /\ cameras' \in 0 .. MaxCameras /\ enabled' \in BOOLEAN
<1> DEFINE th == threads[t]
<1>1. threads \in Seq(VideoDevThread) /\ th \in VideoDevThread /\ th.loopCount < Ended
  <2>1. threads \in Seq(VideoDevThread)
    BY DEF CamInv, CamTypeOK, VideoDevThread
  <2>2. th \in VideoDevThread
    BY ThreadTyped
  <2>3. th.loopCount < Ended
    BY DEF run, Running
  <2> QED BY <2>1, <2>2, <2>3
<1>2. CASE NodesMade(th) \/ NodesGone(th)
  <2>1. /\ cameras' = devNum /\ enabled' = EnabledAfter(th.mIsAttach)
        /\ threads' = [threads EXCEPT ![t].loopCount = Ended]
    BY <1>2 DEF run
  <2>2. [th EXCEPT !.loopCount = Ended] \in VideoDevThread
    BY <1>1 DEF VideoDevThread, Ended
  <2>3. threads' \in Seq(VideoDevThread) /\ Len(threads') = Len(threads)
    BY <1>1, <2>1, <2>2
  <2>4. enabled' \in BOOLEAN
    BY <1>1, <2>1 DEF EnabledAfter, VideoDevThread
  <2> QED BY <2>1, <2>3, <2>4 DEF CamInv, CamTypeOK
<1>3. CASE ~(NodesMade(th) \/ NodesGone(th))
  <2>1. /\ UNCHANGED <<cameras, enabled>>
        /\ threads' = threads \/ threads' = [threads EXCEPT ![t].loopCount = @ + 1]
    BY <1>3 DEF run
  <2>2. [th EXCEPT !.loopCount = @ + 1] \in VideoDevThread
    BY <1>1 DEF VideoDevThread, Ended
  <2>3. threads' \in Seq(VideoDevThread) /\ Len(threads') = Len(threads)
    BY <1>1, <2>1, <2>2
  <2> QED BY <2>1, <2>3 DEF CamInv, CamTypeOK
<1> QED BY <1>2, <1>3

LEMMA CamInvNext == CamInv /\ [CamNext]_camVars => CamInv'
<1> SUFFICES ASSUME CamInv, [CamNext]_camVars PROVE CamInv'
  OBVIOUS
<1> USE CameraAssumption DEF CamInv, CamTypeOK
<1>1. CASE bootReady
  <2>1. booted' \in BOOLEAN /\ enabled' \in BOOLEAN
    BY <1>1 DEF bootReady
  <2> QED BY <1>1, <2>1 DEF bootReady
<1>2. CASE PlugIn
  <2>1. plugged' = plugged + 1 /\ plugged < MaxCameras
    BY <1>2 DEF PlugIn
  <2>2. sent' \in Seq(BOOLEAN) /\ Len(sent') = Len(sent) + 1
    BY <1>2 DEF PlugIn
  <2> QED BY <1>2, <2>1, <2>2 DEF PlugIn
<1>3. CASE PullOut
  <2>1. sent' \in Seq(BOOLEAN) /\ Len(sent') = Len(sent) + 1
    BY <1>3 DEF PullOut
  <2> QED BY <1>3, <2>1 DEF PullOut
<1>4. CASE NodeAppears
  BY <1>4 DEF NodeAppears
<1>5. CASE UsbDeviceAttach
  <2>1. Len(threads) + 1 \in 1 .. Len(sent)
    BY <1>5 DEF UsbDeviceAttach
  <2>2. [mIsAttach |-> sent[Len(threads) + 1], mCamNum |-> cameras, loopCount |-> 0] \in VideoDevThread
    BY <2>1 DEF VideoDevThread, Ended
  <2>3. threads' \in Seq(VideoDevThread) /\ Len(threads') = Len(threads) + 1
    BY <1>5, <2>2 DEF UsbDeviceAttach, VideoDevThread
  <2> QED BY <1>5, <2>1, <2>3 DEF UsbDeviceAttach, VideoDevThread
<1>6. ASSUME NEW t \in 1 .. Len(threads), run(t) PROVE CamInv'
  BY <1>6, RunTyped DEF run, VideoDevThread
<1>7. CASE UNCHANGED camVars
  BY <1>7 DEF camVars
<1> QED BY <1>1, <1>2, <1>3, <1>4, <1>5, <1>6, <1>7 DEF CamNext

\* Somebody will still look for what an attach, or a detach, has told of.
Waits(isAttach, t) == Running(t) /\ threads[t].mIsAttach = isAttach
Untold(isAttach) == \E n \in Len(threads) + 1 .. Len(sent) : sent[n] = isAttach

\* What is enabled was counted; a camera that was not is looked for.
EnabledInv ==
  /\ booted /\ enabled => cameras > 0
  /\ plugged > 0 /\ (~enabled \/ cameras = 0 \/ devNum = 0) =>
       Untold(TRUE) \/ \E t \in 1 .. Len(threads) : Waits(TRUE, t)

\* A thread that looks for a node knows of no more cameras than there are (or
\* of one); cameras that have gone are known by a thread that will notice.
CountInv ==
  /\ Untold(TRUE) => cameras <= 1 \/ cameras <= plugged
  /\ \A t \in 1 .. Len(threads) :
       Waits(TRUE, t) => threads[t].mCamNum <= 1 \/ threads[t].mCamNum <= plugged
  /\ cameras > plugged =>
       Untold(FALSE) \/ \E t \in 1 .. Len(threads) : Waits(FALSE, t) /\ threads[t].mCamNum > plugged

\* In a calm moment the cameras that were counted are there, and no thread
\* still looks for the node of one.
LEMMA CalmCounts ==
  ASSUME CamInv, CountInv, Calm
  PROVE  /\ ~Untold(TRUE) /\ cameras <= plugged
         /\ plugged > 0 => \A t \in 1 .. Len(threads) : ~Waits(TRUE, t)
<1>1. /\ plugged \in Nat /\ cameras \in Nat /\ devNum = plugged /\ ~Untold(TRUE) /\ ~Untold(FALSE)
  BY DEF CamInv, CamTypeOK, Calm, Untold
<1>2. ASSUME NEW t \in 1 .. Len(threads)
      PROVE  threads[t].mCamNum \in Nat /\ threads[t].mIsAttach \in BOOLEAN
  BY ThreadTyped DEF VideoDevThread
<1>3. cameras <= plugged
  <2> SUFFICES ASSUME cameras > plugged PROVE FALSE
    BY <1>1
  <2>1. PICK t \in 1 .. Len(threads) : Waits(FALSE, t) /\ threads[t].mCamNum > plugged
    BY <1>1 DEF CountInv
  <2>2. NodesGone(threads[t])
    BY <1>1, <1>2, <2>1 DEF NodesGone, Waits
  <2> QED BY <2>1, <2>2 DEF Calm, Waits
<1>4. ASSUME plugged > 0, NEW t \in 1 .. Len(threads), Waits(TRUE, t) PROVE FALSE
  <2>1. threads[t].mCamNum <= 1 \/ threads[t].mCamNum <= plugged
    BY <1>4 DEF CountInv
  <2>2. NodesMade(threads[t])
    BY <1>1, <1>2, <1>4, <2>1 DEF NodesMade, Waits
  <2> QED BY <1>4, <2>2 DEF Calm, Waits
<1> QED BY <1>1, <1>3, <1>4

\* The applications are enabled in every calm moment as they should be.
LEMMA CalmIsRight == CamInv /\ EnabledInv /\ CountInv /\ Calm => enabled = (plugged > 0)
<1> SUFFICES ASSUME CamInv, EnabledInv, CountInv, Calm PROVE enabled = (plugged > 0)
  OBVIOUS
<1>1. plugged \in Nat /\ cameras \in Nat /\ booted /\ enabled \in BOOLEAN
  BY DEF CamInv, CamTypeOK, Calm
<1>2. plugged > 0 => enabled
  BY CalmCounts DEF EnabledInv
<1>3. enabled => plugged > 0
  BY <1>1, CalmCounts DEF EnabledInv
<1> QED BY <1>1, <1>2, <1>3

\* What a turn of the loop leaves of the threads.
LEMMA RunSteps ==
  ASSUME CamInv, NEW t \in 1 .. Len(threads), run(t)
  PROVE  /\ UNCHANGED <<plugged, devNum, booted, sent>> /\ Len(threads') = Len(threads)
         /\ \A u \in 1 .. Len(threads) \ {t} : threads'[u] = threads[u]
         /\ threads'[t].mIsAttach = threads[t].mIsAttach /\ threads'[t].mCamNum = threads[t].mCamNum
         /\ Running(t)
         /\ \/ /\ NodesMade(threads[t]) \/ NodesGone(threads[t])
               /\ cameras' = devNum /\ enabled' = EnabledAfter(threads[t].mIsAttach)
            \/ /\ ~NodesMade(threads[t]) /\ ~NodesGone(threads[t])
               /\ UNCHANGED <<cameras, enabled>>
               /\ threads' = threads \/ NodesStay(threads[t])
<1>1. threads[t] \in VideoDevThread
  BY ThreadTyped
<1>2. threads \in Seq(VideoDevThread)
  BY DEF CamInv, CamTypeOK, VideoDevThread
<1>3. /\ UNCHANGED <<plugged, devNum, booted, sent>> /\ Running(t)
      /\ Len(threads') = Len(threads)
  BY RunTyped DEF run
<1>4. \/ threads' = [threads EXCEPT ![t].loopCount = Ended]
      \/ threads' = [threads EXCEPT ![t].loopCount = @ + 1]
      \/ threads' = threads
  BY DEF run
<1>5. /\ \A u \in 1 .. Len(threads) \ {t} : threads'[u] = threads[u]
      /\ threads'[t].mIsAttach = threads[t].mIsAttach /\ threads'[t].mCamNum = threads[t].mCamNum
  BY <1>1, <1>2, <1>4 DEF VideoDevThread
<1>6. \/ /\ NodesMade(threads[t]) \/ NodesGone(threads[t])
         /\ cameras' = devNum /\ enabled' = EnabledAfter(threads[t].mIsAttach)
      \/ /\ ~NodesMade(threads[t]) /\ ~NodesGone(threads[t])
         /\ UNCHANGED <<cameras, enabled>>
         /\ threads' = threads \/ NodesStay(threads[t])
  BY DEF run
<1> QED BY <1>3, <1>5, <1>6

\* A thread that waits and is not the one that runs waits on; the one that runs
\* and neither finds its node nor stays where it is, too.
LEMMA OthersWait ==
  ASSUME CamInv, NEW t \in 1 .. Len(threads), run(t), NEW isAttach \in BOOLEAN,
         NEW u \in 1 .. Len(threads), Waits(isAttach, u), u # t \/ threads' = threads
  PROVE  Waits(isAttach, u)' /\ u \in 1 .. Len(threads') /\ threads'[u].mCamNum = threads[u].mCamNum
BY RunSteps DEF Waits, Running

\* The turn of a thread leaves none waiting that did not.
LEMMA NoneWaitsAnew ==
  ASSUME CamInv, NEW t \in 1 .. Len(threads), run(t), NEW isAttach \in BOOLEAN,
         NEW u \in 1 .. Len(threads'), Waits(isAttach, u)'
  PROVE  u \in 1 .. Len(threads) /\ Waits(isAttach, u) /\ threads'[u].mCamNum = threads[u].mCamNum
BY RunSteps DEF Waits, Running

LEMMA RunKeeps ==
  ASSUME CamInv, EnabledInv, CountInv, NEW t \in 1 .. Len(threads), run(t)
  PROVE  EnabledInv' /\ CountInv'
<1> DEFINE th == threads[t]
<1>1. /\ th.mIsAttach \in BOOLEAN /\ th.mCamNum \in Nat /\ devNum \in Nat /\ devNum <= plugged
      /\ plugged \in Nat /\ cameras \in Nat /\ enabled \in BOOLEAN
  BY ThreadTyped DEF VideoDevThread, CamInv, CamTypeOK
<1>2. UNCHANGED <<plugged, devNum, booted, sent>> /\ Len(threads') = Len(threads)
  BY RunSteps
<1>3. Untold(TRUE)' = Untold(TRUE) /\ Untold(FALSE)' = Untold(FALSE)
  BY <1>2 DEF Untold
<1>4. CASE NodesMade(th) \/ NodesGone(th)
  <2>1. cameras' = devNum /\ enabled' = EnabledAfter(th.mIsAttach)
    BY <1>4, RunSteps
  <2>2. booted' /\ enabled' => cameras' > 0
    BY <1>1, <1>4, <2>1 DEF NodesMade, NodesGone, EnabledAfter
  <2>3. ASSUME plugged > 0, ~enabled' \/ cameras' = 0 \/ devNum = 0
        PROVE  Untold(TRUE)' \/ \E u \in 1 .. Len(threads') : Waits(TRUE, u)'
    <3>1. ~th.mIsAttach
      BY <1>1, <1>4, <2>1, <2>3 DEF NodesMade, NodesGone, EnabledAfter
    <3>2. ~enabled \/ devNum = 0
      BY <1>1, <2>1, <2>3 DEF EnabledAfter
    <3>3. CASE Untold(TRUE)
      BY <1>3, <3>3
    <3>4. ASSUME NEW u \in 1 .. Len(threads), Waits(TRUE, u)
          PROVE  Waits(TRUE, u)' /\ u \in 1 .. Len(threads')
      <4>1. u # t
        BY <3>1, <3>4 DEF Waits
      <4> QED BY <3>4, <4>1, OthersWait
    <3> QED BY <2>3, <3>2, <3>3, <3>4 DEF EnabledInv
  <2>4. CountInv'
    <3>1. ~(cameras' > plugged')
      BY <1>1, <1>2, <2>1
    <3>2. Untold(TRUE)' => cameras' <= 1 \/ cameras' <= plugged'
      BY <1>1, <1>2, <2>1
    <3>3. ASSUME NEW u \in 1 .. Len(threads'), Waits(TRUE, u)'
          PROVE  threads'[u].mCamNum <= 1 \/ threads'[u].mCamNum <= plugged'
      BY <1>2, <3>3, NoneWaitsAnew DEF CountInv
    <3> QED BY <3>1, <3>2, <3>3 DEF CountInv
  <2> QED BY <1>2, <2>2, <2>3, <2>4 DEF EnabledInv
<1>5. CASE ~NodesMade(th) /\ ~NodesGone(th)
  <2>1. UNCHANGED <<cameras, enabled>> /\ (threads' = threads \/ NodesStay(th))
    BY <1>5, RunSteps
  <2>2. NodesStay(th) => ~th.mIsAttach /\ th.mCamNum <= plugged
    BY <1>1 DEF NodesStay, NodesMade
  <2>3. ASSUME NEW isAttach \in BOOLEAN, NEW u \in 1 .. Len(threads), Waits(isAttach, u),
               isAttach \/ threads[u].mCamNum > plugged
        PROVE  Waits(isAttach, u)' /\ u \in 1 .. Len(threads') /\ threads'[u].mCamNum = threads[u].mCamNum
    <3>1. u # t \/ threads' = threads
      BY <1>1, <2>1, <2>2, <2>3 DEF Waits
    <3> QED BY <2>3, <3>1, OthersWait
  <2>4. EnabledInv'
    BY <1>2, <1>3, <2>1, <2>3 DEF EnabledInv
  <2>5. cameras' > plugged' =>
          Untold(FALSE)' \/ \E u \in 1 .. Len(threads') : Waits(FALSE, u)' /\ threads'[u].mCamNum > plugged'
    BY <1>2, <1>3, <2>1, <2>3 DEF CountInv
  <2>6. ASSUME NEW u \in 1 .. Len(threads'), Waits(TRUE, u)'
        PROVE  threads'[u].mCamNum <= 1 \/ threads'[u].mCamNum <= plugged'
    BY <1>2, <2>6, NoneWaitsAnew DEF CountInv
  <2> QED BY <1>2, <1>3, <2>1, <2>4, <2>5, <2>6 DEF CountInv
<1> QED BY <1>4, <1>5

\* The broadcast of a change is the last one.
LEMMA OneMoreSent ==
  ASSUME CamInv, NEW isAttach \in BOOLEAN, sent' = Append(sent, isAttach), UNCHANGED threads
  PROVE  /\ Untold(isAttach)'
         /\ \A other \in BOOLEAN : Untold(other) => Untold(other)'
         /\ \A other \in BOOLEAN : Untold(other)' => Untold(other) \/ other = isAttach
         /\ \A other \in BOOLEAN, u \in 1 .. Len(threads) : Waits(other, u)' = Waits(other, u)
<1>1. /\ Len(sent') = Len(sent) + 1 /\ sent'[Len(sent) + 1] = isAttach
      /\ \A n \in 1 .. Len(sent) : sent'[n] = sent[n]
      /\ Len(threads) \in Nat /\ Len(sent) \in Nat /\ Len(threads) <= Len(sent)
  BY AppendProperties, LenProperties DEF CamInv, CamTypeOK
<1>2. Len(sent) + 1 \in Len(threads') + 1 .. Len(sent')
  BY <1>1
<1>3. Untold(isAttach)'
  BY <1>1, <1>2 DEF Untold
<1>4. ASSUME NEW other \in BOOLEAN, Untold(other) PROVE Untold(other)'
  <2>1. PICK n \in Len(threads) + 1 .. Len(sent) : sent[n] = other
    BY <1>4 DEF Untold
  <2>2. n \in Len(threads') + 1 .. Len(sent') /\ sent'[n] = other
    BY <1>1, <2>1
  <2> QED BY <2>2 DEF Untold
<1>5. ASSUME NEW other \in BOOLEAN, Untold(other)' PROVE Untold(other) \/ other = isAttach
  <2>1. PICK n \in Len(threads) + 1 .. Len(sent) + 1 : sent'[n] = other
    BY <1>1, <1>5 DEF Untold
  <2>2. CASE n = Len(sent) + 1
    BY <1>1, <2>1, <2>2
  <2>3. CASE n # Len(sent) + 1
    <3>1. n \in Len(threads) + 1 .. Len(sent) /\ sent[n] = other
      BY <1>1, <2>1, <2>3
    <3> QED BY <3>1 DEF Untold
  <2> QED BY <2>2, <2>3
<1>6. \A other \in BOOLEAN, u \in 1 .. Len(threads) : Waits(other, u)' = Waits(other, u)
  BY DEF Waits, Running
<1> QED BY <1>3, <1>4, <1>5, <1>6

LEMMA ChangeKeeps ==
  ASSUME CamInv, EnabledInv, CountInv, PlugIn \/ PullOut
  PROVE  EnabledInv' /\ CountInv'
<1>1. /\ plugged \in Nat /\ cameras \in Nat /\ devNum \in Nat /\ devNum <= plugged
      /\ UNCHANGED <<cameras, enabled, booted, threads>>
      /\ \A t \in 1 .. Len(threads) : threads[t].mCamNum \in Nat
  <2>1. \A t \in 1 .. Len(threads) : threads[t].mCamNum \in Nat
    BY ThreadTyped DEF VideoDevThread
  <2>2. UNCHANGED <<cameras, enabled, booted, threads>>
    BY DEF PlugIn, PullOut
  <2>3. plugged \in Nat /\ cameras \in Nat /\ devNum \in Nat /\ devNum <= plugged
    BY DEF CamInv, CamTypeOK
  <2> QED BY <2>1, <2>2, <2>3
<1>2. cameras <= 1 \/ cameras <= plugged
  BY CalmCounts DEF PlugIn, PullOut, MayChange
<1>3. CASE PlugIn
  <2>1. plugged' = plugged + 1 /\ UNCHANGED devNum /\ sent' = Append(sent, TRUE)
    BY <1>3 DEF PlugIn
  <2>2. Untold(TRUE)'
    BY <1>1, <2>1, OneMoreSent
  <2>3. ASSUME NEW u \in 1 .. Len(threads'), Waits(TRUE, u)'
        PROVE  threads'[u].mCamNum <= 1 \/ threads'[u].mCamNum <= plugged'
    <3>1. threads'[u] = threads[u] /\ u \in 1 .. Len(threads) /\ Waits(TRUE, u)
      BY <1>1, <2>1, <2>3, OneMoreSent
    <3>2. threads[u].mCamNum <= 1 \/ threads[u].mCamNum <= plugged
      BY <3>1 DEF CountInv
    <3> QED BY <1>1, <2>1, <3>1, <3>2
  <2>4. EnabledInv'
    BY <1>1, <2>2 DEF EnabledInv
  <2>5. cameras' <= 1 \/ cameras' <= plugged'
    BY <1>1, <1>2, <2>1
  <2>6. ~(cameras' > plugged')
    BY <1>1, <1>2, <2>1
  <2> QED BY <2>3, <2>4, <2>5, <2>6 DEF CountInv
<1>4. CASE PullOut
  <2>1. plugged > 0 /\ plugged' = plugged - 1 /\ devNum' = plugged' /\ sent' = Append(sent, FALSE)
    BY <1>4 DEF PullOut
  <2>2. /\ Untold(FALSE)' /\ Untold(TRUE)' = Untold(TRUE)
        /\ \A u \in 1 .. Len(threads) : Waits(TRUE, u)' = Waits(TRUE, u)
    BY <1>1, <2>1, OneMoreSent DEF Untold
  <2>3. EnabledInv'
    <3>1. booted' /\ enabled' => cameras' > 0
      BY <1>1 DEF EnabledInv
    <3>2. ASSUME plugged' > 0, ~enabled' \/ cameras' = 0 \/ devNum' = 0
          PROVE  Untold(TRUE) \/ \E t \in 1 .. Len(threads) : Waits(TRUE, t)
      <4>1. ~enabled \/ cameras = 0
        BY <1>1, <2>1, <3>2
      <4> QED BY <2>1, <4>1 DEF EnabledInv
    <3> QED BY <1>1, <2>2, <3>1, <3>2 DEF EnabledInv
  <2>4. CASE Calm
    <3>1. ~Untold(TRUE) /\ \A t \in 1 .. Len(threads) : ~Waits(TRUE, t)
      BY <2>1, <2>4, CalmCounts
    <3> QED BY <1>1, <2>2, <2>3, <3>1 DEF CountInv
  <2>5. CASE ~Calm
    <3>1. plugged <= 1 /\ cameras <= 1
      BY <1>4, <2>5 DEF PullOut, MayChange
    <3>2. ASSUME NEW u \in 1 .. Len(threads), Waits(TRUE, u) PROVE threads[u].mCamNum <= 1
      <4>1. threads[u].mCamNum <= 1 \/ threads[u].mCamNum <= plugged
        BY <3>2 DEF CountInv
      <4> QED BY <1>1, <3>1, <4>1
    <3> QED BY <1>1, <2>2, <2>3, <3>1, <3>2 DEF CountInv
  <2> QED BY <2>4, <2>5
<1> QED BY <1>3, <1>4

\* What was told of by a broadcast is then known by its thread.
LEMMA AttachKeeps ==
  ASSUME CamInv, EnabledInv, CountInv, UsbDeviceAttach,
         NEW last \in Nat, last = Len(threads) + 1
  PROVE  EnabledInv' /\ CountInv'
<1> DEFINE th == [mIsAttach |-> sent[last], mCamNum |-> cameras, loopCount |-> 0]
<1>1. /\ threads' = Append(threads, th) /\ UNCHANGED <<plugged, devNum, cameras, enabled, booted, sent>>
      /\ Len(threads) \in Nat /\ Len(sent) \in Nat /\ last \in 1 .. Len(sent)
  BY LenProperties DEF UsbDeviceAttach, CamInv, CamTypeOK
<1>2. sent[last] \in BOOLEAN
  BY <1>1, ElementOfSeq DEF CamInv, CamTypeOK
<1>3. th \in VideoDevThread
  BY <1>2 DEF VideoDevThread, Ended, CamInv, CamTypeOK
<1>4. threads \in Seq(VideoDevThread)
  BY DEF CamInv, CamTypeOK, VideoDevThread
<1> HIDE DEF th
<1>5. /\ Len(threads') = Len(threads) + 1 /\ threads'[last] = th
      /\ \A u \in 1 .. Len(threads) : threads'[u] = threads[u]
  BY <1>1, <1>3, <1>4, AppendProperties
<1>6. /\ th.mIsAttach = sent[last] /\ th.mCamNum = cameras /\ th.loopCount < Ended
      /\ 1 .. Len(threads') = 1 .. Len(threads) \cup {last} /\ last \notin 1 .. Len(threads)
  BY <1>1, <1>5 DEF th, Ended
<1>7. \A b \in BOOLEAN, u \in 1 .. Len(threads) : Waits(b, u)' <=> Waits(b, u)
  BY <1>5 DEF Waits, Running
<1>8. \A b \in BOOLEAN : Waits(b, last)' <=> sent[last] = b
  <2>1. threads'[last].mIsAttach = sent[last] /\ threads'[last].loopCount < Ended
    BY <1>5, <1>6
  <2> QED BY <2>1 DEF Waits, Running
<1>9. \A b \in BOOLEAN : Untold(b) <=> (sent[last] = b \/ Untold(b)')
  <2>1. Len(threads) + 1 .. Len(sent) = {last} \cup (Len(threads') + 1 .. Len(sent'))
    BY <1>1, <1>5
  <2> QED BY <1>1, <2>1 DEF Untold
<1>10. EnabledInv'
  <2>1. booted' /\ enabled' => cameras' > 0
    BY <1>1 DEF EnabledInv
  <2>2. ASSUME plugged' > 0, ~enabled' \/ cameras' = 0 \/ devNum' = 0
        PROVE  Untold(TRUE)' \/ \E t \in 1 .. Len(threads') : Waits(TRUE, t)'
    <3>1. Untold(TRUE) \/ \E t \in 1 .. Len(threads) : Waits(TRUE, t)
      BY <1>1, <2>2 DEF EnabledInv
    <3>2. Untold(TRUE) => Untold(TRUE)' \/ Waits(TRUE, last)'
      BY <1>8, <1>9
    <3>3. last \in 1 .. Len(threads') /\ 1 .. Len(threads) \subseteq 1 .. Len(threads')
      BY <1>6
    <3> QED BY <1>7, <3>1, <3>2, <3>3
  <2> QED BY <2>1, <2>2 DEF EnabledInv
<1>11. CountInv'
  <2>1. Untold(TRUE)' => cameras' <= 1 \/ cameras' <= plugged'
    BY <1>1, <1>9 DEF CountInv
  <2>2. ASSUME NEW u \in 1 .. Len(threads'), Waits(TRUE, u)'
        PROVE  threads'[u].mCamNum <= 1 \/ threads'[u].mCamNum <= plugged'
    <3>1. CASE u = last
      <4>1. Untold(TRUE)
        BY <1>8, <1>9, <2>2, <3>1
      <4>2. cameras <= 1 \/ cameras <= plugged
        BY <4>1 DEF CountInv
      <4> QED BY <1>1, <1>5, <1>6, <3>1, <4>2
    <3>2. CASE u \in 1 .. Len(threads)
      BY <1>1, <1>5, <1>7, <2>2, <3>2 DEF CountInv
    <3> QED BY <1>6, <3>1, <3>2
  <2>3. ASSUME cameras' > plugged'
        PROVE  Untold(FALSE)' \/ \E t \in 1 .. Len(threads') : Waits(FALSE, t)' /\ threads'[t].mCamNum > plugged'
    <3>1. CASE Untold(FALSE)
      <4>1. Waits(FALSE, last)' \/ Untold(FALSE)'
        BY <1>8, <1>9, <3>1
      <4>2. last \in 1 .. Len(threads') /\ threads'[last].mCamNum > plugged'
        BY <1>1, <1>5, <1>6, <2>3
      <4> QED BY <4>1, <4>2
    <3>2. CASE \E t \in 1 .. Len(threads) : Waits(FALSE, t) /\ threads[t].mCamNum > plugged
      BY <1>1, <1>5, <1>6, <1>7, <3>2
    <3> QED BY <1>1, <2>3, <3>1, <3>2 DEF CountInv
  <2> QED BY <2>1, <2>2, <2>3 DEF CountInv
<1> QED BY <1>10, <1>11

LEMMA CountInit == CamInit => EnabledInv /\ CountInv
<1> SUFFICES ASSUME CamInit PROVE EnabledInv /\ CountInv
  OBVIOUS
<1>1. /\ plugged \in Nat /\ devNum \in 0 .. plugged /\ cameras \in 0 .. devNum /\ booted = FALSE
      /\ sent = [n \in 1 .. plugged |-> TRUE] /\ threads = <<>> /\ Len(threads) = 0
  BY CameraAssumption DEF CamInit
<1>2. Len(sent) = plugged
  BY <1>1
<1>3. plugged > 0 => Untold(TRUE)
  BY <1>1, <1>2 DEF Untold
<1>4. cameras <= plugged
  BY <1>1
<1>5. 1 .. Len(threads) = {} /\ ~(cameras > plugged)
  BY <1>1
<1> QED BY <1>1, <1>3, <1>4, <1>5 DEF EnabledInv, CountInv

LEMMA CountNext == CamInv /\ EnabledInv /\ CountInv /\ [CamNext]_camVars => EnabledInv' /\ CountInv'
<1> SUFFICES ASSUME CamInv, EnabledInv, CountInv, [CamNext]_camVars PROVE EnabledInv' /\ CountInv'
  OBVIOUS
<1>1. CASE bootReady
  <2>1. UNCHANGED <<plugged, devNum, cameras, sent, threads>> /\ (enabled' <=> enabled /\ cameras > 0)
    BY <1>1 DEF bootReady, hasCamera
  <2>2. \A b : Untold(b)' = Untold(b) /\ \A t : Waits(b, t)' = Waits(b, t)
    BY <2>1 DEF Untold, Waits, Running
  <2>3. cameras = 0 \/ cameras > 0
    BY DEF CamInv, CamTypeOK
  <2>4. EnabledInv'
    BY <2>1, <2>2, <2>3 DEF EnabledInv
  <2>5. CountInv'
    BY <2>1, <2>2 DEF CountInv
  <2> QED BY <2>4, <2>5
<1>2. CASE PlugIn \/ PullOut
  BY <1>2, ChangeKeeps
<1>3. CASE NodeAppears
  <2>1. devNum' # 0 /\ UNCHANGED <<plugged, cameras, enabled, booted, sent, threads>>
    BY <1>3 DEF NodeAppears, CamInv, CamTypeOK
  <2> QED BY <2>1 DEF EnabledInv, CountInv, Untold, Waits, Running
<1>4. CASE UsbDeviceAttach
  <2>1. Len(threads) + 1 \in Nat
    BY LenProperties DEF CamInv, CamTypeOK
  <2> QED BY <1>4, <2>1, AttachKeeps
<1>5. ASSUME NEW t \in 1 .. Len(threads), run(t) PROVE EnabledInv' /\ CountInv'
  BY <1>5, RunKeeps
<1>6. CASE UNCHANGED camVars
  BY <1>6 DEF camVars, EnabledInv, CountInv, Untold, Waits, Running
<1> QED BY <1>1, <1>2, <1>3, <1>4, <1>5, <1>6 DEF CamNext

\* The safety that is in CameraFollows: in every calm moment, when each thread
\* has ended or waits for what does not come, the applications are enabled
\* exactly if a camera is there, in whatever order the threads have polled.
THEOREM CamerasRight == CamSpec => [](Calm => enabled = (plugged > 0))
<1>1. CamInv /\ EnabledInv /\ CountInv => (Calm => enabled = (plugged > 0))
  BY CalmIsRight
<1>2. CamInv /\ EnabledInv /\ CountInv /\ [CamNext]_camVars => (CamInv /\ EnabledInv /\ CountInv)'
  BY CamInvNext, CountNext
<1> QED BY <1>1, <1>2, CamInvInit, CountInit, PTL DEF CamSpec

-----------------------------------------------------------------------------
(* The subtitles                                                           *)

LEMMA SubTypeInit == SubInit => SubTypeOK
BY DEF SubInit, SubTypeOK

LEMMA SubTypeNext == SubTypeOK /\ [SubNext]_subVars => SubTypeOK'
<1> SUFFICES ASSUME SubTypeOK, [SubNext]_subVars PROVE SubTypeOK'
  OBVIOUS
<1> USE DEF SubTypeOK
<1>1. CASE start
  BY <1>1 DEF start, openFile
<1>2. CASE close
  BY <1>2 DEF close
<1>3. CASE setDisabled
  BY <1>3 DEF setDisabled
<1>4. ASSUME NEW t \in ShowThreads, runnable(t) PROVE SubTypeOK'
  <2>1. CASE testStop(t)
    BY <2>1 DEF testStop, MoveOn
  <2>2. CASE showSub(t) \/ wakeUp(t)
    BY <2>2 DEF showSub, wakeUp, MoveOn
  <2> QED BY <1>4, <2>1, <2>2 DEF runnable
<1>5. CASE UNCHANGED subVars
  BY <1>5 DEF subVars
<1> QED BY <1>1, <1>2, <1>3, <1>4, <1>5 DEF SubNext

-----------------------------------------------------------------------------
(* The box                                                                 *)

\* A step of the box is, for each of its parts, a step of that part or none.
LEMMA EachStep ==
  ASSUME [PartsNext]_partsVars
  PROVE  /\ [Next]_vars /\ [HvNext]_hvVars /\ [DwNext]_dwVars /\ [CamNext]_camVars
         /\ [SubNext]_subVars /\ [WifiNext]_wifiVars /\ [OpNext]_opVars /\ [RcNext]_rcVars
<1>1. CASE UNCHANGED partsVars
  BY <1>1 DEF partsVars
<1>2. CASE Next /\ Alone("audio")
  BY <1>2 DEF Alone
<1>3. CASE HvNext /\ Alone("video")
  BY <1>3 DEF Alone
<1>4. CASE DwNext /\ Alone("window")
  BY <1>4 DEF Alone
<1>5. CASE (CamNext \/ CamRests) /\ Alone("camera")
  BY <1>5 DEF Alone, CamRests
<1>6. CASE SubNext /\ Alone("subtitle")
  BY <1>6 DEF Alone
<1>7. CASE WifiNext /\ Alone("wifi")
  BY <1>7 DEF Alone
<1>8. CASE OpNext /\ Alone("plug")
  BY <1>8 DEF Alone
<1>9. CASE (RcNext \/ RcRests) /\ Alone("remote")
  BY <1>9 DEF Alone, RcRests
<1> QED BY <1>1, <1>2, <1>3, <1>4, <1>5, <1>6, <1>7, <1>8, <1>9 DEF PartsNext

\* The run is about the parts as they are specified: a behaviour of the box is a
\* behaviour of each of them, so that what is proved of a part holds in the run.
\* (The fairness of the box is another matter; the safety of the cameras and of
\* the subtitles is stated without theirs.)
THEOREM BoxImplementsParts ==
  PartsSpec => /\ Spec /\ HvSpec /\ DwSpec /\ WifiSpec /\ OpSpec /\ RcSpec
               /\ CamInit /\ [][CamNext]_camVars /\ SubInit /\ [][SubNext]_subVars
<1>1. PartsInit => /\ Init /\ HvInit /\ DwInit /\ CamInit /\ SubInit /\ WifiInit /\ OpInit /\ RcInit
  BY DEF PartsInit
<1> QED BY <1>1, EachStep, PTL DEF PartsSpec, Spec, HvSpec, DwSpec, WifiSpec, OpSpec, RcSpec

\* The invariants of the parts.
BoxInv ==
  /\ IInv /\ MuteInv
  /\ HvInv /\ HvTypeOK /\ RetryOK
  /\ WindowInv /\ DwTypeOK
  /\ CamInv /\ SubTypeOK /\ WifiInv /\ PlugInv /\ RcInv

LEMMA BoxInvInit == PartsInit => BoxInv
BY InitInv, HvInvInit, HvTypeInit, WindowInvInit, DwTypeInit, CamInvInit, SubTypeInit, WifiInvInit,
   PlugInvInit, RcInvInit DEF PartsInit, BoxInv

LEMMA BoxInvNext == BoxInv /\ [PartsNext]_partsVars => BoxInv'
<1> SUFFICES ASSUME BoxInv, [PartsNext]_partsVars PROVE BoxInv'
  OBVIOUS
<1>0. /\ [Next]_vars /\ [HvNext]_hvVars /\ [DwNext]_dwVars /\ [CamNext]_camVars
      /\ [SubNext]_subVars /\ [WifiNext]_wifiVars /\ [OpNext]_opVars /\ [RcNext]_rcVars
  BY EachStep
<1>1. IInv' /\ MuteInv'
  BY <1>0, NextInv, MuteNext DEF BoxInv
<1>2. HvInv' /\ HvTypeOK' /\ RetryOK'
  <2>1. HvInv'
    BY <1>0, MapsNext, PathsNext, ExtNext, SwitchesNext DEF BoxInv, HvInv
  <2> QED BY <1>0, <2>1, HvTypeNext DEF BoxInv
<1>3. WindowInv' /\ DwTypeOK'
  BY <1>0, WindowInvNext, DwTypeNext DEF BoxInv, DwTypeOK
<1>4. CamInv' /\ SubTypeOK' /\ WifiInv' /\ RcInv'
  BY <1>0, CamInvNext, SubTypeNext, WifiInvNext, RcInvNext DEF BoxInv
<1>5. PlugInv'
  BY <1>0, OpTyped, EventsKept, ChoiceKept, SoundKept DEF BoxInv, PlugInv
<1> QED BY <1>1, <1>2, <1>3, <1>4, <1>5 DEF BoxInv

LEMMA BoxInvariant == PartsSpec => []BoxInv
BY BoxInvInit, BoxInvNext, PTL DEF PartsSpec

\* Whatever part of the box a run is about, and whatever the sizes of the
\* parts: no text, number, list or table leaves what it is made for, no
\* counter its range, no thread its stages.
THEOREM BoxTypeCorrect == PartsSpec => []PartsTypeOK
<1>1. BoxInv => PartsTypeOK
  BY DEF BoxInv, PartsTypeOK, IInv, WindowInv, CamInv, WifiInv, PlugInv, RcInv
<1> QED BY <1>1, BoxInvariant, PTL
=============================================================================
