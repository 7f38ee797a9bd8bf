------------------------------ MODULE MCParts ------------------------------
(***************************************************************************)
(* Eight parts that share nothing but the box, checked in one run: the     *)
(* initial state says which of them this behaviour is about, the others    *)
(* stand still.  Each part is specified, on its own, in its own module.    *)
(***************************************************************************)
EXTENDS HdmiInAudio, HdmiInVideo, DisplayWindow, UsbCamera, SubtitleThread, EthernetWifi,
        OutputPlug, RemoteConf

VARIABLE part

partsVars == <<vars, hvVars, dwVars, camVars, subVars, wifiVars, opVars, rcVars, part>>

\* Two windows of a player, both inside the smallest picture at every zoom.
MCWindows == {[x |-> 401, y |-> 61, w |-> 209, h |-> 141], [x |-> 101, y |-> 57, w |-> 443, h |-> 261]}

\* Two boards, one with the extra paths.
MCBootPaths == {{"tvpath"}, VfmPaths}

\* A television that takes everything, and one that takes one mode.
MCTvs == {[modes |-> {"720p60hz", "1080p60hz"}, star |-> "1080p60hz", sound |-> "Dobly_Digital+"],
          [modes |-> {"720p60hz"}, star |-> NoStar, sound |-> "AC-3"]}

\* A code for each map and one for none, cut off to the same half; a word that
\* is a key of 0, and one that a field cannot tell from unset.
MCCodes == {W(0, 1), W(1, 256)}
MCWords == {W(1, 0), Unset}
MCKeys == [c \in {1, 4} |-> 5]

Parts == {"audio", "video", "window", "camera", "subtitle", "wifi", "plug", "remote"}

\* A part that stands still has one state.
Still ==
  /\ part # "audio" => signal = None
  /\ part # "video" => atBoot["default_ext"] = "own" /\ ~frames
  /\ part # "window" => dwMode = CHOOSE m \in WindowModes : TRUE
  /\ part # "camera" => plugged = 0 /\ ~enabled
  /\ part # "subtitle" => mService /\ ~disabled
  /\ part # "wifi" => wifi
  /\ part # "plug" => tv = NoTv /\ shown \notin HdmiModes /\ isBest /\ digitaudio = "PCM"
                     /\ hdmimode = BestOutput
  /\ part # "remote" => kp

PartsInit ==
  /\ part \in Parts
  /\ Init /\ HvInit /\ DwInit /\ CamInit /\ SubInit /\ WifiInit /\ OpInit /\ RcInit
  /\ Still

Alone(p) ==
  /\ part = p /\ UNCHANGED part
  /\ IF p = "audio" THEN TRUE ELSE UNCHANGED vars
  /\ IF p = "video" THEN TRUE ELSE UNCHANGED hvVars
  /\ IF p = "window" THEN TRUE ELSE UNCHANGED dwVars
  /\ IF p = "camera" THEN TRUE ELSE UNCHANGED camVars
  /\ IF p = "subtitle" THEN TRUE ELSE UNCHANGED subVars
  /\ IF p = "wifi" THEN TRUE ELSE UNCHANGED wifiVars
  /\ IF p = "plug" THEN TRUE ELSE UNCHANGED opVars
  /\ IF p = "remote" THEN TRUE ELSE UNCHANGED rcVars

\* The bound on the events of the cameras is reached.
CamRests == Len(sent) = MaxEvents /\ UNCHANGED camVars

\* remotecfg has run as often as it may.
RcRests == rcPc = "exit" /\ rcRuns = MaxRuns /\ UNCHANGED rcVars

PartsNext ==
  \/ Next /\ Alone("audio")
  \/ HvNext /\ Alone("video")
  \/ DwNext /\ Alone("window")
  \/ CamNext /\ Alone("camera")
  \/ CamRests /\ Alone("camera")
  \/ SubNext /\ Alone("subtitle")
  \/ WifiNext /\ Alone("wifi")
  \/ OpNext /\ Alone("plug")
  \/ RcNext /\ Alone("remote")
  \/ RcRests /\ Alone("remote")

\* The fairness of FairSpec, CamSpec and SubSpec.
PartsFairness ==
  /\ SF_vars(part = "audio" /\ Inside)
  /\ \A s \in Streams : /\ SF_vars(part = "audio" /\ Enter(s))
                        /\ WF_vars(part = "audio" /\ Leave(s))
                        /\ SF_vars(part = "audio" /\ Exit(s))
  /\ WF_camVars(part = "camera" /\ bootReady)
  /\ WF_camVars(part = "camera" /\ NodeAppears)
  /\ WF_camVars(part = "camera" /\ UsbDeviceAttach)
  /\ \A t \in 1 .. MaxEvents : WF_camVars(part = "camera" /\ t <= Len(threads) /\ run(t))
  /\ \A t \in ShowThreads : WF_subVars(part = "subtitle" /\ runnable(t))

PartsSpec == PartsInit /\ [][PartsNext]_partsVars /\ PartsFairness

-----------------------------------------------------------------------------
PartsTypeOK ==
  TypeOK /\ HvTypeOK /\ DwTypeOK /\ CamTypeOK /\ SubTypeOK /\ WifiTypeOK /\ OpTypeOK /\ RcTypeOK
=============================================================================
