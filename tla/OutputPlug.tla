----------------------------- MODULE OutputPlug -----------------------------
(***************************************************************************)
(* OutputModeManager.java when televisions come and go: which mode is      *)
(* chosen, what of it is remembered, and where the sound is sent.  Two     *)
(* threads of one process call it: the one that is told of the plug, one   *)
(* event after the other, and that of the settings.  They meet in the lock *)
(* of setOutputModeNowLocked only, in which the switch itself is one step  *)
(* (DisplaySwitch takes it apart, and has several processes).              *)
(***************************************************************************)
EXTENDS Sequences, Naturals

CONSTANTS
  HdmiModes, CvbsModeNames,   \* the modes in use, those whose name contains "cvbs" apart
  Tvs,           \* the televisions: modes of disp_cap, the one with the star, aud_cap
  BestOutput,    \* ro.platform.best_outputmode
  HdmiOnly,      \* ro.platform.hdmionly, on a chip of REAL_OUTPUT_SOC
  MaxUntold      \* events that the thread was not told of yet (a bound)

NoStar == "nostar"
NoChoice == "nochoice"

\* Nothing plugged in: the driver knows no modes, and says so or does not.
NoTv == [modes |-> {}, star |-> NoStar, sound |-> "PCM"]

OutModes == HdmiModes \cup CvbsModeNames
Sounds == {"PCM", "AC-3", "Dobly_Digital+"}
ManualSounds == {"PCM", "RAW", "SPDIF passthrough", "HDMI passthrough"}
AutoSounds == {"PCM:auto", "SPDIF passthrough:auto", "HDMI passthrough:auto"}

ASSUME PlugAssumption ==
  /\ HdmiModes \cap CvbsModeNames = {}
  /\ NoStar \notin OutModes /\ NoChoice \notin OutModes
  /\ Tvs \subseteq [modes : SUBSET HdmiModes, star : HdmiModes \cup {NoStar}, sound : Sounds]
  /\ \A t \in Tvs : t.star # NoStar => t.star \in t.modes
  /\ NoTv \notin Tvs
  /\ BestOutput \in HdmiModes
  /\ HdmiOnly \in BOOLEAN /\ MaxUntold \in Nat

VARIABLES
  tv, plugEvents,           \* what is plugged in, and what was not yet told
  plugPc, isAutoMode, plugMode,   \* the thread of the plug, in the call for the first event
  askPc, askMode,           \* the thread of the settings
  shown, currentOutputmode, \* the mode of the display, and the one this process knows
  isBest, hdmimode, cvbsmode, digitaudio,   \* in the environment
  sound,                    \* the registers of the sound
  choice                    \* history: the digital mode that the user has set

opVars == <<tv, plugEvents, plugPc, isAutoMode, plugMode, askPc, askMode, shown, currentOutputmode,
            isBest, hdmimode, cvbsmode, digitaudio, sound, choice>>
plugVars == <<tv, plugEvents, plugPc, isAutoMode, plugMode>>
askVars == <<askPc, askMode>>
modeVars == <<shown, currentOutputmode, hdmimode, cvbsmode>>
soundVars == <<digitaudio, sound>>

\* Where setDigitalVoiceValue and autoSwitchHdmiPassthough send the sound.
Sent(value) ==
  CASE value \in {"PCM", "PCM:auto"} -> [raw |-> 0, hdmi |-> TRUE, spdif |-> FALSE]
    [] value \in {"RAW", "SPDIF passthrough"} -> [raw |-> 1, hdmi |-> FALSE, spdif |-> TRUE]
    [] value = "SPDIF passthrough:auto" -> [raw |-> 1, hdmi |-> TRUE, spdif |-> TRUE]
    [] value \in {"HDMI passthrough", "HDMI passthrough:auto"} ->
         [raw |-> 2, hdmi |-> TRUE, spdif |-> FALSE]

autoSwitch(cap) ==
  CASE cap = "Dobly_Digital+" -> "HDMI passthrough:auto"
    [] cap = "AC-3" -> "SPDIF passthrough:auto"
    [] OTHER -> "PCM:auto"

\* The process starts and calls initOutputMode.
OpInit ==
  /\ tv \in Tvs \cup {NoTv}
  /\ hdmimode \in HdmiModes /\ cvbsmode \in CvbsModeNames
  /\ shown \in {hdmimode, cvbsmode} /\ currentOutputmode = shown
  /\ plugEvents = IF tv # NoTv THEN <<"plugged">>
                  ELSE IF shown \in HdmiModes THEN <<"unplugged">> ELSE <<>>
  /\ plugPc = "idle" /\ isAutoMode = FALSE /\ plugMode = shown
  /\ askPc = "idle" /\ askMode = shown
  /\ isBest \in BOOLEAN
  /\ digitaudio \in {"PCM", "PCM:auto"} /\ sound = Sent(digitaudio)
  /\ choice = NoChoice

-----------------------------------------------------------------------------
\* The mode with the star, of a list that names any.
getBestMatchResolution == IF tv.star # NoStar THEN tv.star ELSE BestOutput

\* hdmimode, if the list has it (with the star it is the best one); without a
\* list there is nothing to compare it with.
getSupportedResolution ==
  IF tv.modes = {} \/ hdmimode \in tv.modes THEN hdmimode ELSE getBestMatchResolution

\* Mutant: an analogue mode is remembered as the digital one too.
saveNewModePropBoth(m) ==
  /\ hdmimode' = m
  /\ cvbsmode' = IF m \in CvbsModeNames THEN m ELSE cvbsmode

saveNewModeProp(m) ==
  /\ hdmimode' = IF m \in CvbsModeNames THEN hdmimode ELSE m
  /\ cvbsmode' = IF m \in CvbsModeNames THEN m ELSE cvbsmode

\* setOutputModeNowLocked; the mode that this process has asked for last is
\* neither set nor saved.
setOutputMode(m) ==
  /\ currentOutputmode' = m
  /\ IF m = currentOutputmode THEN UNCHANGED <<shown, hdmimode, cvbsmode>>
     ELSE shown' = m /\ saveNewModeProp(m)

-----------------------------------------------------------------------------
(* The thread of the plug                                                  *)

\* External: a television comes or goes, and the thread will be told.
Plug(t) ==
  /\ Len(plugEvents) < MaxUntold /\ (tv = NoTv) # (t = NoTv)
  /\ tv' = t
  /\ plugEvents' = Append(plugEvents, IF t = NoTv THEN "unplugged" ELSE "plugged")
  /\ UNCHANGED <<plugPc, isAutoMode, plugMode, askVars, modeVars, isBest, soundVars, choice>>

\* Without modes the list may say "null edid", or nothing at all.
\* The first read of setHdmiPlugged.
setHdmiPlugged(nullEdid) ==
  /\ plugPc = "idle" /\ plugEvents # <<>> /\ Head(plugEvents) = "plugged"
  /\ nullEdid => tv.modes = {}
  /\ isAutoMode' = (isBest \/ nullEdid)
  /\ plugPc' = IF HdmiOnly THEN "auto" ELSE "sound"
  /\ choice' = IF nullEdid THEN NoChoice ELSE choice
  /\ UNCHANGED <<tv, plugEvents, plugMode, askVars, modeVars, isBest, soundVars>>

\* It reads the list and the environment again.
chooseMode ==
  /\ plugPc = "auto" /\ plugPc' = "mode"
  /\ plugMode' = IF isAutoMode THEN getBestMatchResolution ELSE getSupportedResolution
  /\ choice' = IF tv.modes = {} \/ choice \in tv.modes THEN choice ELSE NoChoice
  /\ UNCHANGED <<tv, plugEvents, isAutoMode, askVars, modeVars, isBest, soundVars>>

setPlugMode ==
  /\ plugPc = "mode" /\ plugPc' = "sound"
  /\ setOutputMode(plugMode)
  /\ UNCHANGED <<tv, plugEvents, isAutoMode, plugMode, askVars, isBest, soundVars, choice>>

\* The end of setHdmiPlugged.
switchHdmiPassthough ==
  /\ plugPc = "sound" /\ plugPc' = "idle"
  /\ digitaudio' = IF digitaudio \in AutoSounds THEN autoSwitch(tv.sound) ELSE digitaudio
  /\ sound' = Sent(digitaudio')
  /\ plugEvents' = Tail(plugEvents)
  /\ UNCHANGED <<tv, isAutoMode, plugMode, askVars, modeVars, isBest, choice>>

setHdmiUnPlugged ==
  /\ plugPc = "idle" /\ plugEvents # <<>> /\ Head(plugEvents) = "unplugged"
  /\ plugMode' = cvbsmode
  /\ plugPc' = "cvbs"
  /\ UNCHANGED <<tv, plugEvents, isAutoMode, askVars, modeVars, isBest, soundVars, choice>>

setUnplugMode ==
  /\ plugPc = "cvbs" /\ plugPc' = "idle"
  /\ IF HdmiOnly THEN setOutputMode(plugMode) ELSE UNCHANGED modeVars
  /\ plugEvents' = Tail(plugEvents)
  /\ UNCHANGED <<tv, isAutoMode, plugMode, askVars, isBest, soundVars, choice>>

-----------------------------------------------------------------------------
(* The thread of the settings                                              *)

\* setBestMode with a mode: the environment first.
setBestMode(m) ==
  /\ askPc = "idle"
  /\ askPc' = "mode" /\ askMode' = m
  /\ isBest' = FALSE
  /\ choice' = NoChoice
  /\ UNCHANGED <<plugVars, modeVars, soundVars>>

\* setOutputMode of an application.
askOutputMode(m) ==
  /\ askPc = "idle"
  /\ askPc' = "mode" /\ askMode' = m
  /\ choice' = NoChoice
  /\ UNCHANGED <<plugVars, modeVars, isBest, soundVars>>

\* setBestMode without one turns the automatic choice on or off.
toggleBestMode ==
  /\ askPc = "idle"
  /\ isBest' = ~isBest
  /\ askPc' = IF isBest THEN "idle" ELSE "best"
  /\ choice' = NoChoice
  /\ UNCHANGED <<plugVars, askMode, modeVars, soundVars>>

askBest ==
  /\ askPc = "best" /\ askPc' = "mode"
  /\ askMode' = getBestMatchResolution
  /\ UNCHANGED <<plugVars, modeVars, isBest, soundVars, choice>>

\* A digital mode is the user's choice, unless the thread of the plug is busy.
setAskedMode ==
  /\ askPc = "mode" /\ askPc' = "idle"
  /\ setOutputMode(askMode)
  /\ choice' = IF askMode \in HdmiModes /\ ~isBest /\ plugPc = "idle" THEN askMode ELSE NoChoice
  /\ UNCHANGED <<plugVars, askMode, isBest, soundVars>>

\* setDigitalVoiceValue, or autoSwitchHdmiPassthough.
setSound ==
  /\ askPc = "idle"
  /\ digitaudio' \in ManualSounds \cup {autoSwitch(tv.sound)}
  /\ sound' = Sent(digitaudio')
  /\ UNCHANGED <<plugVars, askPc, askMode, modeVars, isBest, choice>>

OpNext ==
  \/ \E t \in Tvs \cup {NoTv} : Plug(t)
  \/ \E nullEdid \in BOOLEAN : setHdmiPlugged(nullEdid)
  \/ chooseMode \/ setPlugMode \/ switchHdmiPassthough
  \/ setHdmiUnPlugged \/ setUnplugMode
  \/ \E m \in OutModes : setBestMode(m) \/ askOutputMode(m)
  \/ toggleBestMode \/ askBest \/ setAskedMode \/ setSound

OpSpec == OpInit /\ [][OpNext]_opVars

-----------------------------------------------------------------------------
(* Properties                                                              *)

OpTypeOK ==
  /\ tv \in Tvs \cup {NoTv}
  /\ plugEvents \in Seq({"plugged", "unplugged"})
  /\ plugPc \in {"idle", "auto", "mode", "sound", "cvbs"}
  /\ isAutoMode \in BOOLEAN /\ plugMode \in OutModes
  /\ askPc \in {"idle", "best", "mode"} /\ askMode \in OutModes
  /\ shown \in OutModes /\ currentOutputmode \in OutModes
  /\ isBest \in BOOLEAN /\ hdmimode \in HdmiModes /\ cvbsmode \in CvbsModeNames
  /\ digitaudio \in ManualSounds \cup AutoSounds
  /\ sound \in {Sent(v) : v \in ManualSounds \cup AutoSounds}
  /\ choice \in HdmiModes \cup {NoChoice}

Told == plugPc = "idle" /\ plugEvents = <<>>

\* However often televisions were changed: when the thread has been told of
\* the last one, the mode that the user has set is shown again, unless a list
\* was read that does not have it, and sound that is sent automatically is in
\* a format that this television takes.
PlugSettles ==
  Told /\ tv # NoTv =>
    /\ choice # NoChoice => shown = choice
    /\ digitaudio \in AutoSounds => sound = Sent(autoSwitch(tv.sound))
=============================================================================
