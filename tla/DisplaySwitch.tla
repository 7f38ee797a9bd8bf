---------------------------- MODULE DisplaySwitch ----------------------------
(***************************************************************************)
(* Switching the output mode of the display (DisplayMode.cpp of the        *)
(* ODROID-C2 build and OutputModeManager.java), cut at every write to a    *)
(* register of the display.  The registers are shared and no lock guards   *)
(* them; they are written by                                               *)
(*   - Boot, the thread that constructs the service, before any client     *)
(*     can reach it;                                                       *)
(*   - the thread bootanimDetect, which Boot leaves behind;                *)
(*   - one binder thread for each application, which serves the requests   *)
(*     that the lock of its OutputModeManager lets through one at a time;  *)
(*   - the threads of shadowScreen, which sleep a second and open the OSD; *)
(*   - the player, which moves the window of the video.                    *)
(* A rectangle is named by the mode it belongs to.  Registers that always  *)
(* get the same value (free scale and its axis), or that nothing here reads*)
(* back (HDCP mode, digital audio), are left out.  setPosition is not called.*)
(***************************************************************************)
EXTENDS Naturals

CONSTANTS
  Apps,          \* the processes that hold an OutputModeManager
  Boot,          \* the thread that constructs the service
  Modes,         \* the names of the output modes in use
  HasCvbsMode,   \* ro.platform.has.cvbsmode
  Overscan,      \* the environment holds the four overscan values
  MaxTries,      \* polls of one HDCP version that may fail (10)
  MaxRequests    \* bound: requests of one application

CvbsModes == {"480cvbs", "576cvbs"}

\* What setMboxOutputMode writes for the mode asked for.
Written(m) ==
  IF ~HasCvbsMode THEN m
  ELSE CASE m = "480i60hz" -> "480cvbs"
         [] m = "576i50hz" -> "576cvbs"
         [] OTHER -> m

\* The modes for which setOsdMouse halves y and h.
Halved(m) == m \in CvbsModes \cup {"480i60hz", "576i50hz", "1080i50hz", "1080i60hz"}

\* getPosition: an analogue mode has the rectangle of its interlaced one.
Position(m) ==
  CASE m = "480cvbs" -> "480i60hz"
    [] m = "576cvbs" -> "576i50hz"
    [] OTHER -> m

ASSUME DisplayAssumption ==
  /\ Boot \notin Apps
  /\ \A m \in Modes : Written(m) \in Modes
  /\ HasCvbsMode \in BOOLEAN /\ Overscan \in BOOLEAN
  /\ MaxTries \in Nat /\ MaxRequests \in Nat

Threads == Apps \cup {Boot}
Rects == {Position(m) : m \in Modes}
Skewed == "skewed"     \* a video axis scaled from a rectangle it was not in
NoMode == "nomode"     \* a local outside the call it belongs to
Unread == "unread"     \* an OutputModeManager that is not constructed yet

VARIABLES
  pc, req, pre, tries, useHdcp,   \* of each thread in setMboxOutputMode
  cached, requests, shadow,       \* of each application
  anim, animMode, bootvideo,      \* bootanimDetect
  fb0, fb1, avmute, mode, window, osd, video,   \* registers
  playing, saved,                 \* mVideoPlaying, ubootenv.var.hdmimode
  mixed                           \* history: switches have overlapped, and the
                                  \* video axis was not right again since then

threadVars == <<pc, req, pre, tries, useHdcp>>
appVars == <<cached, requests, shadow>>
animVars == <<anim, animMode, bootvideo>>
screenVars == <<fb0, fb1, avmute>>
pictureVars == <<mode, window, osd, video>>
otherVars == <<playing, saved, mixed>>
vars == <<threadVars, appVars, animVars, screenVars, pictureVars, otherVars>>

Service == pc[Boot] = "idle"     \* addService follows the constructor
AnimBusy == anim \notin {"none", "done"}
Quiet == ~AnimBusy /\ \A t \in Threads : pc[t] = "idle"

Init ==
  /\ pc = [t \in Threads |-> IF t = Boot THEN "display" ELSE "idle"]
  /\ saved \in Modes /\ mode \in Modes
  /\ req = [t \in Threads |-> saved] /\ pre = [t \in Threads |-> NoMode]
  /\ tries = [t \in Threads |-> 0] /\ useHdcp = [t \in Threads |-> "none"]
  /\ cached = [a \in Apps |-> Unread]
  /\ requests = [a \in Apps |-> 0] /\ shadow = [a \in Apps |-> 0]
  /\ anim = "none" /\ animMode = NoMode /\ bootvideo \in BOOLEAN
  /\ fb0 \in {"open", "closed"} /\ fb1 = "open" /\ avmute = FALSE
  /\ window = [at |-> Position(mode), overscan |-> FALSE]
  /\ osd = [at |-> Position(mode), halved |-> Halved(mode)]
  /\ video = Position(mode)
  /\ playing = FALSE /\ mixed = FALSE

-----------------------------------------------------------------------------
(* setMboxOutputMode and hdcpAuthenticate, a step at a time *)

At(t, from, to) == pc[t] = from /\ pc' = [pc EXCEPT ![t] = to]

CloseOsd(t) ==
  /\ At(t, "close", IF t = Boot THEN "read" ELSE "mute")
  /\ fb0' = "closed"
  /\ UNCHANGED <<req, pre, tries, useHdcp, appVars, animVars, fb1, avmute, pictureVars, otherVars>>

Mute(t) ==
  /\ At(t, "mute", "read")
  /\ avmute' = TRUE
  /\ UNCHANGED <<req, pre, tries, useHdcp, appVars, animVars, fb0, fb1, pictureVars, otherVars>>

ReadPreMode(t) ==
  /\ At(t, "read", "mode")
  /\ pre' = [pre EXCEPT ![t] = mode]
  /\ UNCHANGED <<req, tries, useHdcp, appVars, animVars, screenVars, pictureVars, otherVars>>

\* Mutant: reads preMode after the new mode has been written.
WriteModeFirst(t) ==
  /\ At(t, "mode", "window")
  /\ mode' = Written(req[t])
  /\ pre' = [pre EXCEPT ![t] = mode']
  /\ UNCHANGED <<req, tries, useHdcp, appVars, animVars, screenVars, window, osd, video, otherVars>>

WriteMode(t) ==
  /\ At(t, "mode", "window")
  /\ mode' = Written(req[t])
  /\ UNCHANGED <<req, pre, tries, useHdcp, appVars, animVars, screenVars, window, osd, video, otherVars>>

WriteWindow(t) ==
  /\ At(t, "window", "video")
  /\ window' = [at |-> Position(req[t]), overscan |-> FALSE]
  /\ UNCHANGED <<req, pre, tries, useHdcp, appVars, animVars, screenVars, mode, osd, video, otherVars>>

\* The axis is scaled from the rectangle of preMode to that of the new mode.
setVideoAxis(t) ==
  /\ At(t, "video", "native")
  /\ video' = IF video = Position(pre[t]) THEN Position(req[t]) ELSE Skewed
  /\ UNCHANGED <<req, pre, tries, useHdcp, appVars, animVars, screenVars, mode, window, osd, otherVars>>

\* setNativeWindowRect scales into the rectangle of the mode it reads.
NativeAxis == IF playing THEN Position(mode) ELSE video

\* Only an HDMI mode is authenticated.
setNativeWindow(t) ==
  /\ At(t, "native", IF Written(req[t]) \in CvbsModes THEN "open" ELSE "hdcp")
  /\ video' = NativeAxis
  /\ UNCHANGED <<req, pre, tries, useHdcp, appVars, animVars, screenVars, mode, window, osd, otherVars>>

\* The version for the keys of this box and the versions of the screen.
HdcpVersion(keys, versions, uhd) ==
  IF uhd /\ "22" \in keys \cap versions THEN "22"
  ELSE IF "14" \in keys \cap versions THEN "14" ELSE "none"

HdcpVersions == {HdcpVersion(keys, versions, uhd) :
  keys \in SUBSET {"14", "22"}, versions \in SUBSET {"14", "22"}, uhd \in BOOLEAN}

hdcpStart(t) ==
  \E v \in HdcpVersions :
    /\ At(t, "hdcp", IF v = "none" THEN "open" ELSE "poll")
    /\ useHdcp' = [useHdcp EXCEPT ![t] = v]
    /\ UNCHANGED <<req, pre, tries, appVars, animVars, screenVars, pictureVars, otherVars>>

\* The locals of hdcpAuthenticate are gone when it returns.
hdcpReturn(t) ==
  /\ At(t, "poll", "open")
  /\ tries' = [tries EXCEPT ![t] = 0] /\ useHdcp' = [useHdcp EXCEPT ![t] = "none"]
  /\ UNCHANGED <<req, pre, appVars, animVars, screenVars, pictureVars, otherVars>>

hdcpOk(t) == useHdcp[t] # "none" /\ hdcpReturn(t)

\* Mutant: polls without a limit.
hdcpRetryForever(t) ==
  /\ pc[t] = "poll"
  /\ tries' = [tries EXCEPT ![t] = @ + 1]
  /\ UNCHANGED <<pc, req, pre, useHdcp, appVars, animVars, screenVars, pictureVars, otherVars>>

hdcpRetry(t) ==
  /\ pc[t] = "poll" /\ tries[t] + 1 <= MaxTries
  /\ tries' = [tries EXCEPT ![t] = @ + 1]
  /\ UNCHANGED <<pc, req, pre, useHdcp, appVars, animVars, screenVars, pictureVars, otherVars>>

\* Mutant: falls back without forgetting 2.2.
hdcpFallBackOnly(t) ==
  /\ pc[t] = "poll" /\ tries[t] + 1 > MaxTries /\ useHdcp[t] = "22"
  /\ tries' = [tries EXCEPT ![t] = 0]
  /\ UNCHANGED <<pc, req, pre, useHdcp, appVars, animVars, screenVars, pictureVars, otherVars>>

\* 2.2 has failed for too long: start over with 1.4.
hdcpFallBack(t) ==
  /\ pc[t] = "poll" /\ tries[t] + 1 > MaxTries /\ useHdcp[t] = "22"
  /\ tries' = [tries EXCEPT ![t] = 0]
  /\ useHdcp' = [useHdcp EXCEPT ![t] = "14"]
  /\ UNCHANGED <<pc, req, pre, appVars, animVars, screenVars, pictureVars, otherVars>>

hdcpStop(t) == tries[t] + 1 > MaxTries /\ useHdcp[t] = "14" /\ hdcpReturn(t)

\* Mutant: opens the OSD only behind hdcpAuthenticate.
OpenOsdHdmi(t) ==
  /\ t # Boot /\ At(t, "open", "mouse")
  /\ fb0' = IF Written(req[t]) \in CvbsModes THEN fb0 ELSE "open"
  /\ UNCHANGED <<req, pre, tries, useHdcp, appVars, animVars, fb1, avmute, pictureVars, otherVars>>

OpenOsd(t) ==
  /\ t # Boot /\ At(t, "open", "mouse")
  /\ fb0' = "open"
  /\ UNCHANGED <<req, pre, tries, useHdcp, appVars, animVars, fb1, avmute, pictureVars, otherVars>>

setOsdMouse(m) == osd' = [at |-> Position(m), halved |-> Halved(mode)]

Mouse(t) ==
  /\ At(t, "mouse", "unmute")
  /\ setOsdMouse(req[t])
  /\ UNCHANGED <<req, pre, tries, useHdcp, appVars, animVars, screenVars, mode, window, video, otherVars>>

\* The reply returns to setOutputModeNowLocked.
Unmute(t) ==
  /\ At(t, "unmute", "save")
  /\ avmute' = FALSE
  /\ pre' = [pre EXCEPT ![t] = NoMode]
  /\ UNCHANGED <<req, tries, useHdcp, appVars, animVars, fb0, fb1, pictureVars, otherVars>>

setMboxOutputMode(t) ==
  \/ CloseOsd(t) \/ Mute(t) \/ ReadPreMode(t) \/ WriteMode(t) \/ WriteWindow(t)
  \/ setVideoAxis(t) \/ setNativeWindow(t)
  \/ hdcpStart(t) \/ hdcpOk(t) \/ hdcpRetry(t) \/ hdcpFallBack(t) \/ hdcpStop(t)
  \/ OpenOsd(t) \/ Mouse(t) \/ Unmute(t)

-----------------------------------------------------------------------------
(* Start of the service, and the thread it leaves behind *)

\* setMboxDisplay: another mode than U-Boot's closes both layers first.
setMboxDisplay ==
  /\ At(Boot, "display", "close")
  /\ req' = [req EXCEPT ![Boot] = saved]
  /\ IF mode = saved THEN UNCHANGED <<fb0, fb1>> ELSE fb0' = "closed" /\ fb1' = "closed"
  /\ UNCHANGED <<pre, tries, useHdcp, appVars, animVars, avmute, pictureVars, otherVars>>

startBootanimDetectThread ==
  /\ At(Boot, "open", "idle")
  /\ anim' = "start" /\ animMode' = NoMode
  /\ pre' = [pre EXCEPT ![Boot] = NoMode]
  /\ UNCHANGED <<req, tries, useHdcp, appVars, bootvideo, screenVars, pictureVars, otherVars>>

AnimAt(from, to) == anim = from /\ anim' = to

animRead ==
  /\ AnimAt("start", "logo")
  /\ animMode' = mode
  /\ UNCHANGED <<threadVars, appVars, bootvideo, screenVars, pictureVars, otherVars>>

\* At the latest 4 s later, with or without a boot animation.
animCloseLogo ==
  /\ AnimAt("logo", "open")
  /\ fb1' = "closed"
  /\ UNCHANGED <<threadVars, appVars, animMode, bootvideo, fb0, avmute, pictureVars, otherVars>>

animOpenOsd ==
  /\ AnimAt("open", "mouse")
  /\ fb0' = IF bootvideo THEN fb0 ELSE "open"
  /\ UNCHANGED <<threadVars, appVars, animMode, bootvideo, fb1, avmute, pictureVars, otherVars>>

animMouse ==
  /\ AnimAt("mouse", "overscan")
  /\ setOsdMouse(animMode)
  /\ UNCHANGED <<threadVars, appVars, animMode, bootvideo, screenVars, mode, window, video, otherVars>>

setOverscan ==
  /\ AnimAt("overscan", "done")
  /\ window' = IF Overscan THEN [at |-> Position(animMode), overscan |-> TRUE] ELSE window
  /\ animMode' = NoMode
  /\ UNCHANGED <<threadVars, appVars, bootvideo, screenVars, mode, osd, video, otherVars>>

bootanimDetect == animRead \/ animCloseLogo \/ animOpenOsd \/ animMouse \/ setOverscan

-----------------------------------------------------------------------------
(* OutputModeManager and the player *)

Construct(a) ==
  /\ Service /\ cached[a] = Unread
  /\ cached' = [cached EXCEPT ![a] = mode]
  /\ UNCHANGED <<threadVars, requests, shadow, animVars, screenVars, pictureVars, otherVars>>

\* The request for the mode that this process asked for last is dropped.
Ignore(a, m) ==
  /\ pc[a] = "idle" /\ cached[a] # Unread /\ requests[a] < MaxRequests
  /\ m = cached[a]
  /\ requests' = [requests EXCEPT ![a] = @ + 1]
  /\ UNCHANGED <<threadVars, cached, shadow, animVars, screenVars, pictureVars, otherVars>>

\* shadowScreen closes the OSD and starts its thread; the binder call follows.
setOutputModeNowLocked(a, m) ==
  /\ At(a, "idle", "close")
  /\ cached[a] # Unread /\ requests[a] < MaxRequests
  /\ m # cached[a]
  /\ req' = [req EXCEPT ![a] = m]
  /\ cached' = [cached EXCEPT ![a] = m]
  /\ requests' = [requests EXCEPT ![a] = @ + 1]
  /\ fb0' = "closed"
  /\ shadow' = [shadow EXCEPT ![a] = @ + 1]
  /\ mixed' = (~Quiet \/ video # Position(mode))
  /\ UNCHANGED <<pre, tries, useHdcp, animVars, fb1, avmute, pictureVars, playing, saved>>

\* The end of the second that a thread of shadowScreen sleeps.
shadowScreenEnds(a) ==
  /\ shadow[a] > 0
  /\ shadow' = [shadow EXCEPT ![a] = @ - 1]
  /\ fb0' = "open"
  /\ UNCHANGED <<threadVars, cached, requests, animVars, fb1, avmute, pictureVars, otherVars>>

\* Mutant: saves the analogue modes in place of the digital ones.
saveNewModePropSwapped(a) ==
  /\ At(a, "save", "idle")
  /\ saved' = IF req[a] \in CvbsModes THEN req[a] ELSE saved
  /\ UNCHANGED <<req, pre, tries, useHdcp, appVars, animVars, screenVars, pictureVars, playing, mixed>>

\* A cvbs mode goes to a variable that the start does not read.
saveNewModeProp(a) ==
  /\ At(a, "save", "idle")
  /\ saved' = IF req[a] \in CvbsModes THEN saved ELSE req[a]
  /\ UNCHANGED <<req, pre, tries, useHdcp, appVars, animVars, screenVars, pictureVars, playing, mixed>>

setVideoPlaying ==
  /\ Service
  /\ playing' = ~playing
  /\ UNCHANGED <<threadVars, appVars, animVars, screenVars, pictureVars, saved, mixed>>

\* Without a video playing the call returns at once.
setNativeWindowRect ==
  /\ Service /\ playing
  /\ video' = NativeAxis
  /\ mixed' = (mixed \/ ~Quiet)
  /\ UNCHANGED <<threadVars, appVars, animVars, screenVars, mode, window, osd, playing, saved>>

Next ==
  \/ setMboxDisplay \/ startBootanimDetectThread \/ bootanimDetect
  \/ \E t \in Threads : setMboxOutputMode(t)
  \/ \E a \in Apps :
       \/ Construct(a) \/ shadowScreenEnds(a) \/ saveNewModeProp(a)
       \/ \E m \in Modes : Ignore(a, m) \/ setOutputModeNowLocked(a, m)
  \/ setVideoPlaying \/ setNativeWindowRect

Spec == Init /\ [][Next]_vars

\* Every thread that has started goes on; nobody has to make a request.
FairSpec ==
  /\ Spec
  /\ WF_vars(setMboxDisplay \/ startBootanimDetectThread)
  /\ WF_vars(bootanimDetect)
  /\ \A t \in Threads : WF_vars(setMboxOutputMode(t))
  /\ \A a \in Apps : WF_vars(shadowScreenEnds(a)) /\ WF_vars(saveNewModeProp(a))

-----------------------------------------------------------------------------
(* Properties *)

Places == {"display", "close", "mute", "read", "mode", "window", "video", "native",
           "hdcp", "poll", "open", "mouse", "unmute", "save", "idle"}

\* Each register, counter and place has a value of its kind, the counter of
\* failed polls stays within MaxTries, Boot never mutes or saves, and each
\* thread of shadowScreen belongs to a request.
TypeOK ==
  /\ pc \in [Threads -> Places] /\ pc[Boot] \notin {"mute", "mouse", "unmute", "save"}
  /\ req \in [Threads -> Modes] /\ pre \in [Threads -> Modes \cup {NoMode}]
  /\ tries \in [Threads -> 0..MaxTries] /\ useHdcp \in [Threads -> {"none", "14", "22"}]
  /\ cached \in [Apps -> Modes \cup {Unread}]
  /\ requests \in [Apps -> 0..MaxRequests]
  /\ shadow \in [Apps -> Nat] /\ \A a \in Apps : shadow[a] <= requests[a]
  /\ anim \in {"none", "start", "logo", "open", "mouse", "overscan", "done"}
  /\ animMode \in IF anim \in {"none", "start", "done"} THEN {NoMode} ELSE Modes
  /\ bootvideo \in BOOLEAN
  /\ fb0 \in {"open", "closed"} /\ fb1 \in {"open", "closed"} /\ avmute \in BOOLEAN
  /\ mode \in Modes
  /\ window \in [at : Rects, overscan : BOOLEAN]
  /\ osd \in [at : Rects, halved : BOOLEAN]
  /\ video \in Rects \cup {Skewed}
  /\ playing \in BOOLEAN /\ saved \in Modes /\ mixed \in BOOLEAN

\* Whatever threads have switched the mode, and however their writes were
\* mixed, the OSD is open and the AV mute off once all of them have
\* returned; only a boot video may keep the OSD closed after the start
\* (setMboxOutputMode, shadowScreen and bootanimDetect write both).
ScreenReturns ==
  Quiet /\ (\A a \in Apps : shadow[a] = 0) =>
    /\ ~avmute
    /\ fb0 = "open" \/ bootvideo

\* Switches that did not overlap leave the window of the OSD, the scale of
\* the mouse layer and the axis of the video in the rectangle of the mode
\* that is shown (setMboxOutputMode, setOverscan, setOsdMouse).
PictureFitsMode ==
  Quiet /\ ~mixed =>
    /\ window.at = Position(mode)
    /\ osd = [at |-> Position(mode), halved |-> Halved(mode)]
    /\ video = Position(mode)

\* Switches that did not overlap leave the environment with the mode that is
\* shown, so that the next start shows it again; an analogue mode apart
\* (setOutputModeNowLocked, saveNewModeProp, setMboxDisplay).
SavedIsShown ==
  Quiet /\ ~mixed /\ mode \notin CvbsModes => Written(saved) = mode

\* A switch comes to its end, whatever the screen answers: the loop of
\* hdcpAuthenticate gives up on 2.2 and then on 1.4.
SwitchEnds == \A a \in Apps : pc[a] # "idle" ~> pc[a] = "idle"

\* "first close osd, after HDCP authenticate completely, then open osd"
\* (DisplayMode.cpp:821): while the only switch under way waits for the
\* screen to authenticate, the OSD is closed.
OsdClosedDuringHdcp ==
  ~mixed => \A a \in Apps : pc[a] = "poll" => fb0 = "closed"
=============================================================================

