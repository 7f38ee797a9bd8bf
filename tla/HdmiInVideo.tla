---------------------------- MODULE HdmiInVideo ----------------------------
(***************************************************************************)
(* The picture of HDMI-in (droid_logic_server_HDMIIN.cpp).  Before the     *)
(* receiver is led to the screen the paths of the video frame manager that *)
(* would be in the way are read, kept as text in the process and removed;  *)
(* deinit puts them back.  One thread of the application calls; the screen *)
(* device reports its state from a thread of its own.                      *)
(***************************************************************************)
EXTENDS Naturals

VfmPaths == {"tvpath", "default_ext", "default_amlvideo2"}

CONSTANTS MaxRetry,   \* how often safeRmPath looks at the frame counter (20)
          BootPaths   \* the sets of paths that boards come up with

ASSUME RetryAssumption == MaxRetry \in Nat \ {0}
ASSUME BootAssumption == BootPaths \subseteq SUBSET VfmPaths

Chains == {"none", "own", "vm", "deinterlace", "amvideo", "amlvideo2", "ppmgr"}

VARIABLES
  vfm,           \* the map: the chain of each path, "none" for no path
  saved,         \* vfmTvpath, vfmDefaultExt, vfmDefaultAmlvideo2
  vfmHdmiin,
  layer,         \* isDisplayFullscreen && useVideoLayer
  usePpmgr,
  inCall,        \* "init" or "deinit" while it waits in safeRmPath, or "no"
  retry,
  frames,        \* the video layer shows a frame
  receiver,      \* "enable" of the chip
  disable_video, hdmiin_on_video,
  screenDev,     \* "closed", "open", "streaming"
  displayState,  \* what the device last reported
  \* history
  atBoot,        \* the map before the process touched it
  opened,        \* init has returned, deinit has not been called
  lost           \* init came a second time, or the process died with it

hvScreen == <<screenDev, displayState>>
hvHistory == <<atBoot, opened, lost>>
hvVars == <<vfm, saved, vfmHdmiin, layer, usePpmgr, inCall, retry, frames, receiver,
            disable_video, hdmiin_on_video, hvScreen, hvHistory>>

Nothing == [p \in VfmPaths |-> "none"]

HvInit ==
  /\ vfm \in {[p \in VfmPaths \cup {"hdmiin"} |-> IF p \in own THEN "own" ELSE "none"] :
              own \in BootPaths}
  /\ atBoot = vfm
  /\ saved = Nothing /\ vfmHdmiin = "none"
  /\ layer = FALSE /\ usePpmgr = FALSE
  /\ inCall = "no" /\ retry = 0 /\ frames \in BOOLEAN
  /\ receiver = FALSE /\ disable_video = 0 /\ hdmiin_on_video = FALSE
  /\ screenDev = "closed" /\ displayState = "STOP"
  /\ opened = FALSE /\ lost = FALSE

Calls == inCall = "no" /\ opened

\* The paths in the way of the receiver.
InTheWay(l) == IF l THEN {"tvpath", "default_ext"} ELSE VfmPaths

Without(map, ps) == [p \in DOMAIN map |-> IF p \in ps THEN "none" ELSE map[p]]

\* Mutant: the paths are read when they have gone.
getPathsLate(l) == saved' = [p \in VfmPaths |-> vfm'[p]]
getPaths(l) == saved' = [p \in VfmPaths |-> IF p \in InTheWay(l) THEN vfm[p] ELSE "none"]

\* getScreenDev: an open device is kept; the module may not be there.
getScreenDev == screenDev' \in IF screenDev = "closed" THEN {"closed", "open"} ELSE {screenDev}

\* init up to the wait.  Nothing keeps the application from calling it twice.
init(l, ppmgr) ==
  /\ inCall = "no"
  /\ inCall' = "init" /\ retry' = MaxRetry
  /\ layer' = l /\ usePpmgr' = ppmgr
  /\ receiver' = FALSE
  /\ IF l THEN disable_video' = 1 /\ UNCHANGED screenDev
     ELSE getScreenDev /\ UNCHANGED disable_video
  /\ vfm' = Without(vfm, InTheWay(l))
  /\ getPaths(l)
  /\ vfmHdmiin' = "none"
  /\ lost' = (lost \/ opened)
  /\ opened' = FALSE
  /\ UNCHANGED <<frames, hdmiin_on_video, displayState, atBoot>>

\* deinit up to the wait.
deinit ==
  /\ Calls
  /\ inCall' = "deinit" /\ retry' = MaxRetry
  /\ receiver' = FALSE
  /\ disable_video' = IF layer THEN 2 ELSE disable_video
  /\ vfmHdmiin' = vfm["hdmiin"]
  /\ opened' = FALSE
  /\ UNCHANGED <<vfm, saved, layer, usePpmgr, frames, hdmiin_on_video, hvScreen, atBoot, lost>>

-----------------------------------------------------------------------------
(* safeRmPath("hdmiin"): a path that ends in the video layer is removed    *)
(* when no frame is shown, or after MaxRetry seconds all the same.         *)

Removes == vfmHdmiin = "amlvideo2" \/ ~frames \/ retry = 1

waitFrames ==
  /\ inCall # "no" /\ ~Removes
  /\ retry' = retry - 1
  /\ UNCHANGED <<vfm, saved, vfmHdmiin, layer, usePpmgr, inCall, frames, receiver,
                 disable_video, hdmiin_on_video, hvScreen, hvHistory>>

initEnds ==
  /\ inCall = "init" /\ Removes
  /\ vfm' = [vfm EXCEPT !["hdmiin"] = IF usePpmgr THEN "ppmgr"
                                      ELSE IF layer THEN "amvideo" ELSE "amlvideo2"]
  /\ receiver' = TRUE
  /\ hdmiin_on_video' = (layer \/ hdmiin_on_video)
  /\ inCall' = "no" /\ retry' = 0 /\ opened' = TRUE
  /\ UNCHANGED <<saved, vfmHdmiin, layer, usePpmgr, frames, disable_video, hvScreen,
                 atBoot, lost>>

\* Mutant: the path of the second screen is forgotten.
ResumedTwo(map) == [p \in DOMAIN map |->
  IF p \in {"tvpath", "default_ext"} /\ saved[p] # "none" THEN saved[p] ELSE map[p]]

\* resumePath of each path: one that was not there is not made.
Resumed(map) ==
  [p \in DOMAIN map |-> IF p \in VfmPaths /\ saved[p] # "none" THEN saved[p] ELSE map[p]]

deinitEnds ==
  /\ inCall = "deinit" /\ Removes
  /\ vfm' = Resumed(Without(vfm, {"hdmiin"}))
  /\ hdmiin_on_video' = (~layer /\ hdmiin_on_video)
  /\ inCall' = "no" /\ retry' = 0
  /\ UNCHANGED <<saved, vfmHdmiin, layer, usePpmgr, frames, receiver, disable_video,
                 hvScreen, hvHistory>>

-----------------------------------------------------------------------------
(* The calls while HDMI-in is open                                         *)

hvKept == <<saved, vfmHdmiin, layer, usePpmgr, inCall, retry, frames, hdmiin_on_video, hvHistory>>

startVideo ==
  /\ Calls /\ layer
  /\ disable_video' = IF disable_video = 1 THEN 2 ELSE disable_video
  /\ UNCHANGED <<hvKept, vfm, receiver, hvScreen>>

stopVideo == Calls /\ layer /\ disable_video' = 1 /\ UNCHANGED <<hvKept, vfm, receiver, hvScreen>>

\* dispHdmi and dispAndroid make default_ext anew.
displayHdmi ==
  /\ Calls
  /\ vfm' = [vfm EXCEPT !["default_ext"] = "deinterlace"]
  /\ disable_video' = 2 /\ receiver' = TRUE
  /\ UNCHANGED <<hvKept, hvScreen>>

displayAndroid ==
  /\ Calls
  /\ vfm' = [vfm EXCEPT !["default_ext"] = "vm"]
  /\ receiver' = FALSE
  /\ UNCHANGED <<hvKept, disable_video, hvScreen>>

setEnable(enable) ==
  /\ Calls
  /\ receiver' = enable
  /\ IF enable /\ ~layer THEN getScreenDev ELSE UNCHANGED screenDev
  /\ UNCHANGED <<hvKept, vfm, disable_video, displayState>>

setPreviewWindow == Calls /\ ~layer /\ getScreenDev
                    /\ UNCHANGED <<hvKept, vfm, receiver, disable_video, displayState>>

startMov ==
  /\ Calls /\ ~layer /\ screenDev = "open"
  /\ screenDev' = "streaming"
  /\ UNCHANGED <<hvKept, vfm, receiver, disable_video, displayState>>

\* A device that has not reported since it was started is left running.
stopMov ==
  /\ Calls /\ ~layer /\ screenDev # "closed" /\ displayState # "STOP"
  /\ screenDev' = "closed"
  /\ UNCHANGED <<hvKept, vfm, receiver, disable_video, displayState>>

\* The device tells what it does; the state is not asked for.
setStateCB ==
  /\ displayState' = IF screenDev = "streaming" THEN "START" ELSE "STOP"
  /\ UNCHANGED <<hvKept, vfm, receiver, disable_video, screenDev>>

\* The texts, the device and the flags of a process that dies are gone, what
\* the kernel was told is not.
hvKill ==
  /\ opened \/ inCall # "no"
  /\ saved' = Nothing /\ vfmHdmiin' = "none" /\ layer' = FALSE /\ usePpmgr' = FALSE
  /\ inCall' = "no" /\ retry' = 0
  /\ screenDev' = "closed" /\ displayState' = "STOP"
  /\ opened' = FALSE /\ lost' = TRUE
  /\ UNCHANGED <<vfm, frames, receiver, disable_video, hdmiin_on_video, atBoot>>

frameShown ==
  /\ frames' = ~frames
  /\ UNCHANGED <<vfm, saved, vfmHdmiin, layer, usePpmgr, inCall, retry, receiver,
                 disable_video, hdmiin_on_video, hvScreen, hvHistory>>

HvNext ==
  \/ \E l, ppmgr \in BOOLEAN : init(l, ppmgr)
  \/ deinit \/ waitFrames \/ initEnds \/ deinitEnds
  \/ startVideo \/ stopVideo \/ displayHdmi \/ displayAndroid
  \/ \E enable \in BOOLEAN : setEnable(enable)
  \/ setPreviewWindow \/ startMov \/ stopMov \/ setStateCB
  \/ hvKill \/ frameShown

HvSpec == HvInit /\ [][HvNext]_hvVars

-----------------------------------------------------------------------------
(* Properties                                                              *)

HvTypeOK ==
  /\ vfm \in [VfmPaths \cup {"hdmiin"} -> Chains] /\ atBoot \in [DOMAIN vfm -> {"none", "own"}]
  /\ saved \in [VfmPaths -> Chains] /\ vfmHdmiin \in Chains
  /\ layer \in BOOLEAN /\ usePpmgr \in BOOLEAN /\ frames \in BOOLEAN
  /\ inCall \in {"no", "init", "deinit"} /\ retry \in 0 .. MaxRetry
  /\ receiver \in BOOLEAN /\ disable_video \in 0 .. 2 /\ hdmiin_on_video \in BOOLEAN
  /\ screenDev \in {"closed", "open", "streaming"} /\ displayState \in {"START", "STOP"}
  /\ opened \in BOOLEAN /\ lost \in BOOLEAN

\* When HDMI-in is closed the map is as it was at boot, for whatever the
\* calls in between have made of it, the receiver is off and the video layer
\* is not left disabled: unless the texts were lost with a process or to a
\* second init, every path that was there is there, with its own chain.
PathsRestored ==
  (~opened /\ inCall = "no" /\ ~lost) =>
    /\ \A p \in VfmPaths : atBoot[p] = "own" => vfm[p] = "own"
    /\ vfm["hdmiin"] = "none"
    /\ ~receiver /\ ~hdmiin_on_video /\ disable_video # 1
=============================================================================
