------------------------- MODULE DisplaySwitchProofs -------------------------
(***************************************************************************)
(* Proofs about DisplaySwitch, for any number of applications, modes,      *)
(* requests and polls: its types, and that the screen comes back after any *)
(* mixture of switches.                                                    *)
(***************************************************************************)
EXTENDS DisplaySwitch, TLAPS

\* The places at which a thread still has its write to open the OSD ahead.
ToOpen == {"display", "close", "mute", "read", "mode", "window", "video", "native",
           "hdcp", "poll", "open"}

\* The places at which a thread has muted and not unmuted yet.
Muted == {"read", "mode", "window", "video", "native", "hdcp", "poll", "open",
          "mouse", "unmute"}

\* A closed OSD: somebody is still going to open it.
OsdOwed ==
  \/ fb0 = "open" \/ bootvideo
  \/ anim \in {"start", "logo", "open"}
  \/ \E a \in Apps : shadow[a] > 0
  \/ \E t \in Threads : pc[t] \in ToOpen

\* A muted output: an application's switch is still going to unmute it.
MuteOwed == avmute => \E a \in Apps : pc[a] \in Muted

IInv == TypeOK /\ OsdOwed /\ MuteOwed

-----------------------------------------------------------------------------

LEMMA Helpers ==
  /\ \A m \in Modes : Written(m) \in Modes /\ Position(m) \in Rects
  /\ \A m : Halved(m) \in BOOLEAN
  /\ HdcpVersions \subseteq {"none", "14", "22"}
<1>1. \A m \in Modes : Written(m) \in Modes /\ Position(m) \in Rects
  BY DisplayAssumption DEF Rects
<1>2. \A m : Halved(m) \in BOOLEAN
  BY DEF Halved
<1>3. HdcpVersions \subseteq {"none", "14", "22"}
  BY DEF HdcpVersions, HdcpVersion
<1> QED BY <1>1, <1>2, <1>3

LEMMA TypeInit == Init => TypeOK
<1> SUFFICES ASSUME Init PROVE TypeOK
  OBVIOUS
<1> USE DEF Init
<1>1. pc \in [Threads -> Places] /\ pc[Boot] \notin {"mute", "mouse", "unmute", "save"}
  BY DEF Places, Threads
<1>2. window \in [at : Rects, overscan : BOOLEAN] /\ osd \in [at : Rects, halved : BOOLEAN] /\ video \in Rects
  BY Helpers
<1>3. /\ req \in [Threads -> Modes] /\ pre \in [Threads -> Modes \cup {NoMode}]
      /\ tries \in [Threads -> 0..MaxTries] /\ useHdcp \in [Threads -> {"none", "14", "22"}]
  BY DisplayAssumption
<1>4. /\ cached \in [Apps -> Modes \cup {Unread}] /\ requests \in [Apps -> 0..MaxRequests]
      /\ shadow \in [Apps -> Nat] /\ \A a \in Apps : shadow[a] <= requests[a]
  BY DisplayAssumption
<1>5. mode \in Modes /\ saved \in Modes /\ bootvideo \in BOOLEAN
  OBVIOUS
<1>6. anim = "none" /\ animMode = NoMode
  OBVIOUS
<1>7. fb0 \in {"open", "closed"} /\ fb1 \in {"open", "closed"}
  OBVIOUS
<1>8. avmute = FALSE /\ playing = FALSE /\ mixed = FALSE
  OBVIOUS
<1> HIDE DEF Init
<1>9. avmute \in BOOLEAN /\ playing \in BOOLEAN /\ mixed \in BOOLEAN
  BY <1>8
<1> QED BY <1>1, <1>2, <1>3, <1>4, <1>5, <1>6, <1>7, <1>9 DEF TypeOK

LEMMA TypeNext == TypeOK /\ [Next]_vars => TypeOK'
<1> SUFFICES ASSUME TypeOK, [Next]_vars PROVE TypeOK'
  OBVIOUS
<1> USE DEF TypeOK, threadVars, appVars, animVars, screenVars, pictureVars, otherVars
<1>1. ASSUME NEW t \in Threads, setMboxOutputMode(t) PROVE TypeOK'
  <2> USE DEF At, Places, Threads
  <2>1. CASE CloseOsd(t)
    BY <2>1 DEF CloseOsd
  <2>2. CASE Mute(t)
    BY <2>2 DEF Mute
  <2>3. CASE ReadPreMode(t)
    BY <2>3 DEF ReadPreMode
  <2>4. CASE WriteMode(t)
    BY <2>4, Helpers DEF WriteMode
  <2>5. CASE WriteWindow(t)
    BY <2>5, Helpers DEF WriteWindow
  <2>6. CASE setVideoAxis(t)
    BY <2>6, Helpers DEF setVideoAxis
  <2>7. CASE setNativeWindow(t)
    BY <2>7, Helpers DEF setNativeWindow, NativeAxis
  <2>8. CASE hdcpStart(t)
    BY <2>8, Helpers DEF hdcpStart
  <2>9. CASE hdcpOk(t)
    BY <2>9, DisplayAssumption DEF hdcpOk, hdcpReturn
  <2>10. CASE hdcpRetry(t)
    BY <2>10, DisplayAssumption DEF hdcpRetry
  <2>11. CASE hdcpFallBack(t)
    BY <2>11, DisplayAssumption DEF hdcpFallBack
  <2>12. CASE hdcpStop(t)
    BY <2>12, DisplayAssumption DEF hdcpStop, hdcpReturn
  <2>13. CASE OpenOsd(t)
    BY <2>13 DEF OpenOsd
  <2>14. CASE Mouse(t)
    BY <2>14, Helpers DEF Mouse, setOsdMouse
  <2>15. CASE Unmute(t)
    <3>1. avmute' \in BOOLEAN
      BY <2>15 DEF Unmute
    <3> QED BY <2>15, <3>1 DEF Unmute
  <2> QED BY <1>1, <2>1, <2>2, <2>3, <2>4, <2>5, <2>6, <2>7, <2>8, <2>9, <2>10,
             <2>11, <2>12, <2>13, <2>14, <2>15 DEF setMboxOutputMode
<1>2. CASE setMboxDisplay
  BY <1>2 DEF setMboxDisplay, At, Places, Threads
<1>3. CASE startBootanimDetectThread
  BY <1>3 DEF startBootanimDetectThread, At, Places, Threads
<1>4. CASE bootanimDetect
  <2> USE DEF AnimAt
  <2>1. CASE animRead
    BY <2>1 DEF animRead
  <2>2. CASE animCloseLogo
    BY <2>2 DEF animCloseLogo
  <2>3. CASE animOpenOsd
    BY <2>3 DEF animOpenOsd
  <2>4. CASE animMouse
    BY <2>4, Helpers DEF animMouse, setOsdMouse
  <2>5. CASE setOverscan
    BY <2>5, Helpers DEF setOverscan
  <2> QED BY <1>4, <2>1, <2>2, <2>3, <2>4, <2>5 DEF bootanimDetect
<1>5. ASSUME NEW a \in Apps, Construct(a) PROVE TypeOK'
  BY <1>5 DEF Construct
<1>6. ASSUME NEW a \in Apps, shadowScreenEnds(a) PROVE TypeOK'
  BY <1>6, DisplayAssumption DEF shadowScreenEnds
<1>7. ASSUME NEW a \in Apps, saveNewModeProp(a) PROVE TypeOK'
  BY <1>7, DisplayAssumption DEF saveNewModeProp, At, Places, Threads
<1>8. ASSUME NEW a \in Apps, NEW m \in Modes, Ignore(a, m) PROVE TypeOK'
  BY <1>8, DisplayAssumption DEF Ignore
<1>9. ASSUME NEW a \in Apps, NEW m \in Modes, setOutputModeNowLocked(a, m) PROVE TypeOK'
  <2> USE DEF setOutputModeNowLocked
  <2>1. pc' \in [Threads -> Places] /\ pc'[Boot] \notin {"mute", "mouse", "unmute", "save"}
    BY <1>9, DisplayAssumption DEF At, Places, Threads
  <2>2. /\ requests' \in [Apps -> 0..MaxRequests] /\ shadow' \in [Apps -> Nat]
        /\ \A b \in Apps : shadow'[b] <= requests'[b]
    BY <1>9, DisplayAssumption
  <2>3. req' \in [Threads -> Modes] /\ cached' \in [Apps -> Modes \cup {Unread}]
    BY <1>9 DEF Threads
  <2>4. mixed' \in BOOLEAN
    BY <1>9
  <2> QED BY <1>9, <2>1, <2>2, <2>3, <2>4
<1>10. CASE setVideoPlaying
  BY <1>10 DEF setVideoPlaying
<1>11. CASE setNativeWindowRect
  BY <1>11, Helpers DEF setNativeWindowRect, NativeAxis
<1>12. CASE UNCHANGED vars
  BY <1>12 DEF vars
<1> QED BY <1>1, <1>2, <1>3, <1>4, <1>5, <1>6, <1>7, <1>8, <1>9, <1>10, <1>11, <1>12 DEF Next

\* Every register, counter and place keeps a value of its kind, and the polls
\* of hdcpAuthenticate stay within their limit.
THEOREM TypeCorrect == Spec => []TypeOK
BY TypeInit, TypeNext, PTL DEF Spec

-----------------------------------------------------------------------------

\* Only the write that opens the OSD takes a thread out of ToOpen, and the
\* write that closes it leaves the thread inside.
LEMMA OsdNext == TypeOK /\ OsdOwed /\ [Next]_vars => OsdOwed'
<1> SUFFICES ASSUME TypeOK, OsdOwed, [Next]_vars PROVE OsdOwed'
  OBVIOUS
<1> USE DEF threadVars, appVars, animVars, screenVars, pictureVars, otherVars
<1>0. /\ pc \in [Threads -> Places] /\ shadow \in [Apps -> Nat] /\ Apps \subseteq Threads
      /\ Boot \in Threads
  BY DEF TypeOK, Threads
<1>1. ASSUME NEW t \in Threads, setMboxOutputMode(t) PROVE OsdOwed'
  <2>1. CASE OpenOsd(t)
    BY <2>1 DEF OpenOsd, OsdOwed
  <2>2. CASE Mouse(t) \/ Unmute(t)
    BY <1>0, <2>2 DEF Mouse, Unmute, At, OsdOwed, ToOpen
  <2>3. CASE \/ CloseOsd(t) \/ Mute(t) \/ ReadPreMode(t) \/ WriteMode(t) \/ WriteWindow(t)
             \/ setVideoAxis(t) \/ setNativeWindow(t)
             \/ hdcpStart(t) \/ hdcpOk(t) \/ hdcpRetry(t) \/ hdcpFallBack(t) \/ hdcpStop(t)
    <3>1. pc'[t] \in ToOpen
      BY <1>0, <2>3 DEF CloseOsd, Mute, ReadPreMode, WriteMode, WriteWindow, setVideoAxis,
         setNativeWindow, hdcpStart, hdcpOk, hdcpRetry, hdcpFallBack, hdcpStop, hdcpReturn,
         At, ToOpen
    <3> QED BY <3>1 DEF OsdOwed
  <2> QED BY <1>1, <2>1, <2>2, <2>3 DEF setMboxOutputMode
<1>2. CASE setMboxDisplay
  <2>1. pc'[Boot] \in ToOpen
    BY <1>0, <1>2 DEF setMboxDisplay, At, ToOpen
  <2> QED BY <1>0, <2>1 DEF OsdOwed
<1>3. CASE startBootanimDetectThread
  BY <1>3 DEF startBootanimDetectThread, OsdOwed
<1>4. CASE bootanimDetect
  BY <1>4 DEF bootanimDetect, animRead, animCloseLogo, animOpenOsd, animMouse, setOverscan,
     AnimAt, OsdOwed
<1>5. ASSUME NEW a \in Apps, Construct(a) PROVE OsdOwed'
  BY <1>5 DEF Construct, OsdOwed
<1>6. ASSUME NEW a \in Apps, shadowScreenEnds(a) PROVE OsdOwed'
  BY <1>6 DEF shadowScreenEnds, OsdOwed
<1>7. ASSUME NEW a \in Apps, saveNewModeProp(a) PROVE OsdOwed'
  BY <1>0, <1>7 DEF saveNewModeProp, At, OsdOwed, ToOpen
<1>8. ASSUME NEW a \in Apps, NEW m \in Modes, Ignore(a, m) PROVE OsdOwed'
  BY <1>8 DEF Ignore, OsdOwed
<1>9. ASSUME NEW a \in Apps, NEW m \in Modes, setOutputModeNowLocked(a, m) PROVE OsdOwed'
  <2>1. pc'[a] \in ToOpen
    BY <1>0, <1>9 DEF setOutputModeNowLocked, At, ToOpen
  <2> QED BY <1>0, <2>1 DEF OsdOwed
<1>10. CASE setVideoPlaying
  BY <1>10 DEF setVideoPlaying, OsdOwed
<1>11. CASE setNativeWindowRect
  BY <1>11 DEF setNativeWindowRect, OsdOwed
<1>12. CASE UNCHANGED vars
  BY <1>12 DEF vars, OsdOwed
<1> QED BY <1>1, <1>2, <1>3, <1>4, <1>5, <1>6, <1>7, <1>8, <1>9, <1>10, <1>11, <1>12 DEF Next

\* Only Mute mutes, and it leaves its thread among those that unmute; only
\* Unmute takes a thread out of them.
LEMMA MuteNext == TypeOK /\ MuteOwed /\ [Next]_vars => MuteOwed'
<1> SUFFICES ASSUME TypeOK, MuteOwed, [Next]_vars PROVE MuteOwed'
  OBVIOUS
<1> USE DEF threadVars, appVars, animVars, screenVars, pictureVars, otherVars
<1>0. /\ pc \in [Threads -> Places] /\ pc[Boot] # "mute" /\ Apps \subseteq Threads
      /\ Threads = Apps \cup {Boot}
  BY DEF TypeOK, Threads
<1>1. ASSUME NEW t \in Threads, setMboxOutputMode(t) PROVE MuteOwed'
  <2>1. CASE Unmute(t)
    BY <2>1 DEF Unmute, MuteOwed
  <2>2. CASE Mute(t)
    <3>1. t \in Apps
      BY <1>0, <2>2 DEF Mute, At
    <3>2. pc'[t] \in Muted
      BY <1>0, <2>2 DEF Mute, At, Muted
    <3> QED BY <3>1, <3>2 DEF MuteOwed
  <2>3. CASE \/ CloseOsd(t) \/ ReadPreMode(t) \/ WriteMode(t) \/ WriteWindow(t)
             \/ setVideoAxis(t) \/ setNativeWindow(t)
             \/ hdcpStart(t) \/ hdcpOk(t) \/ hdcpRetry(t) \/ hdcpFallBack(t) \/ hdcpStop(t)
             \/ OpenOsd(t) \/ Mouse(t)
    <3>1. avmute' = avmute
      BY <2>3 DEF CloseOsd, ReadPreMode, WriteMode, WriteWindow, setVideoAxis,
         setNativeWindow, hdcpStart, hdcpOk, hdcpRetry, hdcpFallBack, hdcpStop, hdcpReturn,
         OpenOsd, Mouse
    <3>2. \A a \in Apps : pc[a] \in Muted => pc'[a] \in Muted
      BY <1>0, <2>3 DEF CloseOsd, ReadPreMode, WriteMode, WriteWindow, setVideoAxis,
         setNativeWindow, hdcpStart, hdcpOk, hdcpRetry, hdcpFallBack, hdcpStop, hdcpReturn,
         OpenOsd, Mouse, At, Muted
    <3> QED BY <3>1, <3>2 DEF MuteOwed
  <2> QED BY <1>1, <2>1, <2>2, <2>3 DEF setMboxOutputMode
<1>2. ASSUME avmute' = avmute, \A a \in Apps : pc[a] \in Muted => pc'[a] \in Muted
      PROVE MuteOwed'
  BY <1>2 DEF MuteOwed
<1>3. CASE setMboxDisplay \/ startBootanimDetectThread
  BY <1>0, <1>2, <1>3, DisplayAssumption DEF setMboxDisplay, startBootanimDetectThread, At
<1>4. CASE bootanimDetect
  BY <1>2, <1>4 DEF bootanimDetect, animRead, animCloseLogo, animOpenOsd, animMouse, setOverscan
<1>5. ASSUME NEW a \in Apps, Construct(a) \/ shadowScreenEnds(a) PROVE MuteOwed'
  BY <1>2, <1>5 DEF Construct, shadowScreenEnds
<1>6. ASSUME NEW a \in Apps, saveNewModeProp(a) PROVE MuteOwed'
  BY <1>0, <1>2, <1>6 DEF saveNewModeProp, At, Muted
<1>7. ASSUME NEW a \in Apps, NEW m \in Modes, Ignore(a, m) PROVE MuteOwed'
  BY <1>2, <1>7 DEF Ignore
<1>8. ASSUME NEW a \in Apps, NEW m \in Modes, setOutputModeNowLocked(a, m) PROVE MuteOwed'
  BY <1>0, <1>2, <1>8 DEF setOutputModeNowLocked, At, Muted
<1>9. CASE setVideoPlaying \/ setNativeWindowRect
  BY <1>2, <1>9 DEF setVideoPlaying, setNativeWindowRect
<1>10. CASE UNCHANGED vars
  BY <1>2, <1>10 DEF vars
<1> QED BY <1>1, <1>3, <1>4, <1>5, <1>6, <1>7, <1>8, <1>9, <1>10 DEF Next

\* Once every thread has returned nobody owes a write, so the OSD is open and
\* the output is not muted, whatever order the writes came in.
THEOREM ScreenComesBack == Spec => []ScreenReturns
<1>1. Init => IInv
  <2>1. Init => OsdOwed
    BY DEF Init, OsdOwed, ToOpen, Threads
  <2>2. Init => MuteOwed
    BY DEF Init, MuteOwed
  <2> QED BY <2>1, <2>2, TypeInit DEF IInv
<1>2. IInv /\ [Next]_vars => IInv'
  BY TypeNext, OsdNext, MuteNext DEF IInv
<1>3. IInv => ScreenReturns
  <2> SUFFICES ASSUME IInv, Quiet, \A a \in Apps : shadow[a] = 0
               PROVE ~avmute /\ (fb0 = "open" \/ bootvideo)
    BY DEF ScreenReturns
  <2>1. \A t \in Threads : pc[t] = "idle"
    BY DEF Quiet
  <2>2. anim \notin {"start", "logo", "open"}
    BY DEF IInv, TypeOK, Quiet, AnimBusy
  <2>3. ~avmute
    BY <2>1 DEF IInv, MuteOwed, Muted, Threads
  <2> QED BY <2>1, <2>2, <2>3 DEF IInv, OsdOwed, ToOpen
<1> QED BY <1>1, <1>2, <1>3, PTL DEF Spec

-----------------------------------------------------------------------------
(* Switches that do not overlap *)

\* The places at which the video is in the rectangle of the new mode.
Shown == {"native", "hdcp", "poll", "open", "mouse", "unmute", "save"}

\* Until the constructor returns nobody else is at work.
BootFirst ==
  pc[Boot] # "idle" =>
    /\ req[Boot] = saved /\ anim = "none"
    /\ \A a \in Apps : pc[a] = "idle" /\ cached[a] = Unread

\* One thread at a time, the boot animation included.
OneAtATime ==
  /\ \A t, u \in Threads : pc[t] # "idle" /\ pc[u] # "idle" => t = u
  /\ AnimBusy => \A t \in Threads : pc[t] = "idle"

OsdFits == osd = [at |-> Position(mode), halved |-> Halved(mode)]
EnvFits == mode \in CvbsModes \/ Written(saved) = mode

\* How far the switch of thread t has come, told by its place: which of the
\* registers are still those of the old mode and which are of the new one.
Stage(t) ==
  /\ pc[t] \in {"display", "close", "mute", "read", "mode"} => video = Position(mode)
  /\ pc[t] = "mode" => pre[t] = mode
  /\ pc[t] \in {"window", "video"} => video = Position(pre[t])
  /\ pc[t] \in Shown => video = Position(mode)
  /\ pc[t] \in Shown \cup {"window", "video"} => mode = Written(req[t])
  /\ pc[t] \in Shown \cup {"video"} => window.at = Position(mode)
  /\ pc[t] \in {"unmute", "save"} => OsdFits

\* The boot animation's thread works on the mode that Boot has left behind.
AnimStage ==
  AnimBusy =>
    /\ video = Position(mode) /\ window.at = Position(mode) /\ EnvFits
    /\ anim # "start" => animMode = mode
    /\ anim = "overscan" => OsdFits

Unmixed ==
  ~mixed => OneAtATime /\ AnimStage /\ \A t \in Threads : Stage(t)

SwitchInv == TypeOK /\ BootFirst /\ Unmixed /\ PictureFitsMode /\ SavedIsShown

LEMMA ModeHelpers ==
  /\ \A m \in Modes : Position(Written(m)) = Position(m)
  /\ \A m \in CvbsModes : Written(m) = m
BY DEF Position, Written, CvbsModes

LEMMA SwitchInit == Init => SwitchInv
<1> SUFFICES ASSUME Init PROVE SwitchInv
  OBVIOUS
<1>1. /\ pc = [t \in Threads |-> IF t = Boot THEN "display" ELSE "idle"]
      /\ Apps \subseteq Threads /\ Boot \in Threads /\ Boot \notin Apps
  BY DisplayAssumption DEF Init, Threads
<1>2. BootFirst
  BY <1>1 DEF Init, BootFirst
<1>3. ~AnimBusy /\ OneAtATime /\ AnimStage
  BY <1>1 DEF Init, OneAtATime, AnimBusy, AnimStage
<1>4. \A t \in Threads : Stage(t)
  BY <1>1 DEF Init, Stage, Shown
<1>5. ~Quiet
  BY <1>1 DEF Quiet
<1> QED BY <1>2, <1>3, <1>4, <1>5, TypeInit DEF SwitchInv, Unmixed, PictureFitsMode, SavedIsShown

\* A step inside setMboxOutputMode disturbs nothing but the stage of its own
\* thread: without an overlap the others are idle, and it is not.
LEMMA SwitchStep ==
  ASSUME SwitchInv, NEW t \in Threads, pc[t] # "idle",
         NEW to, to # "idle", pc' = [pc EXCEPT ![t] = to],
         UNCHANGED <<anim, cached, req, saved, mixed>>,
         ~mixed /\ Stage(t) => Stage(t)'
  PROVE  BootFirst' /\ Unmixed' /\ PictureFitsMode' /\ SavedIsShown'
<1>1. pc \in [Threads -> Places] /\ Threads = Apps \cup {Boot} /\ Boot \notin Apps
  BY DisplayAssumption DEF SwitchInv, TypeOK, Threads
<1>2. pc'[t] = to /\ \A u \in Threads \ {t} : pc'[u] = pc[u]
  BY <1>1
<1>3. BootFirst'
  BY <1>1, <1>2 DEF SwitchInv, BootFirst
<1>4. ~Quiet'
  BY <1>2 DEF Quiet
<1>5. Unmixed'
  <2> SUFFICES ASSUME ~mixed PROVE OneAtATime' /\ AnimStage' /\ \A u \in Threads : Stage(u)'
    BY DEF Unmixed
  <2>1. OneAtATime /\ Stage(t)
    BY DEF SwitchInv, Unmixed
  <2>2. ~AnimBusy /\ \A u \in Threads \ {t} : pc[u] = "idle"
    BY <2>1 DEF OneAtATime
  <2>3. ~AnimBusy' /\ \A u \in Threads \ {t} : pc'[u] = "idle"
    BY <1>2, <2>2 DEF AnimBusy
  <2>4. \A u \in Threads \ {t} : Stage(u)'
    BY <2>3 DEF Stage, Shown
  <2> QED BY <2>1, <2>3, <2>4 DEF OneAtATime, AnimStage
<1> QED BY <1>3, <1>4, <1>5 DEF PictureFitsMode, SavedIsShown

LEMMA SwitchMbox ==
  ASSUME SwitchInv, NEW t \in Threads, setMboxOutputMode(t)
  PROVE  BootFirst' /\ Unmixed' /\ PictureFitsMode' /\ SavedIsShown'
<1> USE DEF threadVars, appVars, animVars, screenVars, pictureVars, otherVars
<1>0. /\ pc \in [Threads -> Places] /\ req \in [Threads -> Modes]
      /\ pre \in [Threads -> Modes \cup {NoMode}] /\ mode \in Modes
      /\ \A u \in Threads : Position(Written(req[u])) = Position(req[u])
  BY ModeHelpers DEF SwitchInv, TypeOK
<1>1. CASE CloseOsd(t)
  <2>1. ~mixed /\ Stage(t) => Stage(t)'
    BY <1>0, <1>1 DEF CloseOsd, At, Stage, Shown
  <2> QED BY <1>1, <2>1, SwitchStep DEF CloseOsd, At
<1>2. CASE Mute(t)
  <2>1. ~mixed /\ Stage(t) => Stage(t)'
    BY <1>0, <1>2 DEF Mute, At, Stage, Shown
  <2> QED BY <1>2, <2>1, SwitchStep DEF Mute, At
<1>3. CASE ReadPreMode(t)
  <2>1. ~mixed /\ Stage(t) => Stage(t)'
    BY <1>0, <1>3 DEF ReadPreMode, At, Stage, Shown
  <2> QED BY <1>3, <2>1, SwitchStep DEF ReadPreMode, At
<1>4. CASE WriteMode(t)
  <2>1. ~mixed /\ Stage(t) => Stage(t)'
    BY <1>0, <1>4 DEF WriteMode, At, Stage, Shown
  <2> QED BY <1>4, <2>1, SwitchStep DEF WriteMode, At
<1>5. CASE WriteWindow(t)
  <2>1. ~mixed /\ Stage(t) => Stage(t)'
    BY <1>0, <1>5 DEF WriteWindow, At, Stage, Shown
  <2> QED BY <1>5, <2>1, SwitchStep DEF WriteWindow, At
<1>6. CASE setVideoAxis(t)
  <2>1. ~mixed /\ Stage(t) => Stage(t)'
    BY <1>0, <1>6 DEF setVideoAxis, At, Stage, Shown
  <2> QED BY <1>6, <2>1, SwitchStep DEF setVideoAxis, At
<1>7. CASE setNativeWindow(t)
  <2>1. ~mixed /\ Stage(t) => Stage(t)'
    BY <1>0, <1>7 DEF setNativeWindow, NativeAxis, At, Stage, Shown
  <2>2. PICK to \in {"open", "hdcp"} : pc' = [pc EXCEPT ![t] = to]
    BY <1>7 DEF setNativeWindow, At
  <2> QED BY <1>7, <2>1, <2>2, SwitchStep DEF setNativeWindow, At
<1>8. CASE hdcpStart(t)
  <2>1. PICK to \in {"open", "poll"} : pc' = [pc EXCEPT ![t] = to]
    BY <1>8 DEF hdcpStart, At
  <2>2. pc[t] = "hdcp" /\ UNCHANGED <<req, pre, appVars, animVars, screenVars, pictureVars, otherVars>>
    BY <1>8 DEF hdcpStart, At
  <2>3. ~mixed /\ Stage(t) => Stage(t)'
    BY <1>0, <2>1, <2>2 DEF Stage, Shown, OsdFits
  <2> QED BY <2>1, <2>2, <2>3, SwitchStep
<1>9. CASE hdcpReturn(t)
  <2>1. ~mixed /\ Stage(t) => Stage(t)'
    BY <1>0, <1>9 DEF hdcpReturn, At, Stage, Shown
  <2> QED BY <1>9, <2>1, SwitchStep DEF hdcpReturn, At
<1>10. CASE hdcpRetry(t) \/ hdcpFallBack(t)
  <2>1. /\ pc[t] = "poll" /\ pc' = [pc EXCEPT ![t] = "poll"]
        /\ UNCHANGED <<req, pre, appVars, animVars, screenVars, pictureVars, otherVars>>
    BY <1>0, <1>10 DEF hdcpRetry, hdcpFallBack
  <2>2. ~mixed /\ Stage(t) => Stage(t)'
    BY <1>0, <2>1 DEF Stage, Shown, OsdFits
  <2> QED BY <2>1, <2>2, SwitchStep
<1>11. CASE OpenOsd(t)
  <2>1. ~mixed /\ Stage(t) => Stage(t)'
    BY <1>0, <1>11 DEF OpenOsd, At, Stage, Shown
  <2> QED BY <1>11, <2>1, SwitchStep DEF OpenOsd, At
<1>12. CASE Mouse(t)
  <2>1. ~mixed /\ Stage(t) => Stage(t)'
    BY <1>0, <1>12 DEF Mouse, setOsdMouse, At, Stage, Shown, OsdFits
  <2> QED BY <1>12, <2>1, SwitchStep DEF Mouse, At
<1>13. CASE Unmute(t)
  <2>1. ~mixed /\ Stage(t) => Stage(t)'
    BY <1>0, <1>13 DEF Unmute, At, Stage, Shown, OsdFits
  <2> QED BY <1>13, <2>1, SwitchStep DEF Unmute, At
<1> QED BY <1>1, <1>2, <1>3, <1>4, <1>5, <1>6, <1>7, <1>8, <1>9, <1>10, <1>11, <1>12, <1>13
        DEF setMboxOutputMode, hdcpOk, hdcpStop

\* Steps that leave every place, and all that the stages speak of, alone.
LEMMA SwitchAside ==
  ASSUME SwitchInv, UNCHANGED <<pc, req, pre, anim, animMode, mode, window, osd, video, saved, mixed>>,
         pc[Boot] # "idle" => UNCHANGED cached
  PROVE  BootFirst' /\ Unmixed' /\ PictureFitsMode' /\ SavedIsShown'
<1>1. Quiet' = Quiet /\ AnimBusy' = AnimBusy /\ OsdFits' = OsdFits /\ EnvFits' = EnvFits
  BY DEF Quiet, AnimBusy, OsdFits, EnvFits
<1>2. BootFirst'
  BY DEF SwitchInv, BootFirst
<1>3. \A t \in Threads : Stage(t)' = Stage(t)
  BY <1>1 DEF Stage
<1>4. Unmixed'
  BY <1>1, <1>3 DEF SwitchInv, Unmixed, OneAtATime, AnimStage
<1> QED BY <1>1, <1>2, <1>4 DEF SwitchInv, PictureFitsMode, SavedIsShown

\* The start: the mode of the environment, and then the boot animation.
LEMMA SwitchBoot ==
  ASSUME SwitchInv, setMboxDisplay \/ startBootanimDetectThread
  PROVE  BootFirst' /\ Unmixed' /\ PictureFitsMode' /\ SavedIsShown'
<1> USE DEF threadVars, appVars, animVars, screenVars, pictureVars, otherVars
<1>0. /\ pc \in [Threads -> Places] /\ req \in [Threads -> Modes] /\ Boot \in Threads
      /\ Apps \subseteq Threads /\ Boot \notin Apps
  BY DisplayAssumption DEF SwitchInv, TypeOK, Threads
<1>1. CASE setMboxDisplay
  <2>1. req' = req /\ pc' = [pc EXCEPT ![Boot] = "close"]
    BY <1>0, <1>1 DEF setMboxDisplay, At, SwitchInv, BootFirst
  <2>2. ~mixed /\ Stage(Boot) => Stage(Boot)'
    BY <1>0, <1>1, <2>1 DEF setMboxDisplay, At, Stage, Shown
  <2> QED BY <1>0, <1>1, <2>1, <2>2, SwitchStep DEF setMboxDisplay, At
<1>2. CASE startBootanimDetectThread
  <2>1. pc'[Boot] = "idle" /\ \A a \in Apps : pc'[a] = "idle"
    BY <1>0, <1>2 DEF startBootanimDetectThread, At, SwitchInv, BootFirst
  <2>2. ~Quiet' /\ BootFirst'
    BY <1>2, <2>1 DEF startBootanimDetectThread, Quiet, AnimBusy, BootFirst
  <2>3. OneAtATime' /\ \A t \in Threads : Stage(t)'
    BY <2>1 DEF OneAtATime, Stage, Shown, Threads
  <2>4. ~mixed' => AnimStage'
    <3> SUFFICES ASSUME ~mixed' PROVE AnimStage'
      OBVIOUS
    <3>1. pc[Boot] = "open" /\ req[Boot] = saved
      BY <1>2 DEF startBootanimDetectThread, At, SwitchInv, BootFirst
    <3>2. Stage(Boot)
      BY <1>0, <1>2 DEF startBootanimDetectThread, SwitchInv, Unmixed
    <3>3. video = Position(mode) /\ window.at = Position(mode) /\ mode = Written(saved)
      BY <3>1, <3>2 DEF Stage, Shown
    <3> QED BY <1>2, <3>3 DEF startBootanimDetectThread, AnimStage, AnimBusy, EnvFits
  <2> QED BY <2>2, <2>3, <2>4 DEF Unmixed, PictureFitsMode, SavedIsShown
<1> QED BY <1>1, <1>2

\* The thread of the boot animation ends with every register in the mode
\* that it read, unless somebody has switched meanwhile.
LEMMA SwitchAnim ==
  ASSUME SwitchInv, bootanimDetect
  PROVE  BootFirst' /\ Unmixed' /\ PictureFitsMode' /\ SavedIsShown'
<1> USE DEF threadVars, appVars, animVars, screenVars, pictureVars, otherVars
<1>1. UNCHANGED <<pc, req, pre, cached, mode, video, saved, mixed>> /\ AnimBusy
  BY DEF bootanimDetect, animRead, animCloseLogo, animOpenOsd, animMouse, setOverscan, AnimAt, AnimBusy
<1>2. BootFirst'
  BY <1>1 DEF SwitchInv, BootFirst, AnimBusy
<1>3. ASSUME ~mixed
      PROVE  /\ OneAtATime' /\ AnimStage' /\ \A t \in Threads : Stage(t)'
             /\ ~AnimBusy' => OsdFits' /\ window.at' = Position(mode) /\ video = Position(mode) /\ EnvFits'
  <2>1. OneAtATime /\ AnimStage /\ \A t \in Threads : pc'[t] = "idle"
    BY <1>1, <1>3 DEF SwitchInv, Unmixed, OneAtATime
  <2>2. OneAtATime' /\ \A t \in Threads : Stage(t)'
    BY <2>1 DEF OneAtATime, Stage, Shown
  <2>3. EnvFits' = EnvFits /\ EnvFits /\ video = Position(mode) /\ window.at = Position(mode)
    BY <1>1, <2>1 DEF EnvFits, AnimStage
  <2>4. CASE animRead
    BY <1>1, <2>1, <2>2, <2>3, <2>4 DEF animRead, AnimAt, AnimStage, AnimBusy
  <2>5. CASE animCloseLogo \/ animOpenOsd
    BY <1>1, <2>1, <2>2, <2>3, <2>5 DEF animCloseLogo, animOpenOsd, AnimAt, AnimStage, AnimBusy
  <2>6. CASE animMouse
    <3>1. OsdFits' /\ anim' = "overscan" /\ animMode' = mode
      BY <1>1, <2>1, <2>6 DEF animMouse, setOsdMouse, AnimAt, AnimStage, AnimBusy, OsdFits
    <3> QED BY <1>1, <2>1, <2>2, <2>3, <2>6, <3>1 DEF animMouse, AnimStage, AnimBusy
  <2>7. CASE setOverscan
    <3>1. anim = "overscan" /\ anim' = "done" /\ animMode = mode /\ OsdFits
      BY <1>1, <2>1, <2>7 DEF setOverscan, AnimAt, AnimStage, AnimBusy
    <3>2. OsdFits' /\ window.at' = Position(mode)
      BY <1>1, <2>3, <2>7, <3>1 DEF setOverscan, OsdFits
    <3> QED BY <1>1, <2>2, <2>3, <3>1, <3>2 DEF AnimStage, AnimBusy
  <2> QED BY <2>4, <2>5, <2>6, <2>7 DEF bootanimDetect
<1>4. Unmixed'
  BY <1>1, <1>3 DEF Unmixed
<1>5. PictureFitsMode' /\ SavedIsShown'
  <2> SUFFICES ASSUME Quiet', ~mixed PROVE PictureFitsMode' /\ SavedIsShown'
    BY <1>1 DEF PictureFitsMode, SavedIsShown
  <2> QED BY <1>1, <1>3 DEF Quiet, OsdFits, EnvFits, PictureFitsMode, SavedIsShown
<1> QED BY <1>2, <1>4, <1>5

\* A request begins a switch; it counts as one without an overlap only when
\* nobody else is at work and the video is where the next scaling expects it.
LEMMA SwitchRequest ==
  ASSUME SwitchInv, NEW a \in Apps, NEW m \in Modes, setOutputModeNowLocked(a, m)
  PROVE  BootFirst' /\ Unmixed' /\ PictureFitsMode' /\ SavedIsShown'
<1> USE DEF threadVars, appVars, animVars, screenVars, pictureVars, otherVars
<1>1. /\ pc \in [Threads -> Places] /\ a \in Threads /\ Boot \in Threads /\ a # Boot
  BY DisplayAssumption DEF SwitchInv, TypeOK, Threads
<1>2. pc'[a] = "close" /\ \A t \in Threads \ {a} : pc'[t] = pc[t]
  BY <1>1 DEF setOutputModeNowLocked, At
<1>3. BootFirst'
  BY <1>1, <1>2 DEF setOutputModeNowLocked, SwitchInv, BootFirst
<1>4. ~Quiet'
  BY <1>1, <1>2 DEF Quiet
<1>5. Unmixed'
  <2> SUFFICES ASSUME ~mixed' PROVE OneAtATime' /\ AnimStage' /\ \A t \in Threads : Stage(t)'
    BY DEF Unmixed
  <2>1. Quiet /\ video = Position(mode)
    BY DEF setOutputModeNowLocked
  <2>2. ~AnimBusy' /\ \A t \in Threads \ {a} : pc'[t] = "idle"
    BY <1>2, <2>1 DEF setOutputModeNowLocked, Quiet, AnimBusy
  <2>3. \A t \in Threads \ {a} : Stage(t)'
    BY <2>2 DEF Stage, Shown
  <2>4. Stage(a)'
    BY <1>2, <2>1 DEF setOutputModeNowLocked, Stage, Shown
  <2> QED BY <2>2, <2>3, <2>4 DEF OneAtATime, AnimStage
<1> QED BY <1>3, <1>4, <1>5 DEF PictureFitsMode, SavedIsShown

\* The switch ends with the mode in the environment.
LEMMA SwitchSave ==
  ASSUME SwitchInv, NEW a \in Apps, saveNewModeProp(a)
  PROVE  BootFirst' /\ Unmixed' /\ PictureFitsMode' /\ SavedIsShown'
<1> USE DEF threadVars, appVars, animVars, screenVars, pictureVars, otherVars
<1>1. /\ pc \in [Threads -> Places] /\ a \in Threads /\ Boot \in Threads /\ a # Boot
  BY DisplayAssumption DEF SwitchInv, TypeOK, Threads
<1>2. pc[a] = "save" /\ pc'[a] = "idle" /\ \A t \in Threads \ {a} : pc'[t] = pc[t]
  BY <1>1 DEF saveNewModeProp, At
<1>3. UNCHANGED <<req, anim, cached, mode, video, window, osd, mixed>>
  BY DEF saveNewModeProp
<1>4. BootFirst'
  BY <1>1, <1>2, <1>3 DEF SwitchInv, BootFirst
<1>5. ASSUME ~mixed
      PROVE  /\ OneAtATime' /\ AnimStage' /\ \A t \in Threads : Stage(t)'
             /\ OsdFits /\ window.at = Position(mode) /\ video = Position(mode)
             /\ mode \notin CvbsModes => Written(saved') = mode
  <2>1. OneAtATime /\ Stage(a)
    BY <1>1, <1>5 DEF SwitchInv, Unmixed
  <2>2. ~AnimBusy' /\ \A t \in Threads : pc'[t] = "idle"
    BY <1>1, <1>2, <1>3, <2>1 DEF OneAtATime, AnimBusy
  <2>3. OneAtATime' /\ AnimStage' /\ \A t \in Threads : Stage(t)'
    BY <2>2 DEF OneAtATime, AnimStage, Stage, Shown
  <2>4. mode = Written(req[a]) /\ OsdFits /\ window.at = Position(mode) /\ video = Position(mode)
    BY <1>2, <2>1 DEF Stage, Shown
  <2>5. mode \notin CvbsModes => Written(saved') = mode
    BY <2>4, ModeHelpers DEF saveNewModeProp
  <2> QED BY <2>3, <2>4, <2>5
<1>6. Unmixed'
  BY <1>3, <1>5 DEF Unmixed
<1> QED BY <1>3, <1>4, <1>5, <1>6 DEF OsdFits, PictureFitsMode, SavedIsShown

\* The player's rectangle is scaled for the mode that it reads: beside a
\* switch this counts as an overlap.
LEMMA SwitchNative ==
  ASSUME SwitchInv, setNativeWindowRect
  PROVE  BootFirst' /\ Unmixed' /\ PictureFitsMode' /\ SavedIsShown'
<1> USE DEF threadVars, appVars, animVars, screenVars, pictureVars, otherVars
<1>1. UNCHANGED <<pc, req, pre, anim, animMode, cached, mode, window, osd, saved>>
  BY DEF setNativeWindowRect
<1>2. video' = Position(mode) /\ (~mixed' => Quiet /\ ~mixed)
  BY DEF setNativeWindowRect, NativeAxis
<1>3. BootFirst'
  BY <1>1 DEF SwitchInv, BootFirst
<1>4. Quiet' = Quiet /\ (Quiet => ~AnimBusy' /\ \A t \in Threads : pc'[t] = "idle")
  BY <1>1 DEF Quiet, AnimBusy
<1>5. Unmixed'
  BY <1>2, <1>4 DEF Unmixed, OneAtATime, AnimStage, Stage, Shown
<1> QED BY <1>1, <1>2, <1>3, <1>4, <1>5 DEF SwitchInv, PictureFitsMode, SavedIsShown

LEMMA SwitchNext == SwitchInv /\ [Next]_vars => SwitchInv'
<1> SUFFICES ASSUME SwitchInv, [Next]_vars
             PROVE  BootFirst' /\ Unmixed' /\ PictureFitsMode' /\ SavedIsShown'
  BY TypeNext DEF SwitchInv
<1> USE DEF threadVars, appVars, animVars, screenVars, pictureVars, otherVars
<1>1. ASSUME NEW t \in Threads, setMboxOutputMode(t)
      PROVE  BootFirst' /\ Unmixed' /\ PictureFitsMode' /\ SavedIsShown'
  BY <1>1, SwitchMbox
<1>2. ASSUME NEW a \in Apps, NEW m \in Modes, setOutputModeNowLocked(a, m)
      PROVE  BootFirst' /\ Unmixed' /\ PictureFitsMode' /\ SavedIsShown'
  BY <1>2, SwitchRequest
<1>3. ASSUME NEW a \in Apps, saveNewModeProp(a)
      PROVE  BootFirst' /\ Unmixed' /\ PictureFitsMode' /\ SavedIsShown'
  BY <1>3, SwitchSave
<1>4. ASSUME NEW a \in Apps, Construct(a)
      PROVE  BootFirst' /\ Unmixed' /\ PictureFitsMode' /\ SavedIsShown'
  BY <1>4, SwitchAside DEF Construct, Service
<1>5. ASSUME NEW a \in Apps, shadowScreenEnds(a) \/ \E m \in Modes : Ignore(a, m)
      PROVE  BootFirst' /\ Unmixed' /\ PictureFitsMode' /\ SavedIsShown'
  BY <1>5, SwitchAside DEF shadowScreenEnds, Ignore
<1>6. CASE setVideoPlaying \/ UNCHANGED vars
  BY <1>6, SwitchAside DEF setVideoPlaying, vars
<1> QED BY <1>1, <1>2, <1>3, <1>4, <1>5, <1>6, SwitchBoot, SwitchAnim, SwitchNative DEF Next

LEMMA SwitchInvariant == Spec => []SwitchInv
BY SwitchInit, SwitchNext, PTL DEF Spec

\* Switches that did not overlap leave window, mouse layer and video in the
\* rectangle of the mode: every write of setMboxOutputMode takes its value
\* from the right side of the write of the mode.
THEOREM PictureFits == Spec => []PictureFitsMode
<1>1. SwitchInv => PictureFitsMode
  BY DEF SwitchInv
<1> QED BY <1>1, SwitchInvariant, PTL

\* They leave the environment with the mode that the next start is to show.
THEOREM SavedModeIsShown == Spec => []SavedIsShown
<1>1. SwitchInv => SavedIsShown
  BY DEF SwitchInv
<1> QED BY <1>1, SwitchInvariant, PTL
=============================================================================
