--------------------------- MODULE DisplayWindow ---------------------------
(***************************************************************************)
(* The numbers of the display.  The picture of a mode is a rectangle in    *)
(* the environment that the user zooms (DisplayPositionManager.java,       *)
(* setPosition and getPosition of DisplayMode.cpp); the video is a window  *)
(* in it that setVideoAxis carries from mode to mode.  When the steps of a *)
(* switch happen is in DisplaySwitch; here a switch is one step, and the   *)
(* user does not switch the mode while the page that zooms is open.        *)
(***************************************************************************)
EXTENDS Integers

CONSTANTS
  WindowModes,   \* the modes in use
  Windows,       \* the places where the player puts the video
  Percents,      \* the zooms that the user reaches (a bound)
  MaxChanges,    \* how often the user zooms and the player moves (a bound)
  Grain          \* the register of the axis keeps multiples of it

\* The modes of a television, and those of a monitor, which have one size
\* each (custombuilt, whose size is in the environment, is left out).
TvModes == {"480i60hz", "480cvbs", "480p60hz", "576i50hz", "576cvbs", "576p50hz",
            "720p60hz", "720p50hz", "1080i60hz", "1080i50hz", "1080p60hz", "1080p50hz",
            "1080p24hz", "2160p24hz", "2160p25hz", "2160p30hz", "2160p50hz",
            "2160p50hz420", "2160p60hz", "2160p60hz420", "smpte24hz"}
PcSizes == {<<"480x320p60hz", 480, 320>>, <<"640x480p60hz", 640, 480>>,
            <<"800x600p60hz", 800, 600>>, <<"800x480p60hz", 800, 480>>,
            <<"1024x600p60hz", 1024, 600>>, <<"1024x768p60hz", 1024, 768>>,
            <<"1280x800p60hz", 1280, 800>>, <<"1280x1024p60hz", 1280, 1024>>,
            <<"1360x768p60hz", 1360, 768>>, <<"1366x768p60hz", 1366, 768>>,
            <<"1440x900p60hz", 1440, 900>>, <<"1600x900p60hz", 1600, 900>>,
            <<"1600x1200p60hz", 1600, 1200>>, <<"1680x1050p60hz", 1680, 1050>>,
            <<"1920x1200p60hz", 1920, 1200>>, <<"2560x1440p60hz", 2560, 1440>>,
            <<"2560x1600p60hz", 2560, 1600>>, <<"2560x1080p60hz", 2560, 1080>>,
            <<"3440x1440p60hz", 3440, 1440>>}
PcModes == {row[1] : row \in PcSizes}

\* The four variables of a mode; a monitor has none.
Key(m) ==
  CASE m \in {"480i60hz", "480cvbs"} -> "480i"
    [] m \in {"576i50hz", "576cvbs"} -> "576i"
    [] m \in {"720p60hz", "720p50hz"} -> "720p"
    [] m \in {"1080i60hz", "1080i50hz"} -> "1080i"
    [] m \in {"1080p60hz", "1080p50hz", "1080p24hz"} -> "1080p"
    [] m \in {"2160p50hz", "2160p50hz420"} -> "2160p50hz"
    [] m \in {"2160p60hz", "2160p60hz420"} -> "2160p60hz"
    [] m \in PcModes -> "none"
    [] OTHER -> m

Wide(w, h) == [w |-> w, h |-> h]

TvSize(m) ==
  CASE m \in {"480i60hz", "480cvbs", "480p60hz"} -> Wide(720, 480)
    [] m \in {"576i50hz", "576cvbs", "576p50hz"} -> Wide(720, 576)
    [] Key(m) = "720p" -> Wide(1280, 720)
    [] Key(m) \in {"1080i", "1080p"} -> Wide(1920, 1080)
    [] m = "smpte24hz" -> Wide(4096, 2160)
    [] OTHER -> Wide(3840, 2160)

PcSize(m) == LET row == CHOOSE r \in PcSizes : r[1] = m IN Wide(row[2], row[3])

Size(m) == IF m \in TvModes THEN TvSize(m) ELSE PcSize(m)

\* initStep takes the name of a monitor's mode for that of a television when
\* it finds "480" or "1080" in it, and 1080p otherwise.
Step(m) ==
  IF m \in TvModes THEN TvSize(m)
  ELSE IF m \in {"480x320p60hz", "640x480p60hz", "800x480p60hz"} THEN Wide(720, 480)
  ELSE Wide(1920, 1080)

MaxRight(m) == Step(m).w - 1
MaxBottom(m) == Step(m).h - 1

\* The picture that the applications draw, all the time that the service runs,
\* when it was started in mode m: larger ones would be too slow.
Display(m) ==
  CASE m \in TvModes /\ TvSize(m).w > 1920 -> Wide(1920, 1080)
    [] m = "3440x1440p60hz"                -> Wide(2560, 1080)
    [] OTHER                               -> Size(m)

Keys == {Key(m) : m \in WindowModes} \ {"none"}
Rect == [x : Int, y : Int, w : Int, h : Int]

ASSUME WindowAssumption ==
  /\ WindowModes \subseteq TvModes \cup PcModes
  /\ Windows \subseteq Rect
  /\ Percents \subseteq 80 .. 100
  /\ MaxChanges \in Nat
  /\ Grain \in {1, 2}

VARIABLES
  mDisplay,      \* mDisplayWidth and mDisplayHeight
  dwMode,        \* the output mode
  env,           \* the position saved for each key
  page,          \* "closed", or the mode in which DisplayPositionManager was made
  screen_rate,   \* what it shows
  axis,          \* the register of the video window
  mVideoAxisMap,
  changes,       \* counts up to MaxChanges
  \* history
  zoomed,        \* the percentage last saved for each key
  home           \* where the window was in each mode since somebody moved it,
                 \* as long as it is on the screen

dwVars == <<mDisplay, dwMode, env, page, screen_rate, axis, mVideoAxisMap, changes, zoomed, home>>

Change == changes < MaxChanges /\ changes' = changes + 1

Nowhere == [m \in {} |-> 0]

Full(m) == [x |-> 0, y |-> 0, w |-> Size(m).w, h |-> Size(m).h]

getPosition(m) == IF Key(m) = "none" THEN Full(m) ELSE env[Key(m)]

DwInit ==
  /\ dwMode \in WindowModes
  /\ mDisplay = Display(dwMode)
  /\ env = [k \in Keys |-> Full(CHOOSE m \in WindowModes : Key(m) = k)]
  /\ page = "closed" /\ screen_rate = 100
  /\ axis = Full(dwMode)
  /\ mVideoAxisMap = Nowhere /\ changes = 0
  /\ zoomed = [k \in Keys |-> 100]
  /\ home = Nowhere

-----------------------------------------------------------------------------
(* The video window                                                        *)

\* std::round of n / d, for d > 0.
Rounded(n, d) == IF n >= 0 THEN (2 * n + d) \div (2 * d) ELSE -((d - 2 * n) \div (2 * d))

calcVideoAxis(pre, pos, a) ==
  [x |-> Rounded((a.x - pre.x) * pos.w, pre.w) + pos.x,
   y |-> Rounded((a.y - pre.y) * pos.h, pre.h) + pos.y,
   w |-> Rounded(a.w * pos.w, pre.w),
   h |-> Rounded(a.h * pos.h, pre.h)]

axisEqual(v1, v2) == v2 \in (v1 - 1) .. (v1 + 1)
axisValid(a) == a.x >= 0 /\ a.y >= 0 /\ a.w > 0 /\ a.h > 0
checkAxisSame(a, b) ==
  /\ axisValid(a) /\ axisValid(b)
  /\ axisEqual(a.x, b.x) /\ axisEqual(a.y, b.y) /\ axisEqual(a.w, b.w) /\ axisEqual(a.h, b.h)

\* External: the driver stores the edges in its grain.
Stored(a) == [x |-> (a.x \div Grain) * Grain, y |-> (a.y \div Grain) * Grain,
              w |-> (a.w \div Grain) * Grain, h |-> (a.h \div Grain) * Grain]

Set(f, m, a) == [n \in (DOMAIN f) \cup {m} |-> IF n = m THEN a ELSE f[n]]

\* An empty window, or one that covers the picture.
FillsPicture(a, pos) ==
  \/ a.x = 0 /\ a.y = 0 /\ a.w \in {0, -1} /\ a.h = a.w
  \/ a.x <= pos.x /\ a.y <= pos.y /\ a.w >= pos.w /\ a.h >= pos.h

\* Mutant: where the window was in the other mode is computed each time.
setVideoAxisComputed(pre, m) ==
  IF FillsPicture(axis, getPosition(pre))
  THEN axis' = Stored(getPosition(m)) /\ UNCHANGED mVideoAxisMap
  ELSE /\ mVideoAxisMap' = Set(mVideoAxisMap, pre, axis)
       /\ axis' = Stored(calcVideoAxis(getPosition(pre), getPosition(m), axis))

\* The window of the new mode is computed once and then remembered, unless
\* somebody has moved the window since.
setVideoAxis(pre, m) ==
  LET computed == calcVideoAxis(getPosition(pre), getPosition(m), axis)
      known == pre \in DOMAIN mVideoAxisMap /\ checkAxisSame(mVideoAxisMap[pre], axis)
      noted == Set(IF known THEN mVideoAxisMap ELSE Nowhere, pre, axis)
  IN IF FillsPicture(axis, getPosition(pre))
     THEN axis' = Stored(getPosition(m)) /\ UNCHANGED mVideoAxisMap
     ELSE /\ mVideoAxisMap' = IF known /\ m \in DOMAIN noted THEN noted
                              ELSE Set(noted, m, computed)
          /\ axis' = Stored(mVideoAxisMap'[m])

SwitchMode(m) ==
  /\ page = "closed" /\ m # dwMode
  /\ dwMode' = m
  /\ setVideoAxis(dwMode, m)
  /\ home' = IF FillsPicture(axis, getPosition(dwMode)) \/ ~axisValid(axis') THEN Nowhere
             ELSE LET left == IF dwMode \in DOMAIN home THEN home ELSE Set(home, dwMode, axis)
                  IN IF m \in DOMAIN left THEN left ELSE Set(left, m, axis')
  /\ UNCHANGED <<mDisplay, env, page, screen_rate, changes, zoomed>>

\* setNativeWindowRect, while a video plays: the player draws on a picture of
\* its own size.  The products are cut off.
setNativeWindow(r) ==
  LET pos == getPosition(dwMode)
  IN /\ Change
     /\ axis' = Stored([x |-> pos.x + (r.x * pos.w) \div mDisplay.w,
                        y |-> pos.y + (r.y * pos.h) \div mDisplay.h,
                        w |-> (r.w * pos.w) \div mDisplay.w,
                        h |-> (r.h * pos.h) \div mDisplay.h])
     /\ home' = Nowhere
     /\ UNCHANGED <<mDisplay, dwMode, env, page, screen_rate, mVideoAxisMap, zoomed>>

-----------------------------------------------------------------------------
(* The page that zooms                                                     *)

\* getInitialRateValue
InitialRate(left, maxRight) == IF left = 0 THEN 100 ELSE 100 - (400 * left) \div (maxRight + 1) - 1

initPostion ==
  /\ page = "closed"
  /\ page' = dwMode
  /\ screen_rate' = InitialRate(getPosition(dwMode).x, MaxRight(dwMode))
  /\ UNCHANGED <<mDisplay, dwMode, env, axis, mVideoAxisMap, changes, zoomed, home>>

\* setPosition of the service: a mode without variables is passed over.
\* (The chip meson8, where it writes the axis as well, is left out.)
setPosition(r) == env' = [k \in Keys |-> IF k = Key(dwMode) THEN r ELSE env[k]]

\* The offset of percent: 20 percent of the screen is a quarter of it here.
Offset(percent, max) == ((100 - percent) * max) \div 400

\* Mutant: the width is that of the right edge.
ZoomedWide(percent, m) ==
  [x |-> Offset(percent, MaxRight(m)), y |-> Offset(percent, MaxBottom(m)),
   w |-> MaxRight(m) - Offset(percent, MaxRight(m)) + 1,
   h |-> MaxBottom(m) - Offset(percent, MaxBottom(m)) + 1]

Zoomed(percent, m) ==
  LET left == Offset(percent, MaxRight(m))
      top == Offset(percent, MaxBottom(m))
  IN [x |-> left, y |-> top, w |-> MaxRight(m) - 2 * left + 1, h |-> MaxBottom(m) - 2 * top + 1]

\* zoomIn and zoomOut end in it as well; whatever was set is saved at once.
zoomByPercent(percent) ==
  /\ page # "closed" /\ Change
  /\ screen_rate' = percent
  /\ setPosition(Zoomed(percent, page))
  /\ zoomed' = [k \in Keys |-> IF k = Key(dwMode) THEN percent ELSE zoomed[k]]
  /\ home' = Nowhere
  /\ UNCHANGED <<mDisplay, dwMode, page, axis, mVideoAxisMap>>

zoom(step) ==
  \E rate \in Percents :
    /\ rate = IF screen_rate + step > 100 THEN 100
              ELSE IF screen_rate + step < 80 THEN 80 ELSE screen_rate + step
    /\ zoomByPercent(rate)

\* saveDisplayPosition saves what zoomByPercent has saved already.
CloseZoom ==
  /\ page # "closed"
  /\ page' = "closed"
  /\ UNCHANGED <<mDisplay, dwMode, env, screen_rate, axis, mVideoAxisMap, changes, zoomed, home>>

DwNext ==
  \/ \E m \in WindowModes : SwitchMode(m)
  \/ \E r \in Windows : setNativeWindow(r)
  \/ initPostion \/ zoom(1) \/ zoom(-1) \/ CloseZoom
  \/ \E p \in Percents : zoomByPercent(p)

DwSpec == DwInit /\ [][DwNext]_dwVars

-----------------------------------------------------------------------------
(* Properties                                                              *)

DwTypeOK ==
  /\ dwMode \in WindowModes
  /\ mDisplay \in {Display(m) : m \in WindowModes}
  /\ env \in [Keys -> Rect]
  /\ page \in WindowModes \cup {"closed"}
  /\ screen_rate \in 80 .. 100
  /\ axis \in Rect
  /\ DOMAIN mVideoAxisMap \subseteq WindowModes
  /\ \A m \in DOMAIN mVideoAxisMap : mVideoAxisMap[m] \in Rect
  /\ zoomed \in [Keys -> 80 .. 100]
  /\ DOMAIN home \subseteq WindowModes

\* When the output goes from mode to mode and back, as often as it likes, the
\* video is where it was before, give or take the pixel that the code allows:
\* the roundings do not add up.  A window that a rounding has put outside the
\* screen is forgotten (checkAxisSame in setVideoAxis).
WindowReturns == dwMode \in DOMAIN home => checkAxisSame(home[dwMode], axis)

\* The page shows the percentage that was set, although only the rectangle is
\* saved, and the rectangle is inside the picture and centred.
ZoomKept ==
  \A m \in WindowModes : Key(m) # "none" =>
    LET r == env[Key(m)] IN
      /\ InitialRate(r.x, MaxRight(m)) = zoomed[Key(m)]
      /\ r.x >= 0 /\ r.y >= 0
      /\ r.w = Size(m).w - 2 * r.x /\ r.h = Size(m).h - 2 * r.y
=============================================================================
