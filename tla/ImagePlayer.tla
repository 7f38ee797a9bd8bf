---------------------------- MODULE ImagePlayer ----------------------------
(***************************************************************************)
(* services/imageplayer: the service that decodes pictures and puts them   *)
(* on the video layer, its binder interface, and the proxy an application  *)
(* uses (ImagePlayerManager.java).                                         *)
(*                                                                         *)
(* A still picture is rendered and posted by the thread of the call.  A    *)
(* GIF is a movie: MovieThread draws a frame of it every 500 ms until it   *)
(* is stopped.  The calls of the one application come one after the other  *)
(* (transact waits for the reply), so mLock is always free; MovieThread    *)
(* runs beside them and does not take it.                                  *)
(*                                                                         *)
(* A bitmap is what became of a file: whether it was turned, how it was    *)
(* scaled, and what was lost on the way.  Scales are powers of two and are *)
(* given by their exponent.  How a movie is turned and scaled is left out. *)
(***************************************************************************)
EXTENDS Integers

CONSTANTS
  NULL,       \* no object, no file, a black screen
  Files,      \* the kinds of files the application asks for
  Factors,    \* exponents of the scales, up and down, that it asks for
  MaxUp,      \* exponent of the largest scale scaleStep accepts (16.0f)
  Halvings,   \* so often halved, no pixel is left of a picture
  MaxZoom     \* bound: the exponent of mScalingStep

\* photo and tiff decode to a still, gif to a movie; the last three do not:
\* a broken GIF, a broken photo, a photo larger than MAX_PIC_SIZE.
Kinds == {"photo", "tiff", "gif", "badgif", "bad", "big"}

ASSUME ImageAssumption ==
  /\ Files \subseteq Kinds
  /\ Factors \subseteq Nat
  /\ MaxUp \in Nat /\ MaxZoom \in Nat
  /\ Halvings \in Nat \ {0}

Bitmaps == [of : Kinds, turned : BOOLEAN, step : Int, view : Int, detail : Int]

Scales == Factors \cup {-d : d \in Factors}

\* The calls that wait for MovieThread, what MovieThread does while it runs,
\* and the addresses of movies.
Waiting == {"MovieInit", "show", "showBuf", "release"}
Rounds == {"asleep", "drawing", "rendered"}
Movies == {1, 2}

ASSUME NullAssumption ==
  /\ NULL \notin Bitmaps
  /\ NULL \notin Kinds \cup Waiting \cup Rounds \cup {"new"}
  /\ NULL \notin Movies

VARIABLES
  \* the application
  manager,        \* its ImagePlayerManager: "none", "bound", "dead" (no service behind it)
  \* the service: the call it is in
  call,           \* "idle", "stop", what follows the stop, or "post"
  next,           \* the call to go on with when MovieThread has stopped
  file,           \* the file that MovieInit was called with
  \* the service: its members
  alive,
  mImageUrl, mMovieImage,
  tooLarge,       \* mWidth or mHeight is above MAX_PIC_SIZE
  mBitmap, mBufBitmap,
  mRotateBitmap, mScalingBitmap, mScalingDirect, mScalingStep,
  mSkMovie,
  mDisplayFd,     \* is it open?
  mMovieThread,   \* NULL, "new" (not running), or what the thread is doing
  mExitPending,
  uses,           \* the SkMovie that the thread is drawing
  \* the device of the picture decoder
  back, front,    \* the file whose frame was rendered last, and is on the screen
  \* history
  asked           \* the file whose still the last call put on the screen

image == <<mImageUrl, mMovieImage, tooLarge>>
bitmaps == <<mBitmap, mBufBitmap>>
zoom == <<mRotateBitmap, mScalingBitmap, mScalingDirect, mScalingStep>>
movie == <<mMovieThread, mExitPending, uses>>
screen == <<back, front>>
process == <<manager, alive>>
progress == <<call, next, file>>
imgVars == <<process, progress, image, bitmaps, zoom, mSkMovie, mDisplayFd,
             movie, screen, asked>>

ImgInit ==
  /\ manager = "none" /\ alive = TRUE
  /\ call = "idle" /\ next = NULL /\ file = NULL
  /\ mImageUrl = NULL /\ mMovieImage = FALSE /\ tooLarge = FALSE
  /\ mBitmap = NULL /\ mBufBitmap = NULL
  /\ mRotateBitmap = NULL /\ mScalingBitmap = NULL
  /\ mScalingDirect = "SCALE_NORMAL" /\ mScalingStep = 0
  /\ mSkMovie = NULL /\ mDisplayFd = FALSE
  /\ mMovieThread = NULL /\ mExitPending = FALSE /\ uses = NULL
  /\ back = NULL /\ front = NULL
  /\ asked = NULL

-----------------------------------------------------------------------------
(* Bitmaps                                                                 *)

Larger(a, b) == IF a > b THEN a ELSE b
Smaller(a, b) == IF a < b THEN a ELSE b

\* view: the largest scale at which it was cropped to the surface;
\* detail: the smallest scale it went through.
Decoded(f) == [of |-> f, turned |-> FALSE, step |-> 0, view |-> 0, detail |-> 0]

rotate(b) == [b EXCEPT !.turned = TRUE]

scaleAndCrop(b, d) ==
  IF b = NULL THEN NULL
  ELSE [of |-> b.of, turned |-> b.turned, step |-> b.step + d,
        view |-> Larger(b.view, b.step + d), detail |-> Smaller(b.detail, b.step + d)]

\* At most 16 times, in steps of two, which comes to the same.
scaleStep(b, k) == IF k > MaxUp THEN NULL ELSE scaleAndCrop(b, k)

\* scale() returns NULL for a picture of no pixels.
Vanishes(b) == b # NULL /\ b.step <= -Halvings

\* decode and decodeTiff.  A picture that is too large may not fit in memory.
Decodings(f) ==
  CASE f \in {"photo", "tiff"} -> {Decoded(f)}
    [] f = "big"               -> {Decoded(f), NULL}
    [] OTHER                   -> {NULL}

IsMovie(f) == f \in {"gif", "badgif"}

-----------------------------------------------------------------------------
(* Steps that calls share                                                  *)

\* A call comes in: the application waits for the reply of the one before.
Called == manager = "bound" /\ call = "idle"

Return == call' = "idle" /\ UNCHANGED <<next, file>>

Running == mMovieThread \in Rounds

\* The process is gone, and with it everything but the screen.
Dies ==
  /\ alive' = FALSE
  /\ manager' = IF manager = "bound" THEN "dead" ELSE manager
  /\ call' = "idle" /\ next' = NULL /\ file' = NULL
  /\ mImageUrl' = NULL /\ mMovieImage' = FALSE /\ tooLarge' = FALSE
  /\ mBitmap' = NULL /\ mBufBitmap' = NULL
  /\ mRotateBitmap' = NULL /\ mScalingBitmap' = NULL
  /\ mScalingDirect' = "SCALE_NORMAL" /\ mScalingStep' = 0
  /\ mSkMovie' = NULL /\ mDisplayFd' = FALSE
  /\ mMovieThread' = NULL /\ mExitPending' = FALSE /\ uses' = NULL
  /\ asked' = NULL
  /\ UNCHANGED screen

\* Mutant: what the call wanted is lost while it waits.
MovieThreadForget(l) ==
  /\ mMovieThread # NULL
  /\ mExitPending' = Running
  /\ call' = "stop" /\ next' = NULL
  /\ UNCHANGED <<mMovieThread, uses>>

\* Mutant: the thread is asked to exit, but not waited for.
MovieThreadNotWaited(l) ==
  /\ mMovieThread # NULL
  /\ mExitPending' = Running
  /\ call' = l /\ next' = NULL
  /\ UNCHANGED <<mMovieThread, uses>>

\* requestExitAndWait, if the thread runs; the call goes on with l.
MovieThreadStop(l) ==
  /\ mMovieThread # NULL
  /\ mExitPending' = Running
  /\ call' = "stop" /\ next' = l
  /\ UNCHANGED <<mMovieThread, uses>>

\* run() refuses to start a thread that runs.
MovieThreadStart ==
  /\ mMovieThread # NULL
  /\ IF Running
     THEN UNCHANGED movie
     ELSE mMovieThread' = "asleep" /\ mExitPending' = FALSE /\ UNCHANGED uses
  /\ asked' = NULL
  /\ Return

resetRotateScale ==
  /\ mRotateBitmap' = NULL /\ mScalingBitmap' = NULL
  /\ mScalingDirect' = "SCALE_NORMAL" /\ mScalingStep' = 0

\* render: nothing happens without a bitmap or an open device.  Of a frame only
\* the file it comes from is kept.
render(b) == back' = IF b # NULL /\ mDisplayFd THEN b.of ELSE back

\* renderAndShow up to the post.
renderAndShow(b) ==
  /\ render(b)
  /\ call' = "post"
  /\ UNCHANGED <<next, file, front>>

-----------------------------------------------------------------------------
(* The calls                                                               *)

\* new ImagePlayerManager: getService, and init, whose result is not looked
\* at.  If the device cannot be opened there is no MovieThread.
init ==
  /\ manager = "none"
  /\ IF alive
     THEN /\ manager' = "bound"
          /\ \/ /\ mDisplayFd' = TRUE /\ mMovieThread' = "new"
                /\ back' = NULL /\ front' = NULL
             \/ UNCHANGED <<mDisplayFd, mMovieThread, screen>>
     ELSE /\ manager' = "dead"
          /\ UNCHANGED <<mDisplayFd, mMovieThread, screen>>
  /\ asked' = NULL
  /\ UNCHANGED <<alive, progress, image, bitmaps, zoom, mSkMovie, mExitPending, uses>>

\* The size is only known of a file that SkImageDecoder can read.
setDataSource(f) ==
  /\ Called
  /\ mImageUrl' = f
  /\ mBitmap' = NULL
  /\ tooLarge' = IF f \in {"photo", "gif", "big"} THEN f = "big" ELSE tooLarge
  /\ UNCHANGED <<process, progress, mMovieImage, mBufBitmap, zoom, mSkMovie, mDisplayFd,
                 movie, screen, asked>>

\* prepare returns at once without a file or with one that is too large.
Prepares == Called /\ mImageUrl # NULL /\ ~tooLarge

prepareMovie ==
  /\ Prepares /\ IsMovie(mImageUrl)
  /\ mBitmap' = NULL
  /\ mMovieImage' = TRUE
  /\ file' = mImageUrl
  /\ MovieThreadStop("MovieInit")
  /\ UNCHANGED <<process, mImageUrl, tooLarge, mBufBitmap, zoom, mSkMovie, mDisplayFd,
                 screen, asked>>

\* A movie that is being shown goes on.
prepareStill ==
  /\ Prepares /\ ~IsMovie(mImageUrl)
  /\ mMovieImage' = FALSE
  /\ mBitmap' \in Decodings(mImageUrl)
  /\ tooLarge' = (mBitmap' # NULL /\ mImageUrl = "big")
  /\ IF mBitmap' # NULL /\ mDisplayFd
     THEN resetRotateScale /\ render(mBitmap') /\ UNCHANGED front
     ELSE UNCHANGED <<zoom, screen>>
  /\ UNCHANGED <<process, progress, mImageUrl, mBufBitmap, mSkMovie, mDisplayFd, movie, asked>>

\* Mutant: the movie is replaced while the thread may be drawing it.
MovieInitAtOnce(f) ==
  /\ Called /\ IsMovie(f)
  /\ mBufBitmap' = NULL
  /\ mMovieImage' = TRUE
  /\ file' = f
  /\ mMovieThread # NULL
  /\ call' = "MovieInit" /\ UNCHANGED <<next, movie>>
  /\ UNCHANGED <<process, mImageUrl, tooLarge, mBitmap, zoom, mSkMovie, mDisplayFd,
                 screen, asked>>

prepareBufMovie(f) ==
  /\ Called /\ IsMovie(f)
  /\ mBufBitmap' = NULL
  /\ mMovieImage' = TRUE
  /\ file' = f
  /\ MovieThreadStop("MovieInit")
  /\ UNCHANGED <<process, mImageUrl, tooLarge, mBitmap, zoom, mSkMovie, mDisplayFd,
                 screen, asked>>

\* decode writes the size to mWidth and mHeight, which are those of mBitmap.
prepareBufStill(f) ==
  /\ Called /\ ~IsMovie(f)
  /\ mMovieImage' = FALSE
  /\ mBufBitmap' = IF f \in {"photo", "tiff"} THEN Decoded(f) ELSE NULL
  /\ tooLarge' = (tooLarge /\ mBufBitmap' = NULL)
  /\ UNCHANGED <<process, progress, mImageUrl, mBitmap, zoom, mSkMovie, mDisplayFd,
                 movie, screen, asked>>

\* show and showBuf of a movie.  Without a buffered still showBuf returns at
\* once, a movie or not.
ShowMovie ==
  /\ Called /\ mMovieImage
  /\ MovieThreadStart
  /\ UNCHANGED <<process, image, bitmaps, zoom, mSkMovie, mDisplayFd, screen>>

showStill ==
  /\ Called /\ ~mMovieImage
  /\ MovieThreadStop("show")
  /\ asked' = IF Running THEN NULL ELSE back
  /\ UNCHANGED <<process, file, image, bitmaps, zoom, mSkMovie, mDisplayFd, screen>>

showBufStill ==
  /\ Called /\ ~mMovieImage
  /\ mDisplayFd /\ mBufBitmap # NULL
  /\ MovieThreadStop("showBuf")
  /\ UNCHANGED <<process, file, image, bitmaps, zoom, mSkMovie, mDisplayFd, screen, asked>>

\* mMovieThread is NULL after an init that failed, and nobody looks.
NoMovieThread ==
  /\ Called /\ mMovieThread = NULL
  /\ Dies

-----------------------------------------------------------------------------
(* Turning and scaling                                                     *)

Untouched == <<process, image, bitmaps, mSkMovie, mDisplayFd, movie, asked>>

\* Always of the original bitmap.  A movie is turned by the thread.
setRotate ==
  /\ Called
  /\ mScalingBitmap' = NULL /\ mScalingDirect' = "SCALE_NORMAL" /\ mScalingStep' = 0
  /\ IF mMovieImage \/ mBitmap = NULL
     THEN mRotateBitmap' = NULL /\ UNCHANGED <<progress, screen>>
     ELSE mRotateBitmap' = rotate(mBitmap) /\ renderAndShow(mRotateBitmap')
  /\ UNCHANGED Untouched

\* What is scaled when the scaling bitmap is not good enough.
Base == IF mRotateBitmap # NULL THEN mRotateBitmap ELSE mBitmap

\* Mutant: the bitmap it has is used to turn back, too.
ScalingBitmapReused(d) ==
  IF mScalingDirect = "SCALE_NORMAL"
  THEN scaleAndCrop(Base, d)
  ELSE scaleAndCrop(mScalingBitmap, d)

\* The bitmap that setScale shows.  Going on in the same direction it can use
\* the one it has; to turn back it must use the base.
ScalingBitmap(d) ==
  CASE mScalingDirect = "SCALE_NORMAL"         -> scaleAndCrop(Base, d)
    [] mScalingDirect = "SCALE_UP" /\ d > 0    -> scaleAndCrop(mScalingBitmap, d)
    [] mScalingDirect = "SCALE_DOWN" /\ d < 0  -> scaleAndCrop(mScalingBitmap, d)
    [] OTHER -> IF d = 0 THEN mScalingBitmap ELSE scaleStep(Base, mScalingStep + d)

\* The direction is that of the whole scale against the original.
Direction(real) ==
  CASE real > 0 -> "SCALE_UP" [] real < 0 -> "SCALE_DOWN" [] OTHER -> "SCALE_NORMAL"

setScale(d) ==
  /\ Called /\ ~mMovieImage
  /\ d <= MaxUp
  /\ mScalingStep + d \in -MaxZoom .. MaxZoom
  /\ ~Vanishes(ScalingBitmap(d))
  /\ mScalingBitmap' = ScalingBitmap(d)
  /\ mScalingStep' = mScalingStep + d
  /\ mScalingDirect' = Direction(mScalingStep')
  /\ renderAndShow(mScalingBitmap')
  /\ UNCHANGED mRotateBitmap
  /\ UNCHANGED Untouched

\* scaleAndCrop reads the width of the NULL that scale returned.
setScaleVanishing(d) ==
  /\ Called /\ ~mMovieImage
  /\ mScalingStep + d \in -MaxZoom .. MaxZoom
  /\ Vanishes(ScalingBitmap(d))
  /\ Dies

\* setScale with sx # sy: nothing is kept.
setScaleUneven(d) ==
  /\ Called /\ ~mMovieImage
  /\ mBitmap # NULL /\ ~Vanishes(scaleAndCrop(mBitmap, d))
  /\ renderAndShow(scaleAndCrop(mBitmap, d))
  /\ UNCHANGED zoom
  /\ UNCHANGED Untouched

setRotateScale(d) ==
  /\ Called
  /\ d \in -MaxZoom .. MaxUp
  /\ LET turned == rotate(mBitmap)
         scaled == scaleAndCrop(turned, d)
     IN IF mMovieImage \/ mBitmap = NULL \/ Vanishes(scaled)
        THEN resetRotateScale /\ UNCHANGED <<progress, screen>>
        ELSE /\ mRotateBitmap' = turned
             /\ mScalingBitmap' = scaled
             /\ mScalingDirect' = Direction(d)
             /\ mScalingStep' = d
             /\ renderAndShow(scaled)
  /\ UNCHANGED Untouched

\* A part of the bitmap is shown.
setCropRect ==
  /\ Called /\ mBitmap # NULL
  /\ renderAndShow(mBitmap)
  /\ UNCHANGED zoom
  /\ UNCHANGED Untouched

\* The end of renderAndShow.  A movie that is being shown draws over it.
post ==
  /\ call = "post"
  /\ front' = IF mDisplayFd THEN back ELSE front
  /\ asked' = IF Running \/ ~mDisplayFd THEN NULL ELSE back
  /\ Return
  /\ UNCHANGED <<process, image, bitmaps, zoom, mSkMovie, mDisplayFd, movie, back>>

-----------------------------------------------------------------------------
(* What follows requestExitAndWait                                         *)

Stopped ==
  /\ call = "stop" /\ ~Running
  /\ call' = next /\ next' = NULL
  /\ mExitPending' = FALSE
  /\ UNCHANGED <<process, file, image, bitmaps, zoom, mSkMovie, mDisplayFd, mMovieThread,
                 uses, screen, asked>>

\* The old movie is deleted; the new one is another object.
MovieInit ==
  /\ call = "MovieInit"
  /\ mSkMovie' \in IF file = "gif" THEN Movies \ {mSkMovie} ELSE {NULL}
  /\ call' = "idle" /\ file' = NULL
  /\ UNCHANGED <<process, next, image, bitmaps, zoom, mDisplayFd, movie, screen, asked>>

show ==
  /\ call = "show"
  /\ front' = IF mDisplayFd THEN back ELSE front
  /\ Return
  /\ UNCHANGED <<process, image, bitmaps, zoom, mSkMovie, mDisplayFd, movie, back, asked>>

\* mBitmap becomes a copy, and the buffer is deleted.
showBuf ==
  /\ call = "showBuf"
  /\ mBitmap' = mBufBitmap /\ mBufBitmap' = NULL
  /\ resetRotateScale
  /\ back' = mBufBitmap.of /\ front' = back' /\ asked' = back'
  /\ Return
  /\ UNCHANGED <<process, image, mSkMovie, mDisplayFd, movie>>

\* release: the device is closed before the thread is stopped.
release ==
  /\ Called
  /\ mBitmap' = NULL /\ mBufBitmap' = NULL
  /\ mDisplayFd' = FALSE
  /\ MovieThreadStop("release")
  /\ asked' = NULL
  /\ UNCHANGED <<process, file, image, zoom, mSkMovie, screen>>

\* Mutant: what setRotate and setScale keep is forgotten.
releasedNoReset ==
  /\ call = "release"
  /\ mMovieThread' = NULL
  /\ mSkMovie' = NULL
  /\ manager' = "none"
  /\ Return
  /\ UNCHANGED <<alive, image, bitmaps, zoom, mDisplayFd, mExitPending, uses,
                 screen, asked>>

released ==
  /\ call = "release"
  /\ mMovieThread' = NULL
  /\ mSkMovie' = NULL
  /\ resetRotateScale
  /\ manager' = "none"
  /\ Return
  /\ UNCHANGED <<alive, image, bitmaps, mDisplayFd, mExitPending, uses, screen, asked>>

Continue == Stopped \/ MovieInit \/ show \/ showBuf \/ released \/ post

-----------------------------------------------------------------------------
(* MovieThread: threadLoop sleeps, draws a frame and comes again, unless   *)
(* MovieShow had no movie or the thread was asked to exit                  *)

threadLoop ==
  /\ mMovieThread = "asleep"
  /\ IF mSkMovie = NULL
     THEN mMovieThread' = "new" /\ UNCHANGED uses
     ELSE mMovieThread' = "drawing" /\ uses' = mSkMovie
  /\ UNCHANGED <<process, progress, image, bitmaps, zoom, mSkMovie, mDisplayFd,
                 mExitPending, screen, asked>>

\* Mutant: the exit is not looked at.
LoopsOn ==
  /\ mMovieThread' = "asleep"
  /\ uses' = NULL

\* The end of one round.
LoopsOrExits ==
  /\ mMovieThread' = IF mExitPending THEN "new" ELSE "asleep"
  /\ uses' = NULL

MovieRender ==
  /\ mMovieThread = "drawing"
  /\ IF mDisplayFd
     THEN /\ back' = "gif"
          /\ mMovieThread' = "rendered" /\ UNCHANGED uses
     ELSE LoopsOrExits /\ UNCHANGED back
  /\ UNCHANGED <<process, progress, image, bitmaps, zoom, mSkMovie, mDisplayFd,
                 mExitPending, front, asked>>

\* The request on a device that was closed meanwhile fails.
MoviePost ==
  /\ mMovieThread = "rendered"
  /\ front' = IF mDisplayFd THEN back ELSE front
  /\ LoopsOrExits
  /\ UNCHANGED <<process, progress, image, bitmaps, zoom, mSkMovie, mDisplayFd,
                 mExitPending, back, asked>>

MovieThread == threadLoop \/ MovieRender \/ MoviePost

-----------------------------------------------------------------------------
(* External: the service is killed, and init starts it again.  The proxy   *)
(* never asks for the new binder; the application drops it.                *)

Kill == alive /\ Dies

Restart ==
  /\ ~alive
  /\ alive' = TRUE
  /\ UNCHANGED <<manager, progress, image, bitmaps, zoom, mSkMovie, mDisplayFd, movie,
                 screen, asked>>

Dropped ==
  /\ manager = "dead"
  /\ manager' = "none"
  /\ UNCHANGED <<alive, progress, image, bitmaps, zoom, mSkMovie, mDisplayFd, movie,
                 screen, asked>>

Call ==
  \/ init \/ release \/ ShowMovie \/ showStill \/ showBufStill \/ NoMovieThread
  \/ prepareMovie \/ prepareStill \/ setCropRect
  \/ \E f \in Files : setDataSource(f) \/ prepareBufMovie(f) \/ prepareBufStill(f)
  \/ setRotate
  \/ \E d \in Scales :
       setScale(d) \/ setScaleVanishing(d) \/ setScaleUneven(d) \/ setRotateScale(d)

ImgNext == Call \/ Continue \/ MovieThread \/ Kill \/ Restart \/ Dropped

ImgSpec == ImgInit /\ [][ImgNext]_imgVars

\* The thread of a call and MovieThread run on; MovieThread comes out of its
\* sleep.
ImgFairSpec == ImgSpec /\ WF_imgVars(Continue) /\ WF_imgVars(MovieThread)

-----------------------------------------------------------------------------
(* Properties                                                              *)

BitmapOrNull == Bitmaps \cup {NULL}

ImgTypeOK ==
  /\ manager \in {"none", "bound", "dead"}
  /\ alive \in BOOLEAN
  /\ call \in {"idle", "stop", "post"} \cup Waiting
  /\ next \in Waiting \cup {NULL}
  /\ file \in Files \cup {NULL}
  /\ mImageUrl \in Files \cup {NULL}
  /\ mMovieImage \in BOOLEAN /\ tooLarge \in BOOLEAN
  /\ mBitmap \in BitmapOrNull /\ mBufBitmap \in BitmapOrNull
  /\ mRotateBitmap \in BitmapOrNull /\ mScalingBitmap \in BitmapOrNull
  /\ mScalingDirect \in {"SCALE_NORMAL", "SCALE_UP", "SCALE_DOWN"}
  /\ mScalingStep \in Int
  /\ mSkMovie \in Movies \cup {NULL} /\ uses \in Movies \cup {NULL}
  /\ mDisplayFd \in BOOLEAN /\ mExitPending \in BOOLEAN
  /\ mMovieThread \in Rounds \cup {"new", NULL}
  /\ back \in Kinds \cup {NULL} /\ front \in Kinds \cup {NULL} /\ asked \in Kinds \cup {NULL}

\* The thread only draws from a movie that exists, although it takes no lock:
\* whoever replaces or deletes the movie has stopped the thread before.
MovieAlive == uses # NULL => uses = mSkMovie

\* However often a picture was scaled up and down, through bitmaps that were
\* cropped and blurred on the way, what setScale shows is the base scaled once
\* by the product of all the scales.
ScaledFromBase ==
  mDisplayFd /\ mBitmap # NULL /\ mScalingBitmap # NULL =>
    mScalingBitmap = scaleAndCrop(Base, mScalingStep)

\* A still that a call put on the screen stays there until another call shows
\* something else: no frame of a movie that was stopped comes after it.
ShownIsAsked == call = "idle" /\ asked # NULL => front = asked

\* An application that has released the player leaves nothing behind in the
\* service, whatever it did before.
ReleasedIsEmpty ==
  manager = "none" =>
    /\ mBitmap = NULL /\ mBufBitmap = NULL /\ mRotateBitmap = NULL /\ mScalingBitmap = NULL
    /\ mSkMovie = NULL /\ mMovieThread = NULL /\ ~mDisplayFd
    /\ mScalingStep = 0

\* Every call returns, also one that waits for MovieThread.
CallsReturn == call # "idle" ~> call = "idle"
=============================================================================
