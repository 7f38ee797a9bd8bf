------------------------- MODULE ImagePlayerProofs -------------------------
(***************************************************************************)
(* Proofs about ImagePlayer, for any files, scales and sizes: what the run *)
(* checks on one instance holds of every one.  The invariant is a          *)
(* conjunction of parts, each proved from the ones before it:              *)
(*                                                                         *)
(*   TypeInv     the types, and that showBuf still has its bitmap          *)
(*   EmptyInv    nobody bound, nothing held                                *)
(*   ThreadInv   a call that waited has stopped the thread                 *)
(*   DisplayInv  there is a thread only where there is a device            *)
(*   ShownInv    the still of the last call is on its way or on the screen *)
(*   PlainInv, ScaledInv   what is scaled again was never scaled before    *)
(***************************************************************************)
EXTENDS ImagePlayer, TLAPS

-----------------------------------------------------------------------------
(* Bitmaps                                                                 *)

LEMMA BitmapTypes ==
  /\ \A f \in Files : Decodings(f) \subseteq BitmapOrNull
  /\ \A f \in {"photo", "tiff"} : Decoded(f) \in Bitmaps
  /\ \A b \in Bitmaps : rotate(b) \in Bitmaps /\ b.of \in Kinds
  /\ \A b \in BitmapOrNull, d \in Int : scaleAndCrop(b, d) \in BitmapOrNull
  /\ \A b \in BitmapOrNull, d \in Int : scaleStep(b, d) \in BitmapOrNull
<1>2. \A f \in Kinds : Decoded(f) \in Bitmaps
  BY DEF Decoded, Bitmaps
<1>3. \A f \in Files : Decodings(f) \subseteq BitmapOrNull
  <2> TAKE f \in Files
  <2> f \in Kinds BY ImageAssumption
  <2>1. CASE f \in {"photo", "tiff"}
    BY <2>1, <1>2 DEF Decodings, BitmapOrNull
  <2>2. CASE f = "big"
    BY <2>2, <1>2 DEF Decodings, BitmapOrNull, Kinds
  <2>3. CASE f \notin {"photo", "tiff", "big"}
    BY <2>3 DEF Decodings, BitmapOrNull
  <2> QED BY <2>1, <2>2, <2>3
<1>4. \A b \in Bitmaps : rotate(b) \in Bitmaps /\ b.of \in Kinds
  BY DEF rotate, Bitmaps
<1>5. \A b \in BitmapOrNull, d \in Int : scaleAndCrop(b, d) \in BitmapOrNull
  <2> TAKE b \in BitmapOrNull, d \in Int
  <2>1. CASE b = NULL
    BY <2>1 DEF scaleAndCrop, BitmapOrNull
  <2>2. CASE b \in Bitmaps /\ b # NULL
    <3>1. /\ b.step + d \in Int
          /\ Larger(b.view, b.step + d) \in Int
          /\ Smaller(b.detail, b.step + d) \in Int
      BY <2>2 DEF Bitmaps, Larger, Smaller
    <3> QED BY <2>2, <3>1 DEF scaleAndCrop, Bitmaps, BitmapOrNull
  <2> QED BY <2>1, <2>2 DEF BitmapOrNull
<1>6. \A b \in BitmapOrNull, d \in Int : scaleStep(b, d) \in BitmapOrNull
  BY <1>5 DEF scaleStep, BitmapOrNull
<1> QED BY <1>2, <1>3, <1>4, <1>5, <1>6 DEF Kinds

-----------------------------------------------------------------------------
(* Types                                                                   *)

FlagsOK ==
  /\ alive \in BOOLEAN /\ mMovieImage \in BOOLEAN /\ tooLarge \in BOOLEAN
  /\ mDisplayFd \in BOOLEAN /\ mExitPending \in BOOLEAN

CallsOK ==
  /\ manager \in {"none", "bound", "dead"}
  /\ call \in {"idle", "stop", "post"} \cup Waiting
  /\ next \in Waiting \cup {NULL}
  /\ file \in Files \cup {NULL}
  /\ mImageUrl \in Files \cup {NULL}
  /\ mMovieThread \in Rounds \cup {"new", NULL}
  /\ mSkMovie \in Movies \cup {NULL} /\ uses \in Movies \cup {NULL}
  /\ call = "stop" => next # NULL

BitmapsOK ==
  /\ mBitmap \in BitmapOrNull /\ mBufBitmap \in BitmapOrNull
  /\ mRotateBitmap \in BitmapOrNull /\ mScalingBitmap \in BitmapOrNull
  /\ mScalingDirect \in {"SCALE_NORMAL", "SCALE_UP", "SCALE_DOWN"}
  /\ mScalingStep \in Int
  /\ back \in Kinds \cup {NULL} /\ front \in Kinds \cup {NULL} /\ asked \in Kinds \cup {NULL}

\* The call c: in it, or waiting for MovieThread before it.
Phase(c) == call = c \/ (call = "stop" /\ next = c)

\* showBuf has a bitmap to show.
BufferKept == Phase("showBuf") => mBufBitmap # NULL

TypeInv == FlagsOK /\ CallsOK /\ BitmapsOK /\ BufferKept

LEMMA TypeInvType == TypeInv => ImgTypeOK
BY DEF TypeInv, FlagsOK, CallsOK, BitmapsOK, ImgTypeOK

LEMMA ScalesInt == \A d \in Scales : d \in Int
BY ImageAssumption DEF Scales

LEMMA TypeInit == ImgInit => TypeInv
<1> SUFFICES ASSUME ImgInit PROVE TypeInv
  OBVIOUS
<1>1. FlagsOK
  BY DEF ImgInit, FlagsOK
<1>2. CallsOK
  BY DEF ImgInit, CallsOK, Waiting
<1>3. BitmapsOK
  BY DEF ImgInit, BitmapsOK, BitmapOrNull
<1>4. BufferKept
  BY NullAssumption DEF ImgInit, BufferKept, Phase, Waiting
<1> QED BY <1>1, <1>2, <1>3, <1>4 DEF TypeInv

LEMMA FlagsNext == TypeInv /\ [ImgNext]_imgVars => FlagsOK'
<1> SUFFICES ASSUME TypeInv, [ImgNext]_imgVars PROVE FlagsOK'
  OBVIOUS
<1> USE DEF FlagsOK, image, bitmaps, zoom, movie, screen, process, progress, Called, Return
<1>init. ASSUME init PROVE FlagsOK'
  BY <1>init DEF init, TypeInv
<1>release. ASSUME release PROVE FlagsOK'
  <2>1. mExitPending' = Running /\ mDisplayFd' = FALSE /\ UNCHANGED <<process, image>>
    BY <1>release DEF release, MovieThreadStop
  <2>2. Running \in BOOLEAN
    BY DEF Running
  <2> QED BY <2>1, <2>2 DEF TypeInv
<1>ShowMovie. ASSUME ShowMovie PROVE FlagsOK'
  BY <1>ShowMovie DEF ShowMovie, MovieThreadStart, Running, TypeInv
<1>showStill. ASSUME showStill PROVE FlagsOK'
  BY <1>showStill DEF showStill, MovieThreadStop, Running, TypeInv
<1>showBufStill. ASSUME showBufStill PROVE FlagsOK'
  BY <1>showBufStill DEF showBufStill, MovieThreadStop, Running, TypeInv
<1>none. ASSUME NoMovieThread PROVE FlagsOK'
  BY <1>none DEF NoMovieThread, Dies, TypeInv
<1>prepareMovie. ASSUME prepareMovie PROVE FlagsOK'
  BY <1>prepareMovie DEF prepareMovie, Prepares, MovieThreadStop, Running, TypeInv
<1>prepareStill. ASSUME prepareStill PROVE FlagsOK'
  BY <1>prepareStill DEF prepareStill, Prepares, resetRotateScale, render, TypeInv
<1>setCropRect. ASSUME setCropRect PROVE FlagsOK'
  BY <1>setCropRect DEF setCropRect, renderAndShow, render, Untouched, TypeInv
<1>setDataSource. ASSUME NEW f \in Files, setDataSource(f) PROVE FlagsOK'
  BY <1>setDataSource DEF setDataSource, TypeInv
<1>prepareBufMovie. ASSUME NEW f \in Files, prepareBufMovie(f) PROVE FlagsOK'
  BY <1>prepareBufMovie DEF prepareBufMovie, MovieThreadStop, Running, TypeInv
<1>prepareBufStill. ASSUME NEW f \in Files, prepareBufStill(f) PROVE FlagsOK'
  BY <1>prepareBufStill DEF prepareBufStill, TypeInv
<1>setRotate. ASSUME setRotate PROVE FlagsOK'
  BY <1>setRotate DEF setRotate, renderAndShow, render, Untouched, TypeInv
<1>setScale. ASSUME NEW d \in Scales, setScale(d) PROVE FlagsOK'
  BY <1>setScale DEF setScale, renderAndShow, render, Untouched, TypeInv
<1>vanishing. ASSUME NEW d \in Scales, setScaleVanishing(d) PROVE FlagsOK'
  BY <1>vanishing DEF setScaleVanishing, Dies, TypeInv
<1>uneven. ASSUME NEW d \in Scales, setScaleUneven(d) PROVE FlagsOK'
  BY <1>uneven DEF setScaleUneven, renderAndShow, render, Untouched, TypeInv
<1>setRotateScale. ASSUME NEW d \in Scales, setRotateScale(d) PROVE FlagsOK'
  BY <1>setRotateScale DEF setRotateScale, renderAndShow, render, resetRotateScale, Untouched, TypeInv
<1>Stopped. ASSUME Stopped PROVE FlagsOK'
  BY <1>Stopped DEF Stopped, Running, TypeInv
<1>MovieInit. ASSUME MovieInit PROVE FlagsOK'
  BY <1>MovieInit DEF MovieInit, Movies, TypeInv
<1>show. ASSUME show PROVE FlagsOK'
  BY <1>show DEF show, TypeInv
<1>showBuf. ASSUME showBuf PROVE FlagsOK'
  BY <1>showBuf DEF showBuf, resetRotateScale, TypeInv
<1>released. ASSUME released PROVE FlagsOK'
  BY <1>released DEF released, resetRotateScale, TypeInv
<1>post. ASSUME post PROVE FlagsOK'
  BY <1>post DEF post, TypeInv
<1>threadLoop. ASSUME threadLoop PROVE FlagsOK'
  BY <1>threadLoop DEF threadLoop, TypeInv
<1>MovieRender. ASSUME MovieRender PROVE FlagsOK'
  BY <1>MovieRender DEF MovieRender, LoopsOrExits, Kinds, TypeInv
<1>MoviePost. ASSUME MoviePost PROVE FlagsOK'
  BY <1>MoviePost DEF MoviePost, LoopsOrExits, TypeInv
<1>Kill. ASSUME Kill PROVE FlagsOK'
  BY <1>Kill DEF Kill, Dies, TypeInv
<1>Restart. ASSUME Restart PROVE FlagsOK'
  BY <1>Restart DEF Restart, TypeInv
<1>Dropped. ASSUME Dropped PROVE FlagsOK'
  BY <1>Dropped DEF Dropped, TypeInv
<1>still. ASSUME UNCHANGED imgVars PROVE FlagsOK'
  BY <1>still DEF imgVars, TypeInv
<1> QED
  BY <1>init, <1>release, <1>ShowMovie, <1>showStill, <1>showBufStill, <1>none, <1>prepareMovie, <1>prepareStill, <1>setCropRect, <1>setDataSource, <1>prepareBufMovie, <1>prepareBufStill, <1>setRotate, <1>setScale, <1>vanishing, <1>uneven, <1>setRotateScale, <1>Stopped, <1>MovieInit, <1>show, <1>showBuf, <1>released, <1>post, <1>threadLoop, <1>MovieRender, <1>MoviePost, <1>Kill, <1>Restart, <1>Dropped, <1>still
     DEF ImgNext, Call, Continue, MovieThread

LEMMA CallsNext == TypeInv /\ [ImgNext]_imgVars => CallsOK'
<1> SUFFICES ASSUME TypeInv, [ImgNext]_imgVars PROVE CallsOK'
  OBVIOUS
<1> USE DEF CallsOK, Waiting, Rounds, image, bitmaps, zoom, movie, screen, process, progress, Called, Return
<1>init. ASSUME init PROVE CallsOK'
  BY <1>init, NullAssumption DEF init, TypeInv
<1>release. ASSUME release PROVE CallsOK'
  BY <1>release, NullAssumption DEF release, MovieThreadStop, Running, TypeInv
<1>ShowMovie. ASSUME ShowMovie PROVE CallsOK'
  BY <1>ShowMovie, NullAssumption DEF ShowMovie, MovieThreadStart, Running, TypeInv
<1>showStill. ASSUME showStill PROVE CallsOK'
  BY <1>showStill, NullAssumption DEF showStill, MovieThreadStop, Running, TypeInv
<1>showBufStill. ASSUME showBufStill PROVE CallsOK'
  BY <1>showBufStill, NullAssumption DEF showBufStill, MovieThreadStop, Running, TypeInv
<1>none. ASSUME NoMovieThread PROVE CallsOK'
  BY <1>none, NullAssumption DEF NoMovieThread, Dies, TypeInv
<1>prepareMovie. ASSUME prepareMovie PROVE CallsOK'
  BY <1>prepareMovie, NullAssumption DEF prepareMovie, Prepares, MovieThreadStop, Running, TypeInv
<1>prepareStill. ASSUME prepareStill PROVE CallsOK'
  BY <1>prepareStill, NullAssumption DEF prepareStill, Prepares, resetRotateScale, render, TypeInv
<1>setCropRect. ASSUME setCropRect PROVE CallsOK'
  BY <1>setCropRect, NullAssumption DEF setCropRect, renderAndShow, render, Untouched, TypeInv
<1>setDataSource. ASSUME NEW f \in Files, setDataSource(f) PROVE CallsOK'
  BY <1>setDataSource, NullAssumption DEF setDataSource, TypeInv
<1>prepareBufMovie. ASSUME NEW f \in Files, prepareBufMovie(f) PROVE CallsOK'
  BY <1>prepareBufMovie, NullAssumption DEF prepareBufMovie, MovieThreadStop, Running, TypeInv
<1>prepareBufStill. ASSUME NEW f \in Files, prepareBufStill(f) PROVE CallsOK'
  BY <1>prepareBufStill, NullAssumption DEF prepareBufStill, TypeInv
<1>setRotate. ASSUME setRotate PROVE CallsOK'
  BY <1>setRotate, NullAssumption DEF setRotate, renderAndShow, render, Untouched, TypeInv
<1>setScale. ASSUME NEW d \in Scales, setScale(d) PROVE CallsOK'
  BY <1>setScale, NullAssumption DEF setScale, renderAndShow, render, Untouched, TypeInv
<1>vanishing. ASSUME NEW d \in Scales, setScaleVanishing(d) PROVE CallsOK'
  BY <1>vanishing, NullAssumption DEF setScaleVanishing, Dies, TypeInv
<1>uneven. ASSUME NEW d \in Scales, setScaleUneven(d) PROVE CallsOK'
  BY <1>uneven, NullAssumption DEF setScaleUneven, renderAndShow, render, Untouched, TypeInv
<1>setRotateScale. ASSUME NEW d \in Scales, setRotateScale(d) PROVE CallsOK'
  BY <1>setRotateScale, NullAssumption DEF setRotateScale, renderAndShow, render, resetRotateScale, Untouched, TypeInv
<1>Stopped. ASSUME Stopped PROVE CallsOK'
  BY <1>Stopped, NullAssumption DEF Stopped, Running, TypeInv
<1>MovieInit. ASSUME MovieInit PROVE CallsOK'
  BY <1>MovieInit, NullAssumption DEF MovieInit, Movies, TypeInv
<1>show. ASSUME show PROVE CallsOK'
  BY <1>show, NullAssumption DEF show, TypeInv
<1>showBuf. ASSUME showBuf PROVE CallsOK'
  BY <1>showBuf, NullAssumption DEF showBuf, resetRotateScale, TypeInv
<1>released. ASSUME released PROVE CallsOK'
  BY <1>released, NullAssumption DEF released, resetRotateScale, TypeInv
<1>post. ASSUME post PROVE CallsOK'
  BY <1>post, NullAssumption DEF post, TypeInv
<1>threadLoop. ASSUME threadLoop PROVE CallsOK'
  BY <1>threadLoop, NullAssumption DEF threadLoop, TypeInv
<1>MovieRender. ASSUME MovieRender PROVE CallsOK'
  BY <1>MovieRender, NullAssumption DEF MovieRender, LoopsOrExits, Kinds, TypeInv
<1>MoviePost. ASSUME MoviePost PROVE CallsOK'
  BY <1>MoviePost, NullAssumption DEF MoviePost, LoopsOrExits, TypeInv
<1>Kill. ASSUME Kill PROVE CallsOK'
  BY <1>Kill, NullAssumption DEF Kill, Dies, TypeInv
<1>Restart. ASSUME Restart PROVE CallsOK'
  BY <1>Restart, NullAssumption DEF Restart, TypeInv
<1>Dropped. ASSUME Dropped PROVE CallsOK'
  BY <1>Dropped, NullAssumption DEF Dropped, TypeInv
<1>still. ASSUME UNCHANGED imgVars PROVE CallsOK'
  BY <1>still DEF imgVars, TypeInv
<1> QED
  BY <1>init, <1>release, <1>ShowMovie, <1>showStill, <1>showBufStill, <1>none, <1>prepareMovie, <1>prepareStill, <1>setCropRect, <1>setDataSource, <1>prepareBufMovie, <1>prepareBufStill, <1>setRotate, <1>setScale, <1>vanishing, <1>uneven, <1>setRotateScale, <1>Stopped, <1>MovieInit, <1>show, <1>showBuf, <1>released, <1>post, <1>threadLoop, <1>MovieRender, <1>MoviePost, <1>Kill, <1>Restart, <1>Dropped, <1>still
     DEF ImgNext, Call, Continue, MovieThread

LEMMA BitmapsNext == TypeInv /\ [ImgNext]_imgVars => BitmapsOK'
<1> SUFFICES ASSUME TypeInv, [ImgNext]_imgVars PROVE BitmapsOK'
  OBVIOUS
<1> USE DEF BitmapsOK, BitmapOrNull, image, bitmaps, zoom, movie, screen, process, progress, Called, Return
<1>init. ASSUME init PROVE BitmapsOK'
  BY <1>init, BitmapTypes, ScalesInt, NullAssumption DEF init, TypeInv, CallsOK, BufferKept, Phase
<1>release. ASSUME release PROVE BitmapsOK'
  BY <1>release, BitmapTypes, ScalesInt, NullAssumption DEF release, MovieThreadStop, Running, TypeInv, CallsOK, BufferKept, Phase
<1>ShowMovie. ASSUME ShowMovie PROVE BitmapsOK'
  BY <1>ShowMovie, BitmapTypes, ScalesInt, NullAssumption DEF ShowMovie, MovieThreadStart, Running, TypeInv, CallsOK, BufferKept, Phase
<1>showStill. ASSUME showStill PROVE BitmapsOK'
  BY <1>showStill, BitmapTypes, ScalesInt, NullAssumption DEF showStill, MovieThreadStop, Running, TypeInv, CallsOK, BufferKept, Phase
<1>showBufStill. ASSUME showBufStill PROVE BitmapsOK'
  BY <1>showBufStill, BitmapTypes, ScalesInt, NullAssumption DEF showBufStill, MovieThreadStop, Running, TypeInv, CallsOK, BufferKept, Phase
<1>none. ASSUME NoMovieThread PROVE BitmapsOK'
  BY <1>none, BitmapTypes, ScalesInt, NullAssumption DEF NoMovieThread, Dies, TypeInv, CallsOK, BufferKept, Phase
<1>prepareMovie. ASSUME prepareMovie PROVE BitmapsOK'
  BY <1>prepareMovie, BitmapTypes, ScalesInt, NullAssumption DEF prepareMovie, Prepares, MovieThreadStop, Running, TypeInv, CallsOK, BufferKept, Phase
<1>prepareStill. ASSUME prepareStill PROVE BitmapsOK'
  BY <1>prepareStill, BitmapTypes, ScalesInt, NullAssumption DEF prepareStill, Prepares, resetRotateScale, render, TypeInv, CallsOK, BufferKept, Phase
<1>setCropRect. ASSUME setCropRect PROVE BitmapsOK'
  BY <1>setCropRect, BitmapTypes, ScalesInt, NullAssumption DEF setCropRect, renderAndShow, render, Untouched, TypeInv, CallsOK, BufferKept, Phase
<1>setDataSource. ASSUME NEW f \in Files, setDataSource(f) PROVE BitmapsOK'
  BY <1>setDataSource, BitmapTypes, ScalesInt, NullAssumption DEF setDataSource, TypeInv, CallsOK, BufferKept, Phase
<1>prepareBufMovie. ASSUME NEW f \in Files, prepareBufMovie(f) PROVE BitmapsOK'
  BY <1>prepareBufMovie, BitmapTypes, ScalesInt, NullAssumption DEF prepareBufMovie, MovieThreadStop, Running, TypeInv, CallsOK, BufferKept, Phase
<1>prepareBufStill. ASSUME NEW f \in Files, prepareBufStill(f) PROVE BitmapsOK'
  BY <1>prepareBufStill, BitmapTypes, ScalesInt, NullAssumption DEF prepareBufStill, TypeInv, CallsOK, BufferKept, Phase
<1>setRotate. ASSUME setRotate PROVE BitmapsOK'
  BY <1>setRotate, BitmapTypes, ScalesInt, NullAssumption DEF setRotate, renderAndShow, render, Untouched, TypeInv, CallsOK, BufferKept, Phase
<1>setScale. ASSUME NEW d \in Scales, setScale(d) PROVE BitmapsOK'
  <2>1. d \in Int /\ mScalingStep + d \in Int
    BY ScalesInt DEF TypeInv
  <2>2. ScalingBitmap(d) \in BitmapOrNull
    BY <2>1, BitmapTypes DEF ScalingBitmap, Base, TypeInv
  <2>3. back' \in Kinds \cup {NULL}
    BY <1>setScale, <2>2, BitmapTypes DEF setScale, renderAndShow, render, TypeInv
  <2>4. Direction(mScalingStep + d) \in {"SCALE_NORMAL", "SCALE_UP", "SCALE_DOWN"}
    BY DEF Direction
  <2>5. /\ mScalingBitmap' = ScalingBitmap(d) /\ mScalingStep' = mScalingStep + d
        /\ mScalingDirect' = Direction(mScalingStep + d)
        /\ UNCHANGED <<mRotateBitmap, mBitmap, mBufBitmap, front, asked>>
    BY <1>setScale DEF setScale, renderAndShow, Untouched
  <2> QED BY <2>1, <2>2, <2>3, <2>4, <2>5 DEF TypeInv
<1>vanishing. ASSUME NEW d \in Scales, setScaleVanishing(d) PROVE BitmapsOK'
  BY <1>vanishing, BitmapTypes, ScalesInt, NullAssumption DEF setScaleVanishing, Dies, TypeInv, CallsOK, BufferKept, Phase
<1>uneven. ASSUME NEW d \in Scales, setScaleUneven(d) PROVE BitmapsOK'
  BY <1>uneven, BitmapTypes, ScalesInt, NullAssumption DEF setScaleUneven, renderAndShow, render, Untouched, TypeInv, CallsOK, BufferKept, Phase
<1>setRotateScale. ASSUME NEW d \in Scales, setRotateScale(d) PROVE BitmapsOK'
  <2> DEFINE turned == rotate(mBitmap)
             scaled == scaleAndCrop(turned, d)
  <2>1. /\ UNCHANGED <<mBitmap, mBufBitmap, front, asked>>
    BY <1>setRotateScale DEF setRotateScale, renderAndShow, Untouched
  <2>2. CASE resetRotateScale /\ UNCHANGED <<progress, screen>>
    BY <2>1, <2>2 DEF resetRotateScale, TypeInv
  <2>3. CASE ~(resetRotateScale /\ UNCHANGED <<progress, screen>>)
    <3>1. /\ mBitmap # NULL /\ mRotateBitmap' = turned /\ mScalingBitmap' = scaled
          /\ mScalingDirect' = Direction(d) /\ mScalingStep' = d
          /\ renderAndShow(scaled)
      BY <1>setRotateScale, <2>3 DEF setRotateScale
    <3>2. turned \in BitmapOrNull
      BY <3>1, BitmapTypes DEF TypeInv
    <3>3. d \in Int /\ scaled \in BitmapOrNull
      BY <3>2, BitmapTypes, ScalesInt
    <3>4. back' \in Kinds \cup {NULL}
      BY <3>1, <3>3, BitmapTypes DEF renderAndShow, render, TypeInv
    <3>5. Direction(d) \in {"SCALE_NORMAL", "SCALE_UP", "SCALE_DOWN"}
      BY DEF Direction
    <3> HIDE DEF turned, scaled
    <3> QED BY <2>1, <3>1, <3>2, <3>3, <3>4, <3>5 DEF TypeInv
  <2> QED BY <2>2, <2>3
<1>Stopped. ASSUME Stopped PROVE BitmapsOK'
  BY <1>Stopped, BitmapTypes, ScalesInt, NullAssumption DEF Stopped, Running, TypeInv, CallsOK, BufferKept, Phase
<1>MovieInit. ASSUME MovieInit PROVE BitmapsOK'
  BY <1>MovieInit, BitmapTypes, ScalesInt, NullAssumption DEF MovieInit, Movies, TypeInv, CallsOK, BufferKept, Phase
<1>show. ASSUME show PROVE BitmapsOK'
  BY <1>show, BitmapTypes, ScalesInt, NullAssumption DEF show, TypeInv, CallsOK, BufferKept, Phase
<1>showBuf. ASSUME showBuf PROVE BitmapsOK'
  BY <1>showBuf, BitmapTypes, ScalesInt, NullAssumption DEF showBuf, resetRotateScale, TypeInv, CallsOK, BufferKept, Phase
<1>released. ASSUME released PROVE BitmapsOK'
  BY <1>released, BitmapTypes, ScalesInt, NullAssumption DEF released, resetRotateScale, TypeInv, CallsOK, BufferKept, Phase
<1>post. ASSUME post PROVE BitmapsOK'
  BY <1>post, BitmapTypes, ScalesInt, NullAssumption DEF post, TypeInv, CallsOK, BufferKept, Phase
<1>threadLoop. ASSUME threadLoop PROVE BitmapsOK'
  BY <1>threadLoop, BitmapTypes, ScalesInt, NullAssumption DEF threadLoop, TypeInv, CallsOK, BufferKept, Phase
<1>MovieRender. ASSUME MovieRender PROVE BitmapsOK'
  BY <1>MovieRender, BitmapTypes, ScalesInt, NullAssumption DEF MovieRender, LoopsOrExits, Kinds, TypeInv, CallsOK, BufferKept, Phase
<1>MoviePost. ASSUME MoviePost PROVE BitmapsOK'
  BY <1>MoviePost, BitmapTypes, ScalesInt, NullAssumption DEF MoviePost, LoopsOrExits, TypeInv, CallsOK, BufferKept, Phase
<1>Kill. ASSUME Kill PROVE BitmapsOK'
  BY <1>Kill, BitmapTypes, ScalesInt, NullAssumption DEF Kill, Dies, TypeInv, CallsOK, BufferKept, Phase
<1>Restart. ASSUME Restart PROVE BitmapsOK'
  BY <1>Restart, BitmapTypes, ScalesInt, NullAssumption DEF Restart, TypeInv, CallsOK, BufferKept, Phase
<1>Dropped. ASSUME Dropped PROVE BitmapsOK'
  BY <1>Dropped, BitmapTypes, ScalesInt, NullAssumption DEF Dropped, TypeInv, CallsOK, BufferKept, Phase
<1>still. ASSUME UNCHANGED imgVars PROVE BitmapsOK'
  BY <1>still DEF imgVars, TypeInv
<1> QED
  BY <1>init, <1>release, <1>ShowMovie, <1>showStill, <1>showBufStill, <1>none, <1>prepareMovie, <1>prepareStill, <1>setCropRect, <1>setDataSource, <1>prepareBufMovie, <1>prepareBufStill, <1>setRotate, <1>setScale, <1>vanishing, <1>uneven, <1>setRotateScale, <1>Stopped, <1>MovieInit, <1>show, <1>showBuf, <1>released, <1>post, <1>threadLoop, <1>MovieRender, <1>MoviePost, <1>Kill, <1>Restart, <1>Dropped, <1>still
     DEF ImgNext, Call, Continue, MovieThread

LEMMA BufferNext == TypeInv /\ [ImgNext]_imgVars => BufferKept'
<1> SUFFICES ASSUME TypeInv, [ImgNext]_imgVars PROVE BufferKept'
  OBVIOUS
<1> USE DEF BufferKept, Phase, Waiting, image, bitmaps, zoom, movie, screen, process, progress, Called, Return
<1>init. ASSUME init PROVE BufferKept'
  BY <1>init, NullAssumption DEF init, TypeInv, CallsOK
<1>release. ASSUME release PROVE BufferKept'
  BY <1>release, NullAssumption DEF release, MovieThreadStop, Running, TypeInv, CallsOK
<1>ShowMovie. ASSUME ShowMovie PROVE BufferKept'
  BY <1>ShowMovie, NullAssumption DEF ShowMovie, MovieThreadStart, Running, TypeInv, CallsOK
<1>showStill. ASSUME showStill PROVE BufferKept'
  BY <1>showStill, NullAssumption DEF showStill, MovieThreadStop, Running, TypeInv, CallsOK
<1>showBufStill. ASSUME showBufStill PROVE BufferKept'
  BY <1>showBufStill, NullAssumption DEF showBufStill, MovieThreadStop, Running, TypeInv, CallsOK
<1>none. ASSUME NoMovieThread PROVE BufferKept'
  BY <1>none, NullAssumption DEF NoMovieThread, Dies, TypeInv, CallsOK
<1>prepareMovie. ASSUME prepareMovie PROVE BufferKept'
  BY <1>prepareMovie, NullAssumption DEF prepareMovie, Prepares, MovieThreadStop, Running, TypeInv, CallsOK
<1>prepareStill. ASSUME prepareStill PROVE BufferKept'
  BY <1>prepareStill, NullAssumption DEF prepareStill, Prepares, resetRotateScale, render, TypeInv, CallsOK
<1>setCropRect. ASSUME setCropRect PROVE BufferKept'
  BY <1>setCropRect, NullAssumption DEF setCropRect, renderAndShow, render, Untouched, TypeInv, CallsOK
<1>setDataSource. ASSUME NEW f \in Files, setDataSource(f) PROVE BufferKept'
  BY <1>setDataSource, NullAssumption DEF setDataSource, TypeInv, CallsOK
<1>prepareBufMovie. ASSUME NEW f \in Files, prepareBufMovie(f) PROVE BufferKept'
  BY <1>prepareBufMovie, NullAssumption DEF prepareBufMovie, MovieThreadStop, Running, TypeInv, CallsOK
<1>prepareBufStill. ASSUME NEW f \in Files, prepareBufStill(f) PROVE BufferKept'
  BY <1>prepareBufStill, NullAssumption DEF prepareBufStill, TypeInv, CallsOK
<1>setRotate. ASSUME setRotate PROVE BufferKept'
  BY <1>setRotate, NullAssumption DEF setRotate, renderAndShow, render, Untouched, TypeInv, CallsOK
<1>setScale. ASSUME NEW d \in Scales, setScale(d) PROVE BufferKept'
  BY <1>setScale, NullAssumption DEF setScale, renderAndShow, render, Untouched, TypeInv, CallsOK
<1>vanishing. ASSUME NEW d \in Scales, setScaleVanishing(d) PROVE BufferKept'
  BY <1>vanishing, NullAssumption DEF setScaleVanishing, Dies, TypeInv, CallsOK
<1>uneven. ASSUME NEW d \in Scales, setScaleUneven(d) PROVE BufferKept'
  BY <1>uneven, NullAssumption DEF setScaleUneven, renderAndShow, render, Untouched, TypeInv, CallsOK
<1>setRotateScale. ASSUME NEW d \in Scales, setRotateScale(d) PROVE BufferKept'
  BY <1>setRotateScale, NullAssumption DEF setRotateScale, renderAndShow, render, resetRotateScale, Untouched, TypeInv, CallsOK
<1>Stopped. ASSUME Stopped PROVE BufferKept'
  BY <1>Stopped, NullAssumption DEF Stopped, Running, TypeInv, CallsOK
<1>MovieInit. ASSUME MovieInit PROVE BufferKept'
  BY <1>MovieInit, NullAssumption DEF MovieInit, Movies, TypeInv, CallsOK
<1>show. ASSUME show PROVE BufferKept'
  BY <1>show, NullAssumption DEF show, TypeInv, CallsOK
<1>showBuf. ASSUME showBuf PROVE BufferKept'
  BY <1>showBuf, NullAssumption DEF showBuf, resetRotateScale, TypeInv, CallsOK
<1>released. ASSUME released PROVE BufferKept'
  BY <1>released, NullAssumption DEF released, resetRotateScale, TypeInv, CallsOK
<1>post. ASSUME post PROVE BufferKept'
  BY <1>post, NullAssumption DEF post, TypeInv, CallsOK
<1>threadLoop. ASSUME threadLoop PROVE BufferKept'
  BY <1>threadLoop, NullAssumption DEF threadLoop, TypeInv, CallsOK
<1>MovieRender. ASSUME MovieRender PROVE BufferKept'
  BY <1>MovieRender, NullAssumption DEF MovieRender, LoopsOrExits, Kinds, TypeInv, CallsOK
<1>MoviePost. ASSUME MoviePost PROVE BufferKept'
  BY <1>MoviePost, NullAssumption DEF MoviePost, LoopsOrExits, TypeInv, CallsOK
<1>Kill. ASSUME Kill PROVE BufferKept'
  BY <1>Kill, NullAssumption DEF Kill, Dies, TypeInv, CallsOK
<1>Restart. ASSUME Restart PROVE BufferKept'
  BY <1>Restart, NullAssumption DEF Restart, TypeInv, CallsOK
<1>Dropped. ASSUME Dropped PROVE BufferKept'
  BY <1>Dropped, NullAssumption DEF Dropped, TypeInv, CallsOK
<1>still. ASSUME UNCHANGED imgVars PROVE BufferKept'
  BY <1>still DEF imgVars, TypeInv
<1> QED
  BY <1>init, <1>release, <1>ShowMovie, <1>showStill, <1>showBufStill, <1>none, <1>prepareMovie, <1>prepareStill, <1>setCropRect, <1>setDataSource, <1>prepareBufMovie, <1>prepareBufStill, <1>setRotate, <1>setScale, <1>vanishing, <1>uneven, <1>setRotateScale, <1>Stopped, <1>MovieInit, <1>show, <1>showBuf, <1>released, <1>post, <1>threadLoop, <1>MovieRender, <1>MoviePost, <1>Kill, <1>Restart, <1>Dropped, <1>still
     DEF ImgNext, Call, Continue, MovieThread

-----------------------------------------------------------------------------
(* MovieThread and what the application has released                       *)

\* A call waits for a thread there is; after the wait the thread does not run.
\* It draws from the movie there is.
ThreadInv ==
  /\ call \in Waiting => ~Running
  /\ call \in Waiting \cup {"stop"} => mMovieThread # NULL
  /\ uses # NULL => Running /\ uses = mSkMovie

\* Nobody is bound: the service holds nothing and is in no call.  release has
\* dropped the bitmaps and the device before it waits.
EmptyInv ==
  /\ manager # "bound" =>
       /\ call = "idle"
       /\ mBitmap = NULL /\ mBufBitmap = NULL /\ mRotateBitmap = NULL /\ mScalingBitmap = NULL
       /\ mSkMovie = NULL /\ mMovieThread = NULL /\ mDisplayFd = FALSE
       /\ mScalingStep = 0 /\ mScalingDirect = "SCALE_NORMAL"
  /\ Phase("release") => mBitmap = NULL /\ mBufBitmap = NULL /\ mDisplayFd = FALSE

\* There is a MovieThread only where the device was opened.
DisplayInv == mMovieThread # NULL /\ ~Phase("release") => mDisplayFd = TRUE

\* The still of the last call is on the screen, or in the frame that show posts.
ShownInv ==
  asked # NULL => ~Running /\ IF Phase("show") THEN asked = back ELSE front = asked

Plain(b) == b # NULL => b.step = 0 /\ b.view = 0 /\ b.detail = 0

\* What is scaled was never scaled itself.
PlainInv == Plain(mBitmap) /\ Plain(mBufBitmap) /\ Plain(mRotateBitmap)

ScaledInv == mScalingDirect = Direction(mScalingStep) /\ ScaledFromBase

LEMMA ThreadNext == TypeInv /\ EmptyInv /\ ThreadInv /\ [ImgNext]_imgVars => ThreadInv'
<1> SUFFICES ASSUME TypeInv, EmptyInv, ThreadInv, [ImgNext]_imgVars PROVE ThreadInv'
  OBVIOUS
<1> USE DEF ThreadInv, Running, Waiting, Rounds, image, bitmaps, zoom, movie, screen, process, progress, Called, Return
<1>init. ASSUME init PROVE ThreadInv'
  BY <1>init, NullAssumption DEF init, TypeInv, CallsOK, EmptyInv
<1>release. ASSUME release PROVE ThreadInv'
  BY <1>release, NullAssumption DEF release, MovieThreadStop, Running, TypeInv, CallsOK, EmptyInv
<1>ShowMovie. ASSUME ShowMovie PROVE ThreadInv'
  BY <1>ShowMovie, NullAssumption DEF ShowMovie, MovieThreadStart, Running, TypeInv, CallsOK, EmptyInv
<1>showStill. ASSUME showStill PROVE ThreadInv'
  BY <1>showStill, NullAssumption DEF showStill, MovieThreadStop, Running, TypeInv, CallsOK, EmptyInv
<1>showBufStill. ASSUME showBufStill PROVE ThreadInv'
  BY <1>showBufStill, NullAssumption DEF showBufStill, MovieThreadStop, Running, TypeInv, CallsOK, EmptyInv
<1>none. ASSUME NoMovieThread PROVE ThreadInv'
  BY <1>none, NullAssumption DEF NoMovieThread, Dies, TypeInv, CallsOK, EmptyInv
<1>prepareMovie. ASSUME prepareMovie PROVE ThreadInv'
  BY <1>prepareMovie, NullAssumption DEF prepareMovie, Prepares, MovieThreadStop, Running, TypeInv, CallsOK, EmptyInv
<1>prepareStill. ASSUME prepareStill PROVE ThreadInv'
  BY <1>prepareStill, NullAssumption DEF prepareStill, Prepares, resetRotateScale, render, TypeInv, CallsOK, EmptyInv
<1>setCropRect. ASSUME setCropRect PROVE ThreadInv'
  BY <1>setCropRect, NullAssumption DEF setCropRect, renderAndShow, render, Untouched, TypeInv, CallsOK, EmptyInv
<1>setDataSource. ASSUME NEW f \in Files, setDataSource(f) PROVE ThreadInv'
  BY <1>setDataSource, NullAssumption DEF setDataSource, TypeInv, CallsOK, EmptyInv
<1>prepareBufMovie. ASSUME NEW f \in Files, prepareBufMovie(f) PROVE ThreadInv'
  BY <1>prepareBufMovie, NullAssumption DEF prepareBufMovie, MovieThreadStop, Running, TypeInv, CallsOK, EmptyInv
<1>prepareBufStill. ASSUME NEW f \in Files, prepareBufStill(f) PROVE ThreadInv'
  BY <1>prepareBufStill, NullAssumption DEF prepareBufStill, TypeInv, CallsOK, EmptyInv
<1>setRotate. ASSUME setRotate PROVE ThreadInv'
  BY <1>setRotate, NullAssumption DEF setRotate, renderAndShow, render, Untouched, TypeInv, CallsOK, EmptyInv
<1>setScale. ASSUME NEW d \in Scales, setScale(d) PROVE ThreadInv'
  BY <1>setScale, NullAssumption DEF setScale, renderAndShow, render, Untouched, TypeInv, CallsOK, EmptyInv
<1>vanishing. ASSUME NEW d \in Scales, setScaleVanishing(d) PROVE ThreadInv'
  BY <1>vanishing, NullAssumption DEF setScaleVanishing, Dies, TypeInv, CallsOK, EmptyInv
<1>uneven. ASSUME NEW d \in Scales, setScaleUneven(d) PROVE ThreadInv'
  BY <1>uneven, NullAssumption DEF setScaleUneven, renderAndShow, render, Untouched, TypeInv, CallsOK, EmptyInv
<1>setRotateScale. ASSUME NEW d \in Scales, setRotateScale(d) PROVE ThreadInv'
  BY <1>setRotateScale, NullAssumption DEF setRotateScale, renderAndShow, render, resetRotateScale, Untouched, TypeInv, CallsOK, EmptyInv
<1>Stopped. ASSUME Stopped PROVE ThreadInv'
  BY <1>Stopped, NullAssumption DEF Stopped, Running, TypeInv, CallsOK, EmptyInv
<1>MovieInit. ASSUME MovieInit PROVE ThreadInv'
  BY <1>MovieInit, NullAssumption DEF MovieInit, Movies, TypeInv, CallsOK, EmptyInv
<1>show. ASSUME show PROVE ThreadInv'
  BY <1>show, NullAssumption DEF show, TypeInv, CallsOK, EmptyInv
<1>showBuf. ASSUME showBuf PROVE ThreadInv'
  BY <1>showBuf, NullAssumption DEF showBuf, resetRotateScale, TypeInv, CallsOK, EmptyInv
<1>released. ASSUME released PROVE ThreadInv'
  BY <1>released, NullAssumption DEF released, resetRotateScale, TypeInv, CallsOK, EmptyInv
<1>post. ASSUME post PROVE ThreadInv'
  BY <1>post, NullAssumption DEF post, TypeInv, CallsOK, EmptyInv
<1>threadLoop. ASSUME threadLoop PROVE ThreadInv'
  BY <1>threadLoop, NullAssumption DEF threadLoop, TypeInv, CallsOK, EmptyInv
<1>MovieRender. ASSUME MovieRender PROVE ThreadInv'
  BY <1>MovieRender, NullAssumption DEF MovieRender, LoopsOrExits, Kinds, TypeInv, CallsOK, EmptyInv
<1>MoviePost. ASSUME MoviePost PROVE ThreadInv'
  BY <1>MoviePost, NullAssumption DEF MoviePost, LoopsOrExits, TypeInv, CallsOK, EmptyInv
<1>Kill. ASSUME Kill PROVE ThreadInv'
  BY <1>Kill, NullAssumption DEF Kill, Dies, TypeInv, CallsOK, EmptyInv
<1>Restart. ASSUME Restart PROVE ThreadInv'
  BY <1>Restart, NullAssumption DEF Restart, TypeInv, CallsOK, EmptyInv
<1>Dropped. ASSUME Dropped PROVE ThreadInv'
  BY <1>Dropped, NullAssumption DEF Dropped, TypeInv, CallsOK, EmptyInv
<1>still. ASSUME UNCHANGED imgVars PROVE ThreadInv'
  BY <1>still DEF imgVars, TypeInv, CallsOK, EmptyInv
<1> QED
  BY <1>init, <1>release, <1>ShowMovie, <1>showStill, <1>showBufStill, <1>none, <1>prepareMovie, <1>prepareStill, <1>setCropRect, <1>setDataSource, <1>prepareBufMovie, <1>prepareBufStill, <1>setRotate, <1>setScale, <1>vanishing, <1>uneven, <1>setRotateScale, <1>Stopped, <1>MovieInit, <1>show, <1>showBuf, <1>released, <1>post, <1>threadLoop, <1>MovieRender, <1>MoviePost, <1>Kill, <1>Restart, <1>Dropped, <1>still
     DEF ImgNext, Call, Continue, MovieThread

LEMMA EmptyNext == TypeInv /\ EmptyInv /\ [ImgNext]_imgVars => EmptyInv'
<1> SUFFICES ASSUME TypeInv, EmptyInv, [ImgNext]_imgVars PROVE EmptyInv'
  OBVIOUS
<1> USE DEF EmptyInv, Phase, Waiting, Rounds, image, bitmaps, zoom, movie, screen, process, progress, Called, Return
<1>init. ASSUME init PROVE EmptyInv'
  BY <1>init, NullAssumption DEF init, TypeInv, CallsOK
<1>release. ASSUME release PROVE EmptyInv'
  BY <1>release, NullAssumption DEF release, MovieThreadStop, Running, TypeInv, CallsOK
<1>ShowMovie. ASSUME ShowMovie PROVE EmptyInv'
  BY <1>ShowMovie, NullAssumption DEF ShowMovie, MovieThreadStart, Running, TypeInv, CallsOK
<1>showStill. ASSUME showStill PROVE EmptyInv'
  BY <1>showStill, NullAssumption DEF showStill, MovieThreadStop, Running, TypeInv, CallsOK
<1>showBufStill. ASSUME showBufStill PROVE EmptyInv'
  BY <1>showBufStill, NullAssumption DEF showBufStill, MovieThreadStop, Running, TypeInv, CallsOK
<1>none. ASSUME NoMovieThread PROVE EmptyInv'
  BY <1>none, NullAssumption DEF NoMovieThread, Dies, TypeInv, CallsOK
<1>prepareMovie. ASSUME prepareMovie PROVE EmptyInv'
  BY <1>prepareMovie, NullAssumption DEF prepareMovie, Prepares, MovieThreadStop, Running, TypeInv, CallsOK
<1>prepareStill. ASSUME prepareStill PROVE EmptyInv'
  BY <1>prepareStill, NullAssumption DEF prepareStill, Prepares, resetRotateScale, render, TypeInv, CallsOK
<1>setCropRect. ASSUME setCropRect PROVE EmptyInv'
  BY <1>setCropRect, NullAssumption DEF setCropRect, renderAndShow, render, Untouched, TypeInv, CallsOK
<1>setDataSource. ASSUME NEW f \in Files, setDataSource(f) PROVE EmptyInv'
  BY <1>setDataSource, NullAssumption DEF setDataSource, TypeInv, CallsOK
<1>prepareBufMovie. ASSUME NEW f \in Files, prepareBufMovie(f) PROVE EmptyInv'
  BY <1>prepareBufMovie, NullAssumption DEF prepareBufMovie, MovieThreadStop, Running, TypeInv, CallsOK
<1>prepareBufStill. ASSUME NEW f \in Files, prepareBufStill(f) PROVE EmptyInv'
  BY <1>prepareBufStill, NullAssumption DEF prepareBufStill, TypeInv, CallsOK
<1>setRotate. ASSUME setRotate PROVE EmptyInv'
  BY <1>setRotate, NullAssumption DEF setRotate, renderAndShow, render, Untouched, TypeInv, CallsOK
<1>setScale. ASSUME NEW d \in Scales, setScale(d) PROVE EmptyInv'
  BY <1>setScale, NullAssumption DEF setScale, renderAndShow, render, Untouched, TypeInv, CallsOK
<1>vanishing. ASSUME NEW d \in Scales, setScaleVanishing(d) PROVE EmptyInv'
  BY <1>vanishing, NullAssumption DEF setScaleVanishing, Dies, TypeInv, CallsOK
<1>uneven. ASSUME NEW d \in Scales, setScaleUneven(d) PROVE EmptyInv'
  BY <1>uneven, NullAssumption DEF setScaleUneven, renderAndShow, render, Untouched, TypeInv, CallsOK
<1>setRotateScale. ASSUME NEW d \in Scales, setRotateScale(d) PROVE EmptyInv'
  BY <1>setRotateScale, NullAssumption DEF setRotateScale, renderAndShow, render, resetRotateScale, Untouched, TypeInv, CallsOK
<1>Stopped. ASSUME Stopped PROVE EmptyInv'
  BY <1>Stopped, NullAssumption DEF Stopped, Running, TypeInv, CallsOK
<1>MovieInit. ASSUME MovieInit PROVE EmptyInv'
  BY <1>MovieInit, NullAssumption DEF MovieInit, Movies, TypeInv, CallsOK
<1>show. ASSUME show PROVE EmptyInv'
  BY <1>show, NullAssumption DEF show, TypeInv, CallsOK
<1>showBuf. ASSUME showBuf PROVE EmptyInv'
  BY <1>showBuf, NullAssumption DEF showBuf, resetRotateScale, TypeInv, CallsOK
<1>released. ASSUME released PROVE EmptyInv'
  BY <1>released, NullAssumption DEF released, resetRotateScale, TypeInv, CallsOK
<1>post. ASSUME post PROVE EmptyInv'
  BY <1>post, NullAssumption DEF post, TypeInv, CallsOK
<1>threadLoop. ASSUME threadLoop PROVE EmptyInv'
  BY <1>threadLoop, NullAssumption DEF threadLoop, TypeInv, CallsOK
<1>MovieRender. ASSUME MovieRender PROVE EmptyInv'
  BY <1>MovieRender, NullAssumption DEF MovieRender, LoopsOrExits, Kinds, TypeInv, CallsOK
<1>MoviePost. ASSUME MoviePost PROVE EmptyInv'
  BY <1>MoviePost, NullAssumption DEF MoviePost, LoopsOrExits, TypeInv, CallsOK
<1>Kill. ASSUME Kill PROVE EmptyInv'
  BY <1>Kill, NullAssumption DEF Kill, Dies, TypeInv, CallsOK
<1>Restart. ASSUME Restart PROVE EmptyInv'
  BY <1>Restart, NullAssumption DEF Restart, TypeInv, CallsOK
<1>Dropped. ASSUME Dropped PROVE EmptyInv'
  BY <1>Dropped, NullAssumption DEF Dropped, TypeInv, CallsOK
<1>still. ASSUME UNCHANGED imgVars PROVE EmptyInv'
  BY <1>still DEF imgVars, TypeInv, CallsOK
<1> QED
  BY <1>init, <1>release, <1>ShowMovie, <1>showStill, <1>showBufStill, <1>none, <1>prepareMovie, <1>prepareStill, <1>setCropRect, <1>setDataSource, <1>prepareBufMovie, <1>prepareBufStill, <1>setRotate, <1>setScale, <1>vanishing, <1>uneven, <1>setRotateScale, <1>Stopped, <1>MovieInit, <1>show, <1>showBuf, <1>released, <1>post, <1>threadLoop, <1>MovieRender, <1>MoviePost, <1>Kill, <1>Restart, <1>Dropped, <1>still
     DEF ImgNext, Call, Continue, MovieThread

LEMMA DisplayNext == TypeInv /\ EmptyInv /\ DisplayInv /\ [ImgNext]_imgVars => DisplayInv'
<1> SUFFICES ASSUME TypeInv, EmptyInv, DisplayInv, [ImgNext]_imgVars PROVE DisplayInv'
  OBVIOUS
<1> USE DEF DisplayInv, Phase, Waiting, Rounds, image, bitmaps, zoom, movie, screen, process, progress, Called, Return
<1>init. ASSUME init PROVE DisplayInv'
  BY <1>init, NullAssumption DEF init, TypeInv, CallsOK, EmptyInv
<1>release. ASSUME release PROVE DisplayInv'
  BY <1>release, NullAssumption DEF release, MovieThreadStop, Running, TypeInv, CallsOK, EmptyInv
<1>ShowMovie. ASSUME ShowMovie PROVE DisplayInv'
  BY <1>ShowMovie, NullAssumption DEF ShowMovie, MovieThreadStart, Running, TypeInv, CallsOK, EmptyInv
<1>showStill. ASSUME showStill PROVE DisplayInv'
  BY <1>showStill, NullAssumption DEF showStill, MovieThreadStop, Running, TypeInv, CallsOK, EmptyInv
<1>showBufStill. ASSUME showBufStill PROVE DisplayInv'
  BY <1>showBufStill, NullAssumption DEF showBufStill, MovieThreadStop, Running, TypeInv, CallsOK, EmptyInv
<1>none. ASSUME NoMovieThread PROVE DisplayInv'
  BY <1>none, NullAssumption DEF NoMovieThread, Dies, TypeInv, CallsOK, EmptyInv
<1>prepareMovie. ASSUME prepareMovie PROVE DisplayInv'
  BY <1>prepareMovie, NullAssumption DEF prepareMovie, Prepares, MovieThreadStop, Running, TypeInv, CallsOK, EmptyInv
<1>prepareStill. ASSUME prepareStill PROVE DisplayInv'
  BY <1>prepareStill, NullAssumption DEF prepareStill, Prepares, resetRotateScale, render, TypeInv, CallsOK, EmptyInv
<1>setCropRect. ASSUME setCropRect PROVE DisplayInv'
  BY <1>setCropRect, NullAssumption DEF setCropRect, renderAndShow, render, Untouched, TypeInv, CallsOK, EmptyInv
<1>setDataSource. ASSUME NEW f \in Files, setDataSource(f) PROVE DisplayInv'
  BY <1>setDataSource, NullAssumption DEF setDataSource, TypeInv, CallsOK, EmptyInv
<1>prepareBufMovie. ASSUME NEW f \in Files, prepareBufMovie(f) PROVE DisplayInv'
  BY <1>prepareBufMovie, NullAssumption DEF prepareBufMovie, MovieThreadStop, Running, TypeInv, CallsOK, EmptyInv
<1>prepareBufStill. ASSUME NEW f \in Files, prepareBufStill(f) PROVE DisplayInv'
  BY <1>prepareBufStill, NullAssumption DEF prepareBufStill, TypeInv, CallsOK, EmptyInv
<1>setRotate. ASSUME setRotate PROVE DisplayInv'
  BY <1>setRotate, NullAssumption DEF setRotate, renderAndShow, render, Untouched, TypeInv, CallsOK, EmptyInv
<1>setScale. ASSUME NEW d \in Scales, setScale(d) PROVE DisplayInv'
  BY <1>setScale, NullAssumption DEF setScale, renderAndShow, render, Untouched, TypeInv, CallsOK, EmptyInv
<1>vanishing. ASSUME NEW d \in Scales, setScaleVanishing(d) PROVE DisplayInv'
  BY <1>vanishing, NullAssumption DEF setScaleVanishing, Dies, TypeInv, CallsOK, EmptyInv
<1>uneven. ASSUME NEW d \in Scales, setScaleUneven(d) PROVE DisplayInv'
  BY <1>uneven, NullAssumption DEF setScaleUneven, renderAndShow, render, Untouched, TypeInv, CallsOK, EmptyInv
<1>setRotateScale. ASSUME NEW d \in Scales, setRotateScale(d) PROVE DisplayInv'
  BY <1>setRotateScale, NullAssumption DEF setRotateScale, renderAndShow, render, resetRotateScale, Untouched, TypeInv, CallsOK, EmptyInv
<1>Stopped. ASSUME Stopped PROVE DisplayInv'
  BY <1>Stopped, NullAssumption DEF Stopped, Running, TypeInv, CallsOK, EmptyInv
<1>MovieInit. ASSUME MovieInit PROVE DisplayInv'
  BY <1>MovieInit, NullAssumption DEF MovieInit, Movies, TypeInv, CallsOK, EmptyInv
<1>show. ASSUME show PROVE DisplayInv'
  BY <1>show, NullAssumption DEF show, TypeInv, CallsOK, EmptyInv
<1>showBuf. ASSUME showBuf PROVE DisplayInv'
  BY <1>showBuf, NullAssumption DEF showBuf, resetRotateScale, TypeInv, CallsOK, EmptyInv
<1>released. ASSUME released PROVE DisplayInv'
  BY <1>released, NullAssumption DEF released, resetRotateScale, TypeInv, CallsOK, EmptyInv
<1>post. ASSUME post PROVE DisplayInv'
  BY <1>post, NullAssumption DEF post, TypeInv, CallsOK, EmptyInv
<1>threadLoop. ASSUME threadLoop PROVE DisplayInv'
  BY <1>threadLoop, NullAssumption DEF threadLoop, TypeInv, CallsOK, EmptyInv
<1>MovieRender. ASSUME MovieRender PROVE DisplayInv'
  BY <1>MovieRender, NullAssumption DEF MovieRender, LoopsOrExits, Kinds, TypeInv, CallsOK, EmptyInv
<1>MoviePost. ASSUME MoviePost PROVE DisplayInv'
  BY <1>MoviePost, NullAssumption DEF MoviePost, LoopsOrExits, TypeInv, CallsOK, EmptyInv
<1>Kill. ASSUME Kill PROVE DisplayInv'
  BY <1>Kill, NullAssumption DEF Kill, Dies, TypeInv, CallsOK, EmptyInv
<1>Restart. ASSUME Restart PROVE DisplayInv'
  BY <1>Restart, NullAssumption DEF Restart, TypeInv, CallsOK, EmptyInv
<1>Dropped. ASSUME Dropped PROVE DisplayInv'
  BY <1>Dropped, NullAssumption DEF Dropped, TypeInv, CallsOK, EmptyInv
<1>still. ASSUME UNCHANGED imgVars PROVE DisplayInv'
  BY <1>still DEF imgVars, TypeInv, CallsOK, EmptyInv
<1> QED
  BY <1>init, <1>release, <1>ShowMovie, <1>showStill, <1>showBufStill, <1>none, <1>prepareMovie, <1>prepareStill, <1>setCropRect, <1>setDataSource, <1>prepareBufMovie, <1>prepareBufStill, <1>setRotate, <1>setScale, <1>vanishing, <1>uneven, <1>setRotateScale, <1>Stopped, <1>MovieInit, <1>show, <1>showBuf, <1>released, <1>post, <1>threadLoop, <1>MovieRender, <1>MoviePost, <1>Kill, <1>Restart, <1>Dropped, <1>still
     DEF ImgNext, Call, Continue, MovieThread

LEMMA ShownNext == TypeInv /\ ThreadInv /\ EmptyInv /\ DisplayInv /\ ShownInv /\ [ImgNext]_imgVars => ShownInv'
<1> SUFFICES ASSUME TypeInv, ThreadInv, EmptyInv, DisplayInv, ShownInv, [ImgNext]_imgVars PROVE ShownInv'
  OBVIOUS
<1> USE DEF ShownInv, Phase, Waiting, Running, Rounds, image, bitmaps, zoom, movie, screen, process, progress, Called, Return
<1>init. ASSUME init PROVE ShownInv'
  BY <1>init, NullAssumption DEF init, TypeInv, CallsOK, ThreadInv, EmptyInv, DisplayInv
<1>release. ASSUME release PROVE ShownInv'
  BY <1>release, NullAssumption DEF release, MovieThreadStop, Running, TypeInv, CallsOK, ThreadInv, EmptyInv, DisplayInv
<1>ShowMovie. ASSUME ShowMovie PROVE ShownInv'
  BY <1>ShowMovie, NullAssumption DEF ShowMovie, MovieThreadStart, Running, TypeInv, CallsOK, ThreadInv, EmptyInv, DisplayInv
<1>showStill. ASSUME showStill PROVE ShownInv'
  BY <1>showStill, NullAssumption DEF showStill, MovieThreadStop, Running, TypeInv, CallsOK, ThreadInv, EmptyInv, DisplayInv
<1>showBufStill. ASSUME showBufStill PROVE ShownInv'
  BY <1>showBufStill, NullAssumption DEF showBufStill, MovieThreadStop, Running, TypeInv, CallsOK, ThreadInv, EmptyInv, DisplayInv
<1>none. ASSUME NoMovieThread PROVE ShownInv'
  BY <1>none, NullAssumption DEF NoMovieThread, Dies, TypeInv, CallsOK, ThreadInv, EmptyInv, DisplayInv
<1>prepareMovie. ASSUME prepareMovie PROVE ShownInv'
  BY <1>prepareMovie, NullAssumption DEF prepareMovie, Prepares, MovieThreadStop, Running, TypeInv, CallsOK, ThreadInv, EmptyInv, DisplayInv
<1>prepareStill. ASSUME prepareStill PROVE ShownInv'
  BY <1>prepareStill, NullAssumption DEF prepareStill, Prepares, resetRotateScale, render, TypeInv, CallsOK, ThreadInv, EmptyInv, DisplayInv
<1>setCropRect. ASSUME setCropRect PROVE ShownInv'
  BY <1>setCropRect, NullAssumption DEF setCropRect, renderAndShow, render, Untouched, TypeInv, CallsOK, ThreadInv, EmptyInv, DisplayInv
<1>setDataSource. ASSUME NEW f \in Files, setDataSource(f) PROVE ShownInv'
  BY <1>setDataSource, NullAssumption DEF setDataSource, TypeInv, CallsOK, ThreadInv, EmptyInv, DisplayInv
<1>prepareBufMovie. ASSUME NEW f \in Files, prepareBufMovie(f) PROVE ShownInv'
  BY <1>prepareBufMovie, NullAssumption DEF prepareBufMovie, MovieThreadStop, Running, TypeInv, CallsOK, ThreadInv, EmptyInv, DisplayInv
<1>prepareBufStill. ASSUME NEW f \in Files, prepareBufStill(f) PROVE ShownInv'
  BY <1>prepareBufStill, NullAssumption DEF prepareBufStill, TypeInv, CallsOK, ThreadInv, EmptyInv, DisplayInv
<1>setRotate. ASSUME setRotate PROVE ShownInv'
  BY <1>setRotate, NullAssumption DEF setRotate, renderAndShow, render, Untouched, TypeInv, CallsOK, ThreadInv, EmptyInv, DisplayInv
<1>setScale. ASSUME NEW d \in Scales, setScale(d) PROVE ShownInv'
  BY <1>setScale, NullAssumption DEF setScale, renderAndShow, render, Untouched, TypeInv, CallsOK, ThreadInv, EmptyInv, DisplayInv
<1>vanishing. ASSUME NEW d \in Scales, setScaleVanishing(d) PROVE ShownInv'
  BY <1>vanishing, NullAssumption DEF setScaleVanishing, Dies, TypeInv, CallsOK, ThreadInv, EmptyInv, DisplayInv
<1>uneven. ASSUME NEW d \in Scales, setScaleUneven(d) PROVE ShownInv'
  BY <1>uneven, NullAssumption DEF setScaleUneven, renderAndShow, render, Untouched, TypeInv, CallsOK, ThreadInv, EmptyInv, DisplayInv
<1>setRotateScale. ASSUME NEW d \in Scales, setRotateScale(d) PROVE ShownInv'
  BY <1>setRotateScale, NullAssumption DEF setRotateScale, renderAndShow, render, resetRotateScale, Untouched, TypeInv, CallsOK, ThreadInv, EmptyInv, DisplayInv
<1>Stopped. ASSUME Stopped PROVE ShownInv'
  BY <1>Stopped, NullAssumption DEF Stopped, Running, TypeInv, CallsOK, ThreadInv, EmptyInv, DisplayInv
<1>MovieInit. ASSUME MovieInit PROVE ShownInv'
  BY <1>MovieInit, NullAssumption DEF MovieInit, Movies, TypeInv, CallsOK, ThreadInv, EmptyInv, DisplayInv
<1>show. ASSUME show PROVE ShownInv'
  BY <1>show, NullAssumption DEF show, TypeInv, CallsOK, ThreadInv, EmptyInv, DisplayInv
<1>showBuf. ASSUME showBuf PROVE ShownInv'
  BY <1>showBuf, NullAssumption DEF showBuf, resetRotateScale, TypeInv, CallsOK, ThreadInv, EmptyInv, DisplayInv
<1>released. ASSUME released PROVE ShownInv'
  BY <1>released, NullAssumption DEF released, resetRotateScale, TypeInv, CallsOK, ThreadInv, EmptyInv, DisplayInv
<1>post. ASSUME post PROVE ShownInv'
  BY <1>post, NullAssumption DEF post, TypeInv, CallsOK, ThreadInv, EmptyInv, DisplayInv
<1>threadLoop. ASSUME threadLoop PROVE ShownInv'
  BY <1>threadLoop, NullAssumption DEF threadLoop, TypeInv, CallsOK, ThreadInv, EmptyInv, DisplayInv
<1>MovieRender. ASSUME MovieRender PROVE ShownInv'
  BY <1>MovieRender, NullAssumption DEF MovieRender, LoopsOrExits, Kinds, TypeInv, CallsOK, ThreadInv, EmptyInv, DisplayInv
<1>MoviePost. ASSUME MoviePost PROVE ShownInv'
  BY <1>MoviePost, NullAssumption DEF MoviePost, LoopsOrExits, TypeInv, CallsOK, ThreadInv, EmptyInv, DisplayInv
<1>Kill. ASSUME Kill PROVE ShownInv'
  BY <1>Kill, NullAssumption DEF Kill, Dies, TypeInv, CallsOK, ThreadInv, EmptyInv, DisplayInv
<1>Restart. ASSUME Restart PROVE ShownInv'
  BY <1>Restart, NullAssumption DEF Restart, TypeInv, CallsOK, ThreadInv, EmptyInv, DisplayInv
<1>Dropped. ASSUME Dropped PROVE ShownInv'
  BY <1>Dropped, NullAssumption DEF Dropped, TypeInv, CallsOK, ThreadInv, EmptyInv, DisplayInv
<1>still. ASSUME UNCHANGED imgVars PROVE ShownInv'
  BY <1>still DEF imgVars, TypeInv, CallsOK, ThreadInv, EmptyInv, DisplayInv
<1> QED
  BY <1>init, <1>release, <1>ShowMovie, <1>showStill, <1>showBufStill, <1>none, <1>prepareMovie, <1>prepareStill, <1>setCropRect, <1>setDataSource, <1>prepareBufMovie, <1>prepareBufStill, <1>setRotate, <1>setScale, <1>vanishing, <1>uneven, <1>setRotateScale, <1>Stopped, <1>MovieInit, <1>show, <1>showBuf, <1>released, <1>post, <1>threadLoop, <1>MovieRender, <1>MoviePost, <1>Kill, <1>Restart, <1>Dropped, <1>still
     DEF ImgNext, Call, Continue, MovieThread

-----------------------------------------------------------------------------
(* Scaling                                                                 *)

LEMMA CropPlain ==
  ASSUME NEW b \in Bitmaps, Plain(b), NEW s \in Int
  PROVE  scaleAndCrop(b, s) = [of |-> b.of, turned |-> b.turned, step |-> s,
                               view |-> Larger(0, s), detail |-> Smaller(0, s)]
BY NullAssumption DEF Plain, scaleAndCrop, Bitmaps

\* Going on in the same direction, scaling what was scaled is scaling the base.
LEMMA CropTwice ==
  ASSUME NEW b \in Bitmaps, Plain(b), NEW s \in Int, NEW d \in Int,
         (s >= 0 /\ d >= 0) \/ (s <= 0 /\ d <= 0)
  PROVE  scaleAndCrop(scaleAndCrop(b, s), d) = scaleAndCrop(b, s + d)
<1> DEFINE c == scaleAndCrop(b, s)
<1>1. c \in Bitmaps /\ c # NULL
  BY BitmapTypes, CropPlain, NullAssumption DEF BitmapOrNull, Bitmaps, Larger, Smaller
<1>2. /\ c.of = b.of /\ c.turned = b.turned /\ c.step = s
      /\ c.view = Larger(0, s) /\ c.detail = Smaller(0, s)
  BY CropPlain
<1>3. scaleAndCrop(c, d) = [of |-> c.of, turned |-> c.turned, step |-> c.step + d,
                            view |-> Larger(c.view, c.step + d),
                            detail |-> Smaller(c.detail, c.step + d)]
  BY <1>1 DEF scaleAndCrop
<1>4. Larger(Larger(0, s), s + d) = Larger(0, s + d)
  BY DEF Larger
<1>5. Smaller(Smaller(0, s), s + d) = Smaller(0, s + d)
  BY DEF Smaller
<1>6. scaleAndCrop(b, s + d) = [of |-> b.of, turned |-> b.turned, step |-> s + d,
                                view |-> Larger(0, s + d), detail |-> Smaller(0, s + d)]
  BY CropPlain
<1> HIDE DEF c
<1>7. scaleAndCrop(c, d) = scaleAndCrop(b, s + d)
  BY <1>2, <1>3, <1>4, <1>5, <1>6
<1> QED BY <1>7 DEF c

LEMMA PlainDecoded ==
  /\ \A f : Plain(Decoded(f))
  /\ \A f, b : b \in Decodings(f) => Plain(b)
  /\ \A b \in BitmapOrNull : b # NULL /\ Plain(b) => Plain(rotate(b))
  /\ Plain(NULL)
<1>1. \A f : Plain(Decoded(f))
  BY DEF Plain, Decoded
<1>2. Plain(NULL)
  BY DEF Plain
<1>3. \A f, b : b \in Decodings(f) => Plain(b)
  BY <1>1, <1>2 DEF Decodings
<1>4. \A b \in BitmapOrNull : b # NULL /\ Plain(b) => Plain(rotate(b))
  BY DEF Plain, rotate, Bitmaps, BitmapOrNull
<1> QED BY <1>1, <1>2, <1>3, <1>4

LEMMA PlainNext == TypeInv /\ PlainInv /\ [ImgNext]_imgVars => PlainInv'
<1> SUFFICES ASSUME TypeInv, PlainInv, [ImgNext]_imgVars PROVE PlainInv'
  OBVIOUS
<1> USE DEF PlainInv, image, bitmaps, zoom, movie, screen, process, progress, Called, Return
<1>init. ASSUME init PROVE PlainInv'
  BY <1>init, PlainDecoded DEF init, TypeInv, BitmapsOK
<1>release. ASSUME release PROVE PlainInv'
  BY <1>release, PlainDecoded DEF release, MovieThreadStop, Running, TypeInv, BitmapsOK
<1>ShowMovie. ASSUME ShowMovie PROVE PlainInv'
  BY <1>ShowMovie, PlainDecoded DEF ShowMovie, MovieThreadStart, Running, TypeInv, BitmapsOK
<1>showStill. ASSUME showStill PROVE PlainInv'
  BY <1>showStill, PlainDecoded DEF showStill, MovieThreadStop, Running, TypeInv, BitmapsOK
<1>showBufStill. ASSUME showBufStill PROVE PlainInv'
  BY <1>showBufStill, PlainDecoded DEF showBufStill, MovieThreadStop, Running, TypeInv, BitmapsOK
<1>none. ASSUME NoMovieThread PROVE PlainInv'
  BY <1>none, PlainDecoded DEF NoMovieThread, Dies, TypeInv, BitmapsOK
<1>prepareMovie. ASSUME prepareMovie PROVE PlainInv'
  BY <1>prepareMovie, PlainDecoded DEF prepareMovie, Prepares, MovieThreadStop, Running, TypeInv, BitmapsOK
<1>prepareStill. ASSUME prepareStill PROVE PlainInv'
  BY <1>prepareStill, PlainDecoded DEF prepareStill, Prepares, resetRotateScale, render, TypeInv, BitmapsOK
<1>setCropRect. ASSUME setCropRect PROVE PlainInv'
  BY <1>setCropRect, PlainDecoded DEF setCropRect, renderAndShow, render, Untouched, TypeInv, BitmapsOK
<1>setDataSource. ASSUME NEW f \in Files, setDataSource(f) PROVE PlainInv'
  BY <1>setDataSource, PlainDecoded DEF setDataSource, TypeInv, BitmapsOK
<1>prepareBufMovie. ASSUME NEW f \in Files, prepareBufMovie(f) PROVE PlainInv'
  BY <1>prepareBufMovie, PlainDecoded DEF prepareBufMovie, MovieThreadStop, Running, TypeInv, BitmapsOK
<1>prepareBufStill. ASSUME NEW f \in Files, prepareBufStill(f) PROVE PlainInv'
  BY <1>prepareBufStill, PlainDecoded DEF prepareBufStill, TypeInv, BitmapsOK
<1>setRotate. ASSUME setRotate PROVE PlainInv'
  BY <1>setRotate, PlainDecoded DEF setRotate, renderAndShow, render, Untouched, TypeInv, BitmapsOK
<1>setScale. ASSUME NEW d \in Scales, setScale(d) PROVE PlainInv'
  BY <1>setScale, PlainDecoded DEF setScale, renderAndShow, render, Untouched, TypeInv, BitmapsOK
<1>vanishing. ASSUME NEW d \in Scales, setScaleVanishing(d) PROVE PlainInv'
  BY <1>vanishing, PlainDecoded DEF setScaleVanishing, Dies, TypeInv, BitmapsOK
<1>uneven. ASSUME NEW d \in Scales, setScaleUneven(d) PROVE PlainInv'
  BY <1>uneven, PlainDecoded DEF setScaleUneven, renderAndShow, render, Untouched, TypeInv, BitmapsOK
<1>setRotateScale. ASSUME NEW d \in Scales, setRotateScale(d) PROVE PlainInv'
  BY <1>setRotateScale, PlainDecoded DEF setRotateScale, renderAndShow, render, resetRotateScale, Untouched, TypeInv, BitmapsOK
<1>Stopped. ASSUME Stopped PROVE PlainInv'
  BY <1>Stopped, PlainDecoded DEF Stopped, Running, TypeInv, BitmapsOK
<1>MovieInit. ASSUME MovieInit PROVE PlainInv'
  BY <1>MovieInit, PlainDecoded DEF MovieInit, Movies, TypeInv, BitmapsOK
<1>show. ASSUME show PROVE PlainInv'
  BY <1>show, PlainDecoded DEF show, TypeInv, BitmapsOK
<1>showBuf. ASSUME showBuf PROVE PlainInv'
  BY <1>showBuf, PlainDecoded DEF showBuf, resetRotateScale, TypeInv, BitmapsOK
<1>released. ASSUME released PROVE PlainInv'
  BY <1>released, PlainDecoded DEF released, resetRotateScale, TypeInv, BitmapsOK
<1>post. ASSUME post PROVE PlainInv'
  BY <1>post, PlainDecoded DEF post, TypeInv, BitmapsOK
<1>threadLoop. ASSUME threadLoop PROVE PlainInv'
  BY <1>threadLoop, PlainDecoded DEF threadLoop, TypeInv, BitmapsOK
<1>MovieRender. ASSUME MovieRender PROVE PlainInv'
  BY <1>MovieRender, PlainDecoded DEF MovieRender, LoopsOrExits, Kinds, TypeInv, BitmapsOK
<1>MoviePost. ASSUME MoviePost PROVE PlainInv'
  BY <1>MoviePost, PlainDecoded DEF MoviePost, LoopsOrExits, TypeInv, BitmapsOK
<1>Kill. ASSUME Kill PROVE PlainInv'
  BY <1>Kill, PlainDecoded DEF Kill, Dies, TypeInv, BitmapsOK
<1>Restart. ASSUME Restart PROVE PlainInv'
  BY <1>Restart, PlainDecoded DEF Restart, TypeInv, BitmapsOK
<1>Dropped. ASSUME Dropped PROVE PlainInv'
  BY <1>Dropped, PlainDecoded DEF Dropped, TypeInv, BitmapsOK
<1>still. ASSUME UNCHANGED imgVars PROVE PlainInv'
  BY <1>still DEF imgVars, TypeInv, BitmapsOK
<1> QED
  BY <1>init, <1>release, <1>ShowMovie, <1>showStill, <1>showBufStill, <1>none, <1>prepareMovie, <1>prepareStill, <1>setCropRect, <1>setDataSource, <1>prepareBufMovie, <1>prepareBufStill, <1>setRotate, <1>setScale, <1>vanishing, <1>uneven, <1>setRotateScale, <1>Stopped, <1>MovieInit, <1>show, <1>showBuf, <1>released, <1>post, <1>threadLoop, <1>MovieRender, <1>MoviePost, <1>Kill, <1>Restart, <1>Dropped, <1>still
     DEF ImgNext, Call, Continue, MovieThread

LEMMA NoDirection == Direction(0) = "SCALE_NORMAL"
BY DEF Direction

LEMMA ScaledNext == TypeInv /\ EmptyInv /\ PlainInv /\ ScaledInv /\ [ImgNext]_imgVars => ScaledInv'
<1> SUFFICES ASSUME TypeInv, EmptyInv, PlainInv, ScaledInv, [ImgNext]_imgVars PROVE ScaledInv'
  OBVIOUS
<1> USE DEF ScaledInv, ScaledFromBase, Base, image, bitmaps, zoom, movie, screen, process, progress, Called, Return
<1>init. ASSUME init PROVE ScaledInv'
  BY <1>init, NullAssumption, NoDirection DEF init, EmptyInv
<1>release. ASSUME release PROVE ScaledInv'
  BY <1>release, NullAssumption, NoDirection DEF release, MovieThreadStop, Running, EmptyInv
<1>ShowMovie. ASSUME ShowMovie PROVE ScaledInv'
  BY <1>ShowMovie, NullAssumption, NoDirection DEF ShowMovie, MovieThreadStart, Running, EmptyInv
<1>showStill. ASSUME showStill PROVE ScaledInv'
  BY <1>showStill, NullAssumption, NoDirection DEF showStill, MovieThreadStop, Running, EmptyInv
<1>showBufStill. ASSUME showBufStill PROVE ScaledInv'
  BY <1>showBufStill, NullAssumption, NoDirection DEF showBufStill, MovieThreadStop, Running, EmptyInv
<1>none. ASSUME NoMovieThread PROVE ScaledInv'
  BY <1>none, NullAssumption, NoDirection DEF NoMovieThread, Dies, EmptyInv
<1>prepareMovie. ASSUME prepareMovie PROVE ScaledInv'
  BY <1>prepareMovie, NullAssumption, NoDirection DEF prepareMovie, Prepares, MovieThreadStop, Running, EmptyInv
<1>prepareStill. ASSUME prepareStill PROVE ScaledInv'
  BY <1>prepareStill, NullAssumption, NoDirection DEF prepareStill, Prepares, resetRotateScale, render, EmptyInv
<1>setCropRect. ASSUME setCropRect PROVE ScaledInv'
  BY <1>setCropRect, NullAssumption, NoDirection DEF setCropRect, renderAndShow, render, Untouched, EmptyInv
<1>setDataSource. ASSUME NEW f \in Files, setDataSource(f) PROVE ScaledInv'
  BY <1>setDataSource, NullAssumption, NoDirection DEF setDataSource, EmptyInv
<1>prepareBufMovie. ASSUME NEW f \in Files, prepareBufMovie(f) PROVE ScaledInv'
  BY <1>prepareBufMovie, NullAssumption, NoDirection DEF prepareBufMovie, MovieThreadStop, Running, EmptyInv
<1>prepareBufStill. ASSUME NEW f \in Files, prepareBufStill(f) PROVE ScaledInv'
  BY <1>prepareBufStill, NullAssumption, NoDirection DEF prepareBufStill, EmptyInv
<1>setRotate. ASSUME setRotate PROVE ScaledInv'
  BY <1>setRotate, NullAssumption, NoDirection DEF setRotate, renderAndShow, render, Untouched, EmptyInv
<1>setScale. ASSUME NEW d \in Scales, setScale(d) PROVE ScaledInv'
  <2>1. /\ d \in Int /\ mScalingStep \in Int /\ mScalingStep + d \in Int
        /\ mScalingBitmap \in BitmapOrNull
    BY ScalesInt DEF TypeInv, BitmapsOK
  <2>2. /\ mScalingBitmap' = ScalingBitmap(d) /\ mScalingStep' = mScalingStep + d
        /\ mScalingDirect' = Direction(mScalingStep')
        /\ UNCHANGED <<mBitmap, mRotateBitmap, mDisplayFd>>
    BY <1>setScale DEF setScale, Untouched
  <2> SUFFICES ASSUME mDisplayFd, mBitmap # NULL, ScalingBitmap(d) # NULL
               PROVE  ScalingBitmap(d) = scaleAndCrop(Base, mScalingStep + d)
    BY <2>2
  <2>3. Base \in Bitmaps /\ Plain(Base)
    BY DEF PlainInv, TypeInv, BitmapsOK, BitmapOrNull
  <2>4. mScalingBitmap # NULL => mScalingBitmap = scaleAndCrop(Base, mScalingStep)
    OBVIOUS
  <2>5. scaleAndCrop(NULL, d) = NULL
    BY DEF scaleAndCrop
  <2> HIDE DEF Base
  <2>6. CASE mScalingStep = 0
    <3>1. ScalingBitmap(d) = scaleAndCrop(Base, d)
      BY <2>6, NoDirection DEF ScalingBitmap
    <3> QED BY <3>1, <2>1, <2>6
  <2>7. CASE (mScalingStep > 0 /\ d > 0) \/ (mScalingStep < 0 /\ d < 0)
    <3>1. ScalingBitmap(d) = scaleAndCrop(mScalingBitmap, d)
      BY <2>1, <2>7 DEF ScalingBitmap, Direction
    <3>2. mScalingBitmap = scaleAndCrop(Base, mScalingStep)
      BY <3>1, <2>4, <2>5
    <3> QED BY <3>1, <3>2, <2>1, <2>3, <2>7, CropTwice
  <2>8. CASE (mScalingStep > 0 /\ d <= 0) \/ (mScalingStep < 0 /\ d >= 0)
    <3>1. ScalingBitmap(d) =
            IF d = 0 THEN mScalingBitmap ELSE scaleStep(Base, mScalingStep + d)
      BY <2>1, <2>8 DEF ScalingBitmap, Direction
    <3>2. CASE d = 0
      BY <3>1, <3>2, <2>1, <2>4
    <3>3. CASE d # 0
      BY <3>1, <3>3 DEF scaleStep
    <3> QED BY <3>2, <3>3
  <2> QED BY <2>1, <2>6, <2>7, <2>8
<1>vanishing. ASSUME NEW d \in Scales, setScaleVanishing(d) PROVE ScaledInv'
  BY <1>vanishing, NullAssumption, NoDirection DEF setScaleVanishing, Dies, EmptyInv
<1>uneven. ASSUME NEW d \in Scales, setScaleUneven(d) PROVE ScaledInv'
  BY <1>uneven, NullAssumption, NoDirection DEF setScaleUneven, renderAndShow, render, Untouched, EmptyInv
<1>setRotateScale. ASSUME NEW d \in Scales, setRotateScale(d) PROVE ScaledInv'
  <2> DEFINE turned == rotate(mBitmap)
             scaled == scaleAndCrop(turned, d)
  <2>1. CASE resetRotateScale
    BY <2>1, NoDirection DEF resetRotateScale
  <2>2. CASE ~resetRotateScale
    <3>1. /\ mBitmap # NULL /\ mRotateBitmap' = turned /\ mScalingBitmap' = scaled
          /\ mScalingDirect' = Direction(d) /\ mScalingStep' = d
      BY <1>setRotateScale, <2>2 DEF setRotateScale
    <3>2. turned # NULL
      BY <3>1, BitmapTypes, NullAssumption DEF TypeInv, BitmapsOK, BitmapOrNull
    <3> HIDE DEF turned
    <3> QED BY <3>1, <3>2
  <2> QED BY <2>1, <2>2
<1>Stopped. ASSUME Stopped PROVE ScaledInv'
  BY <1>Stopped, NullAssumption, NoDirection DEF Stopped, Running, EmptyInv
<1>MovieInit. ASSUME MovieInit PROVE ScaledInv'
  BY <1>MovieInit, NullAssumption, NoDirection DEF MovieInit, Movies, EmptyInv
<1>show. ASSUME show PROVE ScaledInv'
  BY <1>show, NullAssumption, NoDirection DEF show, EmptyInv
<1>showBuf. ASSUME showBuf PROVE ScaledInv'
  BY <1>showBuf, NullAssumption, NoDirection DEF showBuf, resetRotateScale, EmptyInv
<1>released. ASSUME released PROVE ScaledInv'
  BY <1>released, NullAssumption, NoDirection DEF released, resetRotateScale, EmptyInv
<1>post. ASSUME post PROVE ScaledInv'
  BY <1>post, NullAssumption, NoDirection DEF post, EmptyInv
<1>threadLoop. ASSUME threadLoop PROVE ScaledInv'
  BY <1>threadLoop, NullAssumption, NoDirection DEF threadLoop, EmptyInv
<1>MovieRender. ASSUME MovieRender PROVE ScaledInv'
  BY <1>MovieRender, NullAssumption, NoDirection DEF MovieRender, LoopsOrExits, Kinds, EmptyInv
<1>MoviePost. ASSUME MoviePost PROVE ScaledInv'
  BY <1>MoviePost, NullAssumption, NoDirection DEF MoviePost, LoopsOrExits, EmptyInv
<1>Kill. ASSUME Kill PROVE ScaledInv'
  BY <1>Kill, NullAssumption, NoDirection DEF Kill, Dies, EmptyInv
<1>Restart. ASSUME Restart PROVE ScaledInv'
  BY <1>Restart, NullAssumption, NoDirection DEF Restart, EmptyInv
<1>Dropped. ASSUME Dropped PROVE ScaledInv'
  BY <1>Dropped, NullAssumption, NoDirection DEF Dropped, EmptyInv
<1>still. ASSUME UNCHANGED imgVars PROVE ScaledInv'
  BY <1>still DEF imgVars, EmptyInv
<1> QED
  BY <1>init, <1>release, <1>ShowMovie, <1>showStill, <1>showBufStill, <1>none, <1>prepareMovie, <1>prepareStill, <1>setCropRect, <1>setDataSource, <1>prepareBufMovie, <1>prepareBufStill, <1>setRotate, <1>setScale, <1>vanishing, <1>uneven, <1>setRotateScale, <1>Stopped, <1>MovieInit, <1>show, <1>showBuf, <1>released, <1>post, <1>threadLoop, <1>MovieRender, <1>MoviePost, <1>Kill, <1>Restart, <1>Dropped, <1>still
     DEF ImgNext, Call, Continue, MovieThread

-----------------------------------------------------------------------------
(* The theorems                                                            *)

ImgInv == TypeInv /\ EmptyInv /\ ThreadInv /\ DisplayInv /\ ShownInv /\ PlainInv /\ ScaledInv

LEMMA ImgInvInit == ImgInit => ImgInv
<1> SUFFICES ASSUME ImgInit PROVE ImgInv
  OBVIOUS
<1>1. TypeInv
  BY TypeInit
<1>2. EmptyInv
  BY DEF ImgInit, EmptyInv, Phase
<1>3. ThreadInv /\ DisplayInv /\ ShownInv
  BY DEF ImgInit, ThreadInv, DisplayInv, ShownInv, Waiting, Phase
<1>4. PlainInv /\ ScaledInv
  BY NoDirection DEF ImgInit, PlainInv, Plain, ScaledInv, ScaledFromBase
<1> QED BY <1>1, <1>2, <1>3, <1>4 DEF ImgInv

LEMMA ImgInvNext == ImgInv /\ [ImgNext]_imgVars => ImgInv'
<1> SUFFICES ASSUME ImgInv, [ImgNext]_imgVars PROVE ImgInv'
  OBVIOUS
<1>1. TypeInv'
  BY FlagsNext, CallsNext, BitmapsNext, BufferNext DEF ImgInv, TypeInv
<1>2. EmptyInv' /\ ThreadInv' /\ DisplayInv'
  BY EmptyNext, ThreadNext, DisplayNext DEF ImgInv
<1>3. ShownInv' /\ PlainInv' /\ ScaledInv'
  BY ShownNext, PlainNext, ScaledNext DEF ImgInv
<1> QED BY <1>1, <1>2, <1>3 DEF ImgInv

LEMMA ImgInvariant == ImgSpec => []ImgInv
BY ImgInvInit, ImgInvNext, PTL DEF ImgSpec

\* The members of the service have their types; in particular a call that waits
\* for MovieThread knows how it goes on (MovieThreadStop), and showBuf still has
\* a bitmap to copy.
THEOREM ImgTypeCorrect == ImgSpec => []ImgTypeOK
<1>1. ImgInv => ImgTypeOK
  BY TypeInvType DEF ImgInv
<1> QED BY <1>1, ImgInvariant, PTL

\* MovieThread takes no lock, and never draws from a movie that MovieInit or
\* release has deleted.
THEOREM MovieStaysAlive == ImgSpec => []MovieAlive
<1>1. ImgInv => MovieAlive
  BY DEF ImgInv, ThreadInv, MovieAlive
<1> QED BY <1>1, ImgInvariant, PTL

\* However often it was scaled, what setScale shows is the base scaled once.
THEOREM ScalesFromBase == ImgSpec => []ScaledFromBase
<1>1. ImgInv => ScaledFromBase
  BY DEF ImgInv, ScaledInv
<1> QED BY <1>1, ImgInvariant, PTL

\* The still that show, showBuf, setRotate or setScale put on the screen is
\* there until the next call: no frame of a movie comes after it.
THEOREM StillStays == ImgSpec => []ShownIsAsked
<1>1. ImgInv => ShownIsAsked
  BY DEF ImgInv, ShownInv, ShownIsAsked, Phase
<1> QED BY <1>1, ImgInvariant, PTL

\* release leaves no bitmap, movie, thread or device in the service, whichever
\* calls came before it.
THEOREM ReleaseLeavesNothing == ImgSpec => []ReleasedIsEmpty
<1>1. ImgInv => ReleasedIsEmpty
  BY DEF ImgInv, EmptyInv, ReleasedIsEmpty
<1> QED BY <1>1, ImgInvariant, PTL
=============================================================================
