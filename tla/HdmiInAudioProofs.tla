------------------------- MODULE HdmiInAudioProofs -------------------------
(***************************************************************************)
(* Proofs about the start and the stop of HDMI-in's sound, for every set   *)
(* of rates: a callback finds the buffer, and nothing is left of the sound *)
(* when it is off.                                                         *)
(*                                                                         *)
(* A copying callback finds the buffer because its thread exists, which it *)
(* does only while the stream exists, and a stream exists only while the   *)
(* buffer does.  That in turn depends on where mAlsaInit and mAlsaUninit   *)
(* are: the streams are gone before the buffer goes, and mAlsaInit never   *)
(* meets a stream that somebody else has made.                             *)
(***************************************************************************)
EXTENDS HdmiInAudio, TLAPS

\* A thread exists only while its stream does.
ThreadsHaveStreams == \A s \in Streams : glp[s] = "null" => thread[s] = "off"

\* A stream exists only while the buffer does.
StreamsHaveBuffer == \A s \in Streams : ~buffer => glp[s] = "null"

\* What is gone, or there, where mAlsaInit and mAlsaUninit are.
RecorderGone ==
  pc \in {"MuteTempBuffer", "FreeTracker", "FreeTempBuffer", "InitTempBuffer", "NewRecorder",
  "stopped"}
    => glp["recorder"] = "null"

TrackerGone ==
  pc \in {"FreeTempBuffer", "InitTempBuffer", "NewRecorder", "NewTracker", "UndoRecorder",
  "stopped"}
    => glp["tracker"] = "null"

BufferThere == pc \in {"NewRecorder", "NewTracker", "UndoRecorder", "started"} => buffer

BufferGone == pc = "stopped" => ~buffer

CaptureOff ==
  pc \in {"MuteTempBuffer", "FreeTracker", "FreeTempBuffer", "InitTempBuffer",
  "stopped"} => ~capture

\* What handleAudio is about.
Stage ==
  /\ pc # "idle" /\ starting => audioState = 0
  /\ pc # "idle" /\ ~starting => audioState = 2 /\ fds = 0
  /\ pc \in {"InitTempBuffer", "NewRecorder", "NewTracker", "UndoRecorder", "started"} => starting
  /\ pc = "stopped" => ~starting

LineInOpen == lineIn => fds = 1

StreamInv == ThreadsHaveStreams /\ StreamsHaveBuffer /\ RecorderGone /\ TrackerGone

BufferInv == BufferThere /\ BufferGone /\ CaptureOff

StageInv == Stage /\ LineInOpen /\ NothingLeft

IInv == TypeOK /\ StreamInv /\ BufferInv /\ StageInv

\* The sound is muted as the rate says, except where handleAudio does not look
\* at it: it was switched off, or the rate is forgotten.
MuteInv ==
  /\ pc = "idle" /\ audioState # 0 => muted = (rate = 0)
  /\ pc = "idle" /\ audioState = 0 /\ audioEnable /\ audioRate # None => muted = (rate = 0)
  /\ pc # "idle" /\ starting => muted = (rate = 0)
  /\ pc # "idle" /\ ~starting => ~audioEnable

-----------------------------------------------------------------------------
\* Nothing exists at first.
LEMMA InitInv == Init => IInv /\ MuteInv
BY RatesAssumption DEF Init, IInv, StreamInv, BufferInv, StageInv, MuteInv, TypeOK, Texts, Labels,
   Streams, ThreadsHaveStreams, StreamsHaveBuffer, RecorderGone, TrackerGone, BufferThere,
   BufferGone,
   CaptureOff, Stage, LineInOpen, NothingLeft

\* A callback begins: its thread exists, and so does its stream.
LEMMA CallBackKeeps ==
  ASSUME IInv, NEW s \in Streams, CallBack(s)
  PROVE  IInv'
<1> USE DEF IInv, Streams, CallBack, control, outside, alsa
<1>1. TypeOK'
  BY DEF TypeOK, Labels
<1>2. StreamInv'
  BY DEF TypeOK, StreamInv, ThreadsHaveStreams, StreamsHaveBuffer, RecorderGone, TrackerGone
<1>3. BufferInv'
  BY DEF TypeOK, BufferInv, BufferThere, BufferGone, CaptureOff
<1>4. StageInv'
  BY DEF TypeOK, StageInv, Stage, LineInOpen, NothingLeft
<1> QED BY <1>1, <1>2, <1>3, <1>4

\* A callback takes the lock.
LEMMA EnterKeeps ==
  ASSUME IInv, NEW s \in Streams, Enter(s)
  PROVE  IInv'
<1> USE DEF IInv, Streams, Enter, control, outside, alsa
<1>1. TypeOK'
  BY DEF TypeOK, Labels
<1>2. StreamInv'
  BY DEF TypeOK, StreamInv, ThreadsHaveStreams, StreamsHaveBuffer, RecorderGone, TrackerGone
<1>3. BufferInv'
  BY DEF TypeOK, BufferInv, BufferThere, BufferGone, CaptureOff
<1>4. StageInv'
  BY DEF TypeOK, StageInv, Stage, LineInOpen, NothingLeft
<1> QED BY <1>1, <1>2, <1>3, <1>4

\* A callback gives the lock back.
LEMMA LeaveKeeps ==
  ASSUME IInv, NEW s \in Streams, Leave(s)
  PROVE  IInv'
<1> USE DEF IInv, Streams, Leave, control, outside, alsa
<1>1. TypeOK'
  BY DEF TypeOK, Labels
<1>2. StreamInv'
  BY DEF TypeOK, StreamInv, ThreadsHaveStreams, StreamsHaveBuffer, RecorderGone, TrackerGone
<1>3. BufferInv'
  BY DEF TypeOK, BufferInv, BufferThere, BufferGone, CaptureOff
<1>4. StageInv'
  BY DEF TypeOK, StageInv, Stage, LineInOpen, NothingLeft
<1> QED BY <1>1, <1>2, <1>3, <1>4

\* A thread ends.
LEMMA ExitKeeps ==
  ASSUME IInv, NEW s \in Streams, Exit(s)
  PROVE  IInv'
<1> USE DEF IInv, Streams, Exit, control, outside, alsa
<1>1. TypeOK'
  BY DEF TypeOK, Labels
<1>2. StreamInv'
  BY DEF TypeOK, StreamInv, ThreadsHaveStreams, StreamsHaveBuffer, RecorderGone, TrackerGone
<1>3. BufferInv'
  BY DEF TypeOK, BufferInv, BufferThere, BufferGone, CaptureOff
<1>4. StageInv'
  BY DEF TypeOK, StageInv, Stage, LineInOpen, NothingLeft
<1> QED BY <1>1, <1>2, <1>3, <1>4

\* FreeRecorder goes on only when the recorder and its thread are gone.
LEMMA FreeRecorderKeeps ==
  ASSUME IInv, FreeRecorder
  PROVE  IInv'
<1> USE DEF IInv, Streams, FreeRecorder, Clear, Cleared, Goto, control, outside, alsa
<1>1. TypeOK'
  <2>1. glp' \in [Streams -> {"null", "set", "clearing"}]
    BY DEF TypeOK
  <2>2. thread' \in [Streams -> {"off", "idle", "waiting", "copying"}]
    BY DEF TypeOK
  <2> QED BY <2>1, <2>2 DEF TypeOK, Labels
<1>2. StreamInv'
  BY DEF TypeOK, StreamInv, ThreadsHaveStreams, StreamsHaveBuffer, RecorderGone, TrackerGone
<1>3. BufferInv'
  BY DEF TypeOK, BufferInv, BufferThere, BufferGone, CaptureOff
<1>4. StageInv'
  BY DEF TypeOK, StageInv, Stage, LineInOpen, NothingLeft
<1> QED BY <1>1, <1>2, <1>3, <1>4

\* MuteTempBuffer frees nothing.
LEMMA MuteTempBufferKeeps ==
  ASSUME IInv, MuteTempBuffer
  PROVE  IInv'
<1> USE DEF IInv, Streams, MuteTempBuffer, Goto, control, outside, alsa
<1>1. TypeOK'
  BY DEF TypeOK, Labels
<1>2. StreamInv'
  BY DEF TypeOK, StreamInv, ThreadsHaveStreams, StreamsHaveBuffer, RecorderGone, TrackerGone
<1>3. BufferInv'
  BY DEF TypeOK, BufferInv, BufferThere, BufferGone, CaptureOff
<1>4. StageInv'
  BY DEF TypeOK, StageInv, Stage, LineInOpen, NothingLeft
<1> QED BY <1>1, <1>2, <1>3, <1>4

\* FreeTracker goes on only when the tracker and its thread are gone.
LEMMA FreeTrackerKeeps ==
  ASSUME IInv, FreeTracker
  PROVE  IInv'
<1> USE DEF IInv, Streams, FreeTracker, Clear, Cleared, Goto, control, outside, alsa
<1>1. TypeOK'
  <2>1. glp' \in [Streams -> {"null", "set", "clearing"}]
    BY DEF TypeOK
  <2>2. thread' \in [Streams -> {"off", "idle", "waiting", "copying"}]
    BY DEF TypeOK
  <2> QED BY <2>1, <2>2 DEF TypeOK, Labels
<1>2. StreamInv'
  BY DEF TypeOK, StreamInv, ThreadsHaveStreams, StreamsHaveBuffer, RecorderGone, TrackerGone
<1>3. BufferInv'
  BY DEF TypeOK, BufferInv, BufferThere, BufferGone, CaptureOff
<1>4. StageInv'
  BY DEF TypeOK, StageInv, Stage, LineInOpen, NothingLeft
<1> QED BY <1>1, <1>2, <1>3, <1>4

\* The buffer goes when both streams are gone.
LEMMA FreeTempBufferKeeps ==
  ASSUME IInv, FreeTempBuffer
  PROVE  IInv'
<1> USE DEF IInv, Streams, FreeTempBuffer, Goto, control, outside, alsa
<1>1. TypeOK'
  BY DEF TypeOK, Labels
<1>2. StreamInv'
  BY DEF TypeOK, StreamInv, ThreadsHaveStreams, StreamsHaveBuffer, RecorderGone, TrackerGone
<1>3. BufferInv'
  BY DEF TypeOK, BufferInv, BufferThere, BufferGone, CaptureOff
<1>4. StageInv'
  BY DEF TypeOK, StageInv, Stage, LineInOpen, NothingLeft
<1> QED BY <1>1, <1>2, <1>3, <1>4

\* The buffer comes before the streams.
LEMMA InitTempBufferKeeps ==
  ASSUME IInv, InitTempBuffer
  PROVE  IInv'
<1> USE DEF IInv, Streams, InitTempBuffer, Goto, control, outside, alsa
<1>1. TypeOK'
  BY DEF TypeOK, Labels
<1>2. StreamInv'
  BY DEF TypeOK, StreamInv, ThreadsHaveStreams, StreamsHaveBuffer, RecorderGone, TrackerGone
<1>3. BufferInv'
  BY DEF TypeOK, BufferInv, BufferThere, BufferGone, CaptureOff
<1>4. StageInv'
  BY DEF TypeOK, StageInv, Stage, LineInOpen, NothingLeft
<1> QED BY <1>1, <1>2, <1>3, <1>4

\* The recorder is made with the buffer there.
LEMMA NewRecorderKeeps ==
  ASSUME IInv, NewRecorder
  PROVE  IInv'
<1> USE DEF IInv, Streams, NewRecorder, Goto, control, outside, alsa
<1>1. TypeOK'
  <2>1. glp' \in [Streams -> {"null", "set", "clearing"}]
    BY DEF TypeOK
  <2>2. thread' \in [Streams -> {"off", "idle", "waiting", "copying"}]
    BY DEF TypeOK
  <2> QED BY <2>1, <2>2 DEF TypeOK, Labels
<1>2. StreamInv'
  BY DEF TypeOK, StreamInv, ThreadsHaveStreams, StreamsHaveBuffer, RecorderGone, TrackerGone,
     BufferInv, BufferThere
<1>3. BufferInv'
  BY DEF TypeOK, BufferInv, BufferThere, BufferGone, CaptureOff
<1>4. StageInv'
  BY DEF TypeOK, StageInv, Stage, LineInOpen, NothingLeft
<1> QED BY <1>1, <1>2, <1>3, <1>4

\* The tracker is made with the buffer there.
LEMMA NewTrackerKeeps ==
  ASSUME IInv, NewTracker
  PROVE  IInv'
<1> USE DEF IInv, Streams, NewTracker, Goto, control, outside, alsa
<1>1. TypeOK'
  <2>1. glp' \in [Streams -> {"null", "set", "clearing"}]
    BY DEF TypeOK
  <2>2. thread' \in [Streams -> {"off", "idle", "waiting", "copying"}]
    BY DEF TypeOK
  <2> QED BY <2>1, <2>2 DEF TypeOK, Labels
<1>2. StreamInv'
  BY DEF TypeOK, StreamInv, ThreadsHaveStreams, StreamsHaveBuffer, RecorderGone, TrackerGone,
     BufferInv, BufferThere
<1>3. BufferInv'
  BY DEF TypeOK, BufferInv, BufferThere, BufferGone, CaptureOff
<1>4. StageInv'
  BY DEF TypeOK, StageInv, Stage, LineInOpen, NothingLeft
<1> QED BY <1>1, <1>2, <1>3, <1>4

\* The recorder goes, the buffer stays.
LEMMA UndoRecorderKeeps ==
  ASSUME IInv, UndoRecorder
  PROVE  IInv'
<1> USE DEF IInv, Streams, UndoRecorder, Clear, Cleared, Goto, control, outside, alsa
<1>1. TypeOK'
  <2>1. glp' \in [Streams -> {"null", "set", "clearing"}]
    BY DEF TypeOK
  <2>2. thread' \in [Streams -> {"off", "idle", "waiting", "copying"}]
    BY DEF TypeOK
  <2> QED BY <2>1, <2>2 DEF TypeOK, Labels
<1>2. StreamInv'
  BY DEF TypeOK, StreamInv, ThreadsHaveStreams, StreamsHaveBuffer, RecorderGone, TrackerGone
<1>3. BufferInv'
  BY DEF TypeOK, BufferInv, BufferThere, BufferGone, CaptureOff
<1>4. StageInv'
  BY DEF TypeOK, StageInv, Stage, LineInOpen, NothingLeft
<1> QED BY <1>1, <1>2, <1>3, <1>4

\* The sound is on.
LEMMA StartedKeeps ==
  ASSUME IInv, started
  PROVE  IInv'
<1> USE DEF IInv, Streams, started, control, outside, alsa
<1>1. TypeOK'
  BY DEF TypeOK, Labels
<1>2. StreamInv'
  BY DEF TypeOK, StreamInv, ThreadsHaveStreams, StreamsHaveBuffer, RecorderGone, TrackerGone
<1>3. BufferInv'
  BY DEF TypeOK, BufferInv, BufferThere, BufferGone, CaptureOff
<1>4. StageInv'
  BY DEF TypeOK, StageInv, Stage, LineInOpen, NothingLeft
<1> QED BY <1>1, <1>2, <1>3, <1>4

\* The sound is off.
LEMMA StoppedKeeps ==
  ASSUME IInv, stopped
  PROVE  IInv'
<1> USE DEF IInv, Streams, stopped, control, outside, alsa
<1>1. TypeOK'
  BY DEF TypeOK, Labels
<1>2. StreamInv'
  BY DEF TypeOK, StreamInv, ThreadsHaveStreams, StreamsHaveBuffer, RecorderGone, TrackerGone
<1>3. BufferInv'
  BY DEF TypeOK, BufferInv, BufferThere, BufferGone, CaptureOff
<1>4. StageInv'
  BY DEF TypeOK, StageInv, Stage, LineInOpen, NothingLeft, StreamInv, ThreadsHaveStreams,
     RecorderGone, TrackerGone, BufferInv, BufferGone, CaptureOff
<1> QED BY <1>1, <1>2, <1>3, <1>4

\* enableAudio changes nothing that exists.
LEMMA EnableAudioKeeps ==
  ASSUME IInv, NEW flag \in BOOLEAN, enableAudio(flag)
  PROVE  IInv'
<1> USE DEF IInv, Streams, enableAudio, control, outside, alsa
<1>1. TypeOK'
  BY DEF TypeOK, Texts
<1>2. StreamInv'
  BY DEF TypeOK, StreamInv, ThreadsHaveStreams, StreamsHaveBuffer, RecorderGone, TrackerGone
<1>3. BufferInv'
  BY DEF TypeOK, BufferInv, BufferThere, BufferGone, CaptureOff
<1>4. StageInv'
  BY DEF TypeOK, StageInv, Stage, LineInOpen, NothingLeft
<1> QED BY <1>1, <1>2, <1>3, <1>4

\* Nor do the functions that switch the video.
LEMMA SetVideoKeeps ==
  ASSUME IInv, NEW on \in BOOLEAN, setVideo(on)
  PROVE  IInv'
<1> USE DEF IInv, Streams, setVideo, control, outside, alsa
<1>1. TypeOK'
  BY DEF TypeOK
<1>2. StreamInv'
  BY DEF TypeOK, StreamInv, ThreadsHaveStreams, StreamsHaveBuffer, RecorderGone, TrackerGone
<1>3. BufferInv'
  BY DEF TypeOK, BufferInv, BufferThere, BufferGone, CaptureOff
<1>4. StageInv'
  BY DEF TypeOK, StageInv, Stage, LineInOpen, NothingLeft
<1> QED BY <1>1, <1>2, <1>3, <1>4

\* Nor does the receiver.
LEMMA SignalChangesKeeps ==
  ASSUME IInv, SignalChanges
  PROVE  IInv'
<1> USE DEF IInv, Streams, SignalChanges, control, outside, alsa
<1>1. TypeOK'
  BY DEF TypeOK, Labels, Texts
<1>2. StreamInv'
  BY DEF TypeOK, StreamInv, ThreadsHaveStreams, StreamsHaveBuffer, RecorderGone, TrackerGone
<1>3. BufferInv'
  BY DEF TypeOK, BufferInv, BufferThere, BufferGone, CaptureOff
<1>4. StageInv'
  BY DEF TypeOK, StageInv, Stage, LineInOpen, NothingLeft
<1> QED BY <1>1, <1>2, <1>3, <1>4

\* ReadRate keeps the types.
LEMMA ReadRateTyped ==
  ASSUME TypeOK, ReadRate
  PROVE  audioRate' \in Texts /\ rate' \in Rates /\ muted' \in BOOLEAN
<1>1. audioRate' \in Texts
  BY DEF TypeOK, ReadRate
<1>2. rate' \in Rates
  BY RatesAssumption DEF TypeOK, ReadRate, Texts
<1>3. muted' \in BOOLEAN
  <2>1. CASE signal \notin {None, audioRate}
    BY <2>1 DEF ReadRate
  <2>2. CASE signal \in {None, audioRate}
    BY <2>2 DEF ReadRate, TypeOK
  <2> QED BY <2>1, <2>2
<1> QED BY <1>1, <1>2, <1>3

\* handleAudio starts the sound only from nothing, and stops it only when it
\* is on.
LEMMA HandleAudioKeeps ==
  ASSUME IInv, handleAudio
  PROVE  IInv'
<1> USE DEF IInv, Streams, handleAudio, control, outside, alsa
<1>1. audioRate' \in Texts /\ rate' \in Rates /\ muted' \in BOOLEAN
  BY ReadRateTyped
<1>2. CASE audioState = 0 /\ audioStart
  <2>1. /\ pc' \in Labels
        /\ fds' \in {0, 1}
        /\ starting'
    BY <1>2 DEF TypeOK, Labels, audioStart, StageInv, NothingLeft
  <2>2. TypeOK'
    BY <1>1, <1>2, <2>1 DEF TypeOK, audioStart
  <2>3. StreamInv' /\ BufferInv'
    BY <1>2 DEF TypeOK, audioStart, StreamInv, ThreadsHaveStreams, StreamsHaveBuffer,
       RecorderGone, TrackerGone, BufferInv, BufferThere, BufferGone, CaptureOff
  <2>4. StageInv'
    BY <1>2 DEF TypeOK, audioStart, StageInv, Stage, LineInOpen, NothingLeft
  <2> QED BY <2>2, <2>3, <2>4
<1>3. CASE audioState # 0 /\ audioStop
  <2>1. /\ pc' \in Labels
        /\ fds' = 0
        /\ lineIn' = FALSE
    BY <1>3 DEF TypeOK, Labels, audioStop, StageInv, LineInOpen
  <2>2. TypeOK'
    BY <1>1, <1>3, <2>1 DEF TypeOK, audioStop
  <2>3. StreamInv' /\ BufferInv'
    BY <1>3 DEF TypeOK, audioStop, StreamInv, ThreadsHaveStreams, StreamsHaveBuffer,
       RecorderGone, TrackerGone, BufferInv, BufferThere, BufferGone, CaptureOff
  <2>4. StageInv'
    BY <1>3, <2>1 DEF TypeOK, audioStop, StageInv, Stage, LineInOpen, NothingLeft
  <2> QED BY <2>2, <2>3, <2>4
<1>4. CASE UNCHANGED <<pc, starting, audioState, fds, lineIn>>
  <2>1. TypeOK'
    BY <1>1, <1>4 DEF TypeOK
  <2>2. StreamInv' /\ BufferInv' /\ StageInv'
    BY <1>4 DEF TypeOK, StreamInv, ThreadsHaveStreams, StreamsHaveBuffer, RecorderGone,
       TrackerGone, BufferInv, BufferThere, BufferGone, CaptureOff, StageInv, Stage, LineInOpen,
       NothingLeft
  <2> QED BY <2>1, <2>2
<1> QED BY <1>2, <1>3, <1>4

\* Every step keeps the invariant.
LEMMA NextInv == IInv /\ [Next]_vars => IInv'
<1> SUFFICES ASSUME IInv, [Next]_vars
             PROVE  IInv'
  OBVIOUS
<1>1. CASE UNCHANGED vars
  BY <1>1 DEF vars, control, outside, alsa, IInv, TypeOK, StreamInv, ThreadsHaveStreams,
     StreamsHaveBuffer, RecorderGone, TrackerGone, BufferInv, BufferThere, BufferGone,
     CaptureOff, StageInv, Stage, LineInOpen, NothingLeft
<1>2. CASE Inside
  BY <1>2, FreeRecorderKeeps, MuteTempBufferKeeps, FreeTrackerKeeps, FreeTempBufferKeeps,
     InitTempBufferKeeps, NewRecorderKeeps, NewTrackerKeeps, UndoRecorderKeeps,
     StartedKeeps, StoppedKeeps DEF Inside
<1> QED
  BY <1>1, <1>2, CallBackKeeps, EnterKeeps, LeaveKeeps, ExitKeeps, EnableAudioKeeps, SetVideoKeeps,
     HandleAudioKeeps, SignalChangesKeeps DEF Next

LEMMA Invariant == Spec => []IInv
BY InitInv, NextInv, PTL DEF Spec

\* The state is typed; in particular /dev/amaudio_utils is never open twice.
THEOREM TypeCorrect == Spec => []TypeOK
BY Invariant, PTL DEF IInv

\* A callback that has come past its lock finds the buffer, whatever
\* mAlsaInit and mAlsaUninit do meanwhile.
THEOREM CallbackFindsBuffer == Spec => []BufferAlive
<1>1. IInv => BufferAlive
  BY DEF IInv, StreamInv, ThreadsHaveStreams, StreamsHaveBuffer, BufferAlive
<1> QED BY <1>1, Invariant, PTL

\* When the sound is off nothing of it is left.
THEOREM OffLeavesNothing == Spec => []NothingLeft
BY Invariant, PTL DEF IInv, StageInv

LEMMA MuteNext == IInv /\ MuteInv /\ [Next]_vars => MuteInv'
<1> SUFFICES ASSUME IInv, MuteInv, [Next]_vars
             PROVE  MuteInv'
  OBVIOUS
<1>1. CASE handleAudio
  BY <1>1, RatesAssumption DEF handleAudio, ReadRate, audioStart, audioStop, MuteInv, IInv,
     TypeOK, Texts
<1>2. CASE started \/ stopped
  BY <1>2 DEF started, stopped, MuteInv, IInv, TypeOK, StageInv, Stage
<1>3. CASE Inside /\ ~started /\ ~stopped
  <2>1. /\ UNCHANGED <<starting, audioState, audioEnable, audioRate, rate, muted>>
        /\ pc # "idle" /\ pc' # "idle"
    BY <1>3 DEF Inside, FreeRecorder, MuteTempBuffer, FreeTracker, FreeTempBuffer, InitTempBuffer,
       NewRecorder, NewTracker, UndoRecorder, Clear, Cleared, Goto, control, outside
  <2> QED BY <2>1 DEF MuteInv
<1>4. CASE \E flag \in BOOLEAN : enableAudio(flag)
  BY <1>4 DEF enableAudio, MuteInv, outside
<1>5. CASE \E on \in BOOLEAN : setVideo(on)
  BY <1>5 DEF setVideo, MuteInv, outside
<1>6. CASE SignalChanges \/ UNCHANGED vars \/ \E s \in Streams : CallBack(s) \/ Enter(s) \/ Leave(s) \/ Exit(s)
  BY <1>6 DEF SignalChanges, vars, control, outside, CallBack, Enter, Leave, Exit, MuteInv
<1> QED BY <1>1, <1>2, <1>3, <1>4, <1>5, <1>6 DEF Next, Inside

\* The muting follows the rate as long as the sound is on.
THEOREM MuteCorrect == Spec => []MuteFollowsRate
<1>1. MuteInv => MuteFollowsRate
  BY DEF MuteInv, MuteFollowsRate
<1> QED BY <1>1, MuteNext, InitInv, Invariant, PTL DEF Spec
=============================================================================
