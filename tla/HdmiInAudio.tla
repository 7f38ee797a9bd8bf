---------------------------- MODULE HdmiInAudio ----------------------------
(***************************************************************************)
(* The sound of HDMI-in: droid_logic_server_HDMIIN.cpp, which the          *)
(* application polls with handleAudio, and the start and the stop of the   *)
(* recorder and the tracker in mAlsa.cpp.  What the callbacks do with the  *)
(* samples is in AudioRing; here it is who runs when, and what exists.     *)
(*                                                                         *)
(* One thread of the application calls the JNI functions (the locks of     *)
(* mAlsa.cpp other than temp_buffer_lock are taken by that thread only).   *)
(* AudioRecord and AudioTrack have a thread each for their callback.       *)
(***************************************************************************)
EXTENDS Integers

CONSTANTS Rates,    \* values of audio_sample_rate in kHz, 0 among them
          NoRate,   \* a text without "kHz", for which atof gives 0
          None      \* nothing could be read, or what was read is forgotten

ASSUME RatesAssumption == 0 \in Rates /\ NoRate \notin Rates /\ None \notin Rates \cup {NoRate}

Texts == Rates \cup {NoRate, None}

VARIABLES
  \* The application's thread
  pc,            \* the function it is in, "idle" for none
  starting,      \* mAlsaUninit is called by mAlsaInit and not by audioStop
  audioState, audioEnable, videoEnable, audioRate, rate,
  \* What exists outside
  signal,        \* audio_sample_rate of the receiver
  muted,         \* sys.hdmiin.mute
  capture,       \* sys.hdmiIn.Capture
  fds,           \* descriptors of AUDIO_UTILS that are open
  lineIn,        \* AMAUDIO_IOC_START_LINE_IN was the last request
  \* mAlsa.cpp
  buffer,        \* temp_buffer is not NULL
  temp_buffer_lock,
  glp,           \* glp[s]: "null", "set", or "clearing" from stop() on
  thread         \* thread[s]: the callback's thread, "off" if it is gone

control == <<pc, starting, audioState, audioEnable, videoEnable, audioRate, rate>>
outside == <<signal, muted, capture, fds, lineIn>>
alsa == <<buffer, temp_buffer_lock, glp, thread>>
vars == <<control, outside, alsa>>

Streams == {"recorder", "tracker"}

Init ==
  /\ pc = "idle" /\ starting = FALSE
  /\ audioState = 0 /\ audioEnable = TRUE /\ videoEnable = FALSE
  /\ audioRate = None /\ rate = 0
  /\ signal \in Texts
  /\ muted = FALSE /\ capture = FALSE /\ fds = 0 /\ lineIn = FALSE
  /\ buffer = FALSE /\ temp_buffer_lock = "free"
  /\ glp = [s \in Streams |-> "null"]
  /\ thread = [s \in Streams |-> "off"]

-----------------------------------------------------------------------------
(* The threads of the callbacks.                                           *)

\* recorderCallback and trackerCallback up to the lock.  The stream may be
\* on its way out already: glpRecorder is NULL only when clear() has returned.
CallBack(s) ==
  /\ thread[s] = "idle"
  /\ glp[s] # "null"
  /\ thread' = [thread EXCEPT ![s] = "waiting"]
  /\ UNCHANGED <<control, outside, buffer, temp_buffer_lock, glp>>

Enter(s) ==
  /\ thread[s] = "waiting" /\ temp_buffer_lock = "free"
  /\ thread' = [thread EXCEPT ![s] = "copying"]
  /\ temp_buffer_lock' = s
  /\ UNCHANGED <<control, outside, buffer, glp>>

Leave(s) ==
  /\ thread[s] = "copying"
  /\ thread' = [thread EXCEPT ![s] = "idle"]
  /\ temp_buffer_lock' = "free"
  /\ UNCHANGED <<control, outside, buffer, glp>>

\* The thread goes when the destructor has asked it to.
Exit(s) ==
  /\ glp[s] = "clearing" /\ thread[s] = "idle"
  /\ thread' = [thread EXCEPT ![s] = "off"]
  /\ UNCHANGED <<control, outside, buffer, temp_buffer_lock, glp>>

-----------------------------------------------------------------------------
(* mAlsaUninit                                                             *)

Goto(l) == pc' = l /\ UNCHANGED <<starting, audioState, audioEnable, videoEnable, audioRate, rate>>

\* stop() and the first half of clear(), which waits for the thread.
Clear(s) ==
  /\ glp[s] = "set"
  /\ glp' = [glp EXCEPT ![s] = "clearing"]
  /\ UNCHANGED <<control, buffer, temp_buffer_lock, thread>>

\* The other half, when there is no thread any more, or no stream at all.
Cleared(s) ==
  /\ glp[s] # "set" /\ thread[s] = "off"
  /\ glp' = [glp EXCEPT ![s] = "null"]
  /\ UNCHANGED <<buffer, temp_buffer_lock, thread>>

FreeRecorder ==
  /\ pc = "FreeRecorder"
  /\ Clear("recorder") \/ (Cleared("recorder") /\ Goto("MuteTempBuffer"))
  /\ capture' = FALSE
  /\ UNCHANGED <<signal, muted, fds, lineIn>>

\* Mutant: the tracker is not freed.
MuteAndGo ==
  /\ pc = "MuteTempBuffer" /\ temp_buffer_lock = "free"
  /\ Goto("FreeTempBuffer")
  /\ UNCHANGED <<outside, alsa>>

\* The read pointer is moved under the lock (AudioRing).
MuteTempBuffer ==
  /\ pc = "MuteTempBuffer" /\ temp_buffer_lock = "free"
  /\ Goto("FreeTracker")
  /\ UNCHANGED <<outside, alsa>>

\* Mutant: the tracker is freed under the lock of the buffer.
FreeTrackerLocked ==
  /\ pc = "FreeTracker"
  /\ \/ /\ glp["tracker"] = "set" /\ temp_buffer_lock = "free"
        /\ glp' = [glp EXCEPT !["tracker"] = "clearing"]
        /\ temp_buffer_lock' = "control"
        /\ UNCHANGED <<control, buffer, thread>>
     \/ /\ glp["tracker"] # "set" /\ thread["tracker"] = "off"
        /\ glp' = [glp EXCEPT !["tracker"] = "null"]
        /\ temp_buffer_lock' = "free"
        /\ Goto("FreeTempBuffer")
        /\ UNCHANGED <<buffer, thread>>
  /\ UNCHANGED outside

FreeTracker ==
  /\ pc = "FreeTracker"
  /\ Clear("tracker") \/ (Cleared("tracker") /\ Goto("FreeTempBuffer"))
  /\ UNCHANGED outside

\* The end of mAlsaUninit: on with mAlsaInit, or to the end of audioStop.
FreeTempBuffer ==
  /\ pc = "FreeTempBuffer" /\ temp_buffer_lock = "free"
  /\ buffer' = FALSE
  /\ Goto(IF starting THEN "InitTempBuffer" ELSE "stopped")
  /\ UNCHANGED <<outside, temp_buffer_lock, glp, thread>>

-----------------------------------------------------------------------------
(* The rest of mAlsaInit                                                   *)

InitTempBuffer ==
  /\ pc = "InitTempBuffer" /\ temp_buffer_lock = "free"
  /\ buffer' = TRUE /\ capture' = TRUE
  /\ Goto("NewRecorder")
  /\ UNCHANGED <<signal, muted, fds, lineIn, temp_buffer_lock, glp, thread>>

\* new, set, initCheck and start.  A stream that fails has no thread and is
\* gone again in the same step.
NewRecorder ==
  /\ pc = "NewRecorder"
  /\ \/ /\ glp' = [glp EXCEPT !["recorder"] = "set"]
        /\ thread' = [thread EXCEPT !["recorder"] = "idle"]
        /\ Goto("NewTracker")
     \/ UNCHANGED <<glp, thread>> /\ Goto("started")
  /\ UNCHANGED <<outside, buffer, temp_buffer_lock>>

NewTracker ==
  /\ pc = "NewTracker"
  /\ \/ /\ glp' = [glp EXCEPT !["tracker"] = "set"]
        /\ thread' = [thread EXCEPT !["tracker"] = "idle"]
        /\ Goto("started")
     \/ UNCHANGED <<glp, thread>> /\ Goto("UndoRecorder")
  /\ UNCHANGED <<outside, buffer, temp_buffer_lock>>

\* FreeRecorder after a tracker that failed.
UndoRecorder ==
  /\ pc = "UndoRecorder"
  /\ Clear("recorder") \/ (Cleared("recorder") /\ Goto("started"))
  /\ UNCHANGED outside

-----------------------------------------------------------------------------
(* droid_logic_server_HDMIIN.cpp                                           *)

\* Mutant: the rate that was read last is not forgotten.
enableAudioOnly(flag) ==
  /\ pc = "idle"
  /\ audioEnable' = flag
  /\ UNCHANGED <<pc, starting, audioState, videoEnable, audioRate, rate, outside, alsa>>

enableAudio(flag) ==
  /\ pc = "idle"
  /\ audioEnable' = flag
  /\ audioRate' = None
  /\ UNCHANGED <<pc, starting, audioState, videoEnable, rate, outside, alsa>>

\* displayHdmi, displayPip, displayOSD and startVideo; displayAndroid and deinit.
setVideo(on) ==
  /\ pc = "idle"
  /\ videoEnable' = on
  /\ UNCHANGED <<pc, starting, audioState, audioEnable, audioRate, rate, outside, alsa>>

\* The first part of handleAudio: a rate other than the one that was read last
\* is taken over, and is silence if it is 0.
ReadRate ==
  IF signal \notin {None, audioRate}
  THEN /\ audioRate' = signal
       /\ rate' = IF signal = NoRate THEN 0 ELSE signal
       /\ muted' = (rate' = 0)
  ELSE UNCHANGED <<audioRate, rate, muted>>

\* audioStart up to mAlsaInit.  /dev/amaudio_utils may not open.
audioStart ==
  /\ fds' \in {fds, fds + 1}
  /\ pc' = "FreeRecorder" /\ starting' = TRUE
  /\ UNCHANGED <<audioState, lineIn>>

\* audioStop up to mAlsaUninit.
audioStop ==
  /\ lineIn' = (lineIn /\ fds = 0)
  /\ fds' = IF fds > 0 THEN fds - 1 ELSE 0
  /\ pc' = "FreeRecorder" /\ starting' = FALSE
  /\ UNCHANGED audioState

\* Mutant: a new rate starts the sound again.
handleAudioRestart ==
  /\ pc = "idle"
  /\ ReadRate
  /\ IF signal \in Rates /\ videoEnable /\ audioEnable
       THEN IF audioState = 0 \/ signal # audioRate
              THEN audioStart
              ELSE UNCHANGED <<pc, starting, audioState, fds, lineIn>>
       ELSE IF ~audioEnable /\ audioState # 0
              THEN audioStop
              ELSE UNCHANGED <<pc, starting, audioState, fds, lineIn>>
  /\ UNCHANGED <<audioEnable, videoEnable, signal, capture, alsa>>

\* audioState is 1 only between audioStart and AudioUtilsStartLineIn of one
\* call: what the code does for a new rate in that state is never done.
handleAudio ==
  /\ pc = "idle"
  /\ ReadRate
  /\ IF signal \in Rates /\ videoEnable /\ audioEnable
       THEN IF audioState = 0
              THEN audioStart
              ELSE UNCHANGED <<pc, starting, audioState, fds, lineIn>>
       ELSE IF ~audioEnable /\ audioState # 0
              THEN audioStop
              ELSE UNCHANGED <<pc, starting, audioState, fds, lineIn>>
  /\ UNCHANGED <<audioEnable, videoEnable, signal, capture, alsa>>

\* The end of handleAudio after audioStart, whatever mAlsaInit returned.
started ==
  /\ pc = "started"
  /\ pc' = "idle" /\ audioState' = 2
  /\ lineIn' = (lineIn \/ fds > 0)
  /\ UNCHANGED <<starting, audioEnable, videoEnable, audioRate, rate, signal, muted, capture, fds, alsa>>

\* The end of audioStop and of handleAudio.
stopped ==
  /\ pc = "stopped"
  /\ pc' = "idle" /\ audioState' = 0
  /\ muted' = FALSE
  /\ UNCHANGED <<starting, audioEnable, videoEnable, audioRate, rate, signal, capture, fds, lineIn, alsa>>

\* External: the source changes its rate or goes.
SignalChanges ==
  /\ signal' \in Texts \ {signal}
  /\ UNCHANGED <<control, muted, capture, fds, lineIn, alsa>>

-----------------------------------------------------------------------------
Inside ==
  \/ FreeRecorder \/ MuteTempBuffer \/ FreeTracker \/ FreeTempBuffer
  \/ InitTempBuffer \/ NewRecorder \/ NewTracker \/ UndoRecorder
  \/ started \/ stopped

Next ==
  \/ \E s \in Streams : CallBack(s) \/ Enter(s) \/ Leave(s) \/ Exit(s)
  \/ Inside
  \/ \E flag \in BOOLEAN : enableAudio(flag)
  \/ \E on \in BOOLEAN : setVideo(on)
  \/ handleAudio
  \/ SignalChanges

Spec == Init /\ [][Next]_vars

\* A thread that is not waiting for the lock runs on, and one that is gets it
\* if it is free again and again: a callback comes once per frame and has the
\* lock for a copy only.
FairSpec ==
  /\ Spec
  /\ SF_vars(Inside)
  /\ \A s \in Streams : SF_vars(Enter(s)) /\ WF_vars(Leave(s)) /\ SF_vars(Exit(s))

-----------------------------------------------------------------------------
(* Properties                                                              *)

Labels == {"idle", "FreeRecorder", "MuteTempBuffer", "FreeTracker", "FreeTempBuffer",
           "InitTempBuffer", "NewRecorder", "NewTracker", "UndoRecorder", "started", "stopped"}

TypeOK ==
  /\ pc \in Labels
  /\ starting \in BOOLEAN
  /\ audioState \in {0, 2}
  /\ audioEnable \in BOOLEAN
  /\ videoEnable \in BOOLEAN
  /\ audioRate \in Texts
  /\ rate \in Rates
  /\ signal \in Texts
  /\ muted \in BOOLEAN
  /\ capture \in BOOLEAN
  /\ fds \in {0, 1}
  /\ lineIn \in BOOLEAN
  /\ buffer \in BOOLEAN
  /\ temp_buffer_lock \in {"free"} \cup Streams
  /\ glp \in [Streams -> {"null", "set", "clearing"}]
  /\ thread \in [Streams -> {"off", "idle", "waiting", "copying"}]

\* A callback that has come past its lock finds the buffer, whatever mAlsaInit
\* and mAlsaUninit do meanwhile.
BufferAlive == \A s \in Streams : thread[s] = "copying" => buffer

\* When the sound is off nothing of it is left: no stream, no callback, no
\* buffer, no open device, no request to record.
NothingLeft ==
  pc = "idle" /\ audioState = 0 =>
    /\ \A s \in Streams : glp[s] = "null" /\ thread[s] = "off"
    /\ ~buffer /\ ~capture /\ fds = 0 /\ ~lineIn

\* While the sound is on it is muted exactly when the rate is 0, however often
\* it was switched off and on before.
MuteFollowsRate == pc = "idle" /\ audioState # 0 => muted = (rate = 0)

\* handleAudio returns: nobody waits for a callback that waits for him.
ControlReturns == pc # "idle" ~> pc = "idle"
=============================================================================
