--------------------------- MODULE SubtitleThread ---------------------------
(***************************************************************************)
(* SubtitleManager.java: start makes a thread that has the service show    *)
(* the subtitle of the moment about three times a second, close sets a     *)
(* flag that all threads share and forgets the thread.  The player calls   *)
(* from one thread; a thread that sleeps does not see the flag.            *)
(***************************************************************************)
EXTENDS Naturals

CONSTANTS ShowThreads   \* the threads of one manager at the same time (a bound)

VARIABLES
  mThread,       \* the thread that close will forget, or "null"
  mThreadStop,
  mService,      \* the subtitle service was there when the manager was made
  showing,       \* where each thread is: "none", "test", "show", "sleep"
  total,         \* the service has found subtitles for the file
  disabled,      \* sys.subtitle.disable
  \* history
  closed         \* a thread was closed, and nothing was started since

subVars == <<mThread, mThreadStop, mService, showing, total, disabled, closed>>

SubInit ==
  /\ mThread = "null" /\ mThreadStop = FALSE
  /\ mService \in BOOLEAN
  /\ showing = [t \in ShowThreads |-> "none"]
  /\ total = FALSE /\ disabled \in BOOLEAN /\ closed = FALSE

\* Without the service open fails and nothing is shown.
openFile == mService /\ total' \in BOOLEAN

start ==
  /\ mThreadStop' = FALSE /\ closed' = FALSE
  /\ \/ ~mService /\ UNCHANGED <<mThread, showing, total>>
     \/ openFile /\ (~total' \/ mThread # "null") /\ UNCHANGED <<mThread, showing>>
     \/ openFile /\ total' /\ mThread = "null"
        /\ \E t \in ShowThreads : /\ showing[t] = "none"
                                  /\ mThread' = t /\ showing' = [showing EXCEPT ![t] = "test"]
  /\ UNCHANGED <<mService, disabled>>

\* Mutant: the thread is forgotten, the flag is not set.
closeForgets ==
  /\ mThread' = "null"
  /\ total' = FALSE
  /\ closed' = (closed \/ mThread # "null")
  /\ UNCHANGED <<mThreadStop, mService, showing, disabled>>

\* Without a thread that it knows close does not set the flag.
close ==
  /\ mThreadStop' = (mThreadStop \/ mThread # "null")
  /\ mThread' = "null"
  /\ total' = FALSE
  /\ closed' = (closed \/ mThread # "null")
  /\ UNCHANGED <<mService, showing, disabled>>

MoveOn(t, label) == showing' = [showing EXCEPT ![t] = label]

\* The head of the loop.  One that ends because of the property ends all.
testStop(t) ==
  /\ showing[t] = "test"
  /\ MoveOn(t, IF mThreadStop \/ disabled THEN "none" ELSE "show")
  /\ mThreadStop' = (mThreadStop \/ disabled)
  /\ UNCHANGED <<mThread, mService, total, disabled, closed>>

showSub(t) == /\ showing[t] = "show" /\ MoveOn(t, "sleep")
              /\ UNCHANGED <<mThread, mThreadStop, mService, total, disabled, closed>>
wakeUp(t) == /\ showing[t] = "sleep" /\ MoveOn(t, "test")
             /\ UNCHANGED <<mThread, mThreadStop, mService, total, disabled, closed>>

\* External: somebody sets the property.
setDisabled == disabled' = ~disabled /\ UNCHANGED <<mThread, mThreadStop, mService, showing, total, closed>>

runnable(t) == testStop(t) \/ showSub(t) \/ wakeUp(t)

SubNext == start \/ close \/ setDisabled \/ \E t \in ShowThreads : runnable(t)

\* A thread runs on, and wakes up in the end.
SubSpec == SubInit /\ [][SubNext]_subVars /\ \A t \in ShowThreads : WF_subVars(runnable(t))

-----------------------------------------------------------------------------
(* Properties                                                              *)

SubTypeOK ==
  /\ mThread \in ShowThreads \cup {"null"} /\ mThreadStop \in BOOLEAN /\ mService \in BOOLEAN
  /\ showing \in [ShowThreads -> {"none", "test", "show", "sleep"}]
  /\ total \in BOOLEAN /\ disabled \in BOOLEAN /\ closed \in BOOLEAN

\* However many threads a quick close and start have left behind, when the
\* manager closes the one it knows they all stop, unless it is started again.
SubtitlesStop == closed ~> (~closed \/ \A t \in ShowThreads : showing[t] = "none")
=============================================================================
