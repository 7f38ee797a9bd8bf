----------------------------- MODULE UsbCamera -----------------------------
(***************************************************************************)
(* UsbCameraManager.java: the camera applications are enabled while a      *)
(* camera is there.  Each broadcast of the USB service starts a thread     *)
(* that polls /dev/video* until the kernel has made or removed the node.   *)
(* The broadcasts and bootReady run in the main thread of one process.     *)
(* A thread's poll and what it does about it are one step: that a camera   *)
(* does not come or go in these milliseconds is assumed.                   *)
(***************************************************************************)
EXTENDS Naturals, Sequences

CONSTANTS MaxCameras,  \* the sockets
          MaxEvents    \* how often a camera comes or goes (a bound)

ASSUME CameraAssumption == MaxCameras \in 1 .. 5 /\ MaxEvents \in Nat

VARIABLES
  plugged,   \* the cameras in the sockets
  devNum,    \* the nodes /dev/video* that the kernel has made
  cameras,   \* Camera.getNumberOfCameras
  enabled,   \* the applications' components; kept over a restart
  booted,    \* bootReady has run
  sent,      \* the broadcasts since boot: TRUE for an attach
  threads    \* the VideoDevThread of each broadcast that was received

camVars == <<plugged, devNum, cameras, enabled, booted, sent, threads>>

\* External: at boot the USB service reports what is plugged in; the camera
\* service counted the nodes that were there when it started.
CamInit ==
  /\ plugged \in 0 .. MaxCameras /\ devNum \in 0 .. plugged /\ cameras \in 0 .. devNum
  /\ enabled \in BOOLEAN
  /\ booted = FALSE
  /\ sent = [n \in 1 .. plugged |-> TRUE] /\ threads = <<>>

hasCamera == cameras > 0

bootReady ==
  /\ ~booted
  /\ booted' = TRUE
  /\ enabled' = (enabled /\ hasCamera)
  /\ UNCHANGED <<plugged, devNum, cameras, sent, threads>>

Ended == 3
Running(t) == threads[t].loopCount < Ended

NodesMade(th) == th.mIsAttach /\ (devNum > th.mCamNum \/ (devNum > 0 /\ devNum = th.mCamNum))
NodesGone(th) == ~th.mIsAttach /\ devNum < th.mCamNum
NodesStay(th) == ~NodesMade(th) /\ ~NodesGone(th) /\ th.mCamNum > 0 /\ th.mCamNum = devNum

\* What has happened is known, but for the threads that wait for ever.
Calm ==
  /\ booted /\ devNum = plugged /\ Len(threads) = Len(sent)
  /\ \A t \in 1 .. Len(threads) :
       Running(t) => ~(NodesMade(threads[t]) \/ NodesGone(threads[t]) \/ NodesStay(threads[t]))

\* A single camera comes and goes as fast as it likes.  With two the broadcast
\* of one is answered before the other comes or goes: this is assumed, for the
\* thread of one would take its numbers from the other.
MayChange == Len(sent) < MaxEvents /\ (Calm \/ (plugged <= 1 /\ cameras <= 1 /\ devNum <= 1))

\* External: the node goes with the camera and comes some time after it.
PlugIn ==
  /\ MayChange /\ plugged < (IF Calm THEN MaxCameras ELSE 1)
  /\ plugged' = plugged + 1 /\ sent' = Append(sent, TRUE)
  /\ UNCHANGED <<devNum, cameras, enabled, booted, threads>>

PullOut ==
  /\ MayChange /\ plugged > 0
  /\ plugged' = plugged - 1 /\ devNum' = plugged'
  /\ sent' = Append(sent, FALSE)
  /\ UNCHANGED <<cameras, enabled, booted, threads>>

NodeAppears ==
  /\ devNum < plugged
  /\ devNum' = devNum + 1
  /\ UNCHANGED <<plugged, cameras, enabled, booted, sent, threads>>

\* onReceive and the constructor of the thread, in the order of the broadcasts.
UsbDeviceAttach ==
  /\ Len(threads) < Len(sent)
  /\ threads' = Append(threads, [mIsAttach |-> sent[Len(threads) + 1], mCamNum |-> cameras,
                                 loopCount |-> 0])
  /\ UNCHANGED <<plugged, devNum, cameras, enabled, booted, sent>>

\* Mutant: one camera of two that goes switches the applications off.
EnabledAfterAny(isAttach) == isAttach
EnabledAfter(isAttach) == isAttach \/ (enabled /\ devNum >= 1)

\* One turn of the loop.  A number of nodes that stays is waited for three
\* turns; one that is 0, or on the wrong side, for ever.
run(t) ==
  LET th == threads[t] IN
  /\ Running(t)
  /\ IF NodesMade(th) \/ NodesGone(th)
     THEN /\ cameras' = devNum                 \* usbCameraAttach counts anew
          /\ enabled' = EnabledAfter(th.mIsAttach)
          /\ threads' = [threads EXCEPT ![t].loopCount = Ended]
     ELSE /\ threads' = IF NodesStay(th)
                        THEN [threads EXCEPT ![t].loopCount = @ + 1] ELSE threads
          /\ UNCHANGED <<cameras, enabled>>
  /\ UNCHANGED <<plugged, devNum, booted, sent>>

CamNext ==
  \/ bootReady \/ PlugIn \/ PullOut \/ NodeAppears \/ UsbDeviceAttach
  \/ \E t \in 1 .. Len(threads) : run(t)

\* The kernel, the broadcasts and every thread go on.
CamFairness ==
  /\ WF_camVars(bootReady) /\ WF_camVars(NodeAppears) /\ WF_camVars(UsbDeviceAttach)
  /\ \A t \in 1 .. MaxEvents : WF_camVars(t <= Len(threads) /\ run(t))

CamSpec == CamInit /\ [][CamNext]_camVars /\ CamFairness

-----------------------------------------------------------------------------
(* Properties                                                              *)

CamTypeOK ==
  /\ plugged \in 0 .. MaxCameras /\ devNum \in 0 .. MaxCameras /\ cameras \in 0 .. MaxCameras
  /\ enabled \in BOOLEAN /\ booted \in BOOLEAN
  /\ sent \in Seq(BOOLEAN)
  /\ threads \in Seq([mIsAttach : BOOLEAN, mCamNum : 0 .. MaxCameras, loopCount : 0 .. Ended])

\* When no camera comes or goes any more the applications are enabled exactly
\* if one is there: whatever was enabled before the restart, in whatever order
\* the threads poll, and however many of them still look for a node.
CameraFollows == <>[](enabled = (plugged > 0))
=============================================================================
