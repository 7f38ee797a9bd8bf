----------------------------- MODULE AudioFifo -----------------------------
(***************************************************************************)
(* What the temporary buffer of mAlsa.cpp promises to the recorder and the *)
(* tracker, with no word of pointers: a queue of samples that keeps        *)
(* MinDist free places, refuses what would not fit, hands out samples in   *)
(* the order in which they came, and is filled up with whatever the buffer *)
(* holds when it has run low.                                              *)
(***************************************************************************)
EXTENDS Integers, Sequences

CONSTANTS Size,     \* samples the buffer has room for
          MinDist,  \* what is never written and never read
          Refill,   \* how long the queue is after it has run low
          Sample,   \* what a place of the buffer may hold
          RecMax,   \* the longest frame of the recorder
          PlayMax   \* the longest frame of the tracker

VARIABLES queue,    \* the samples that were recorded and not played
          out       \* the frame the tracker got last, <<>> for none

vars == <<queue, out>>

Frame(n) == UNION {[1 .. k -> Sample] : k \in 1 .. n}

Init == queue = <<>> /\ out = <<>>

\* A frame is queued as a whole.
Record ==
  /\ Size - Len(queue) > MinDist
  /\ \E f \in Frame(RecMax) : queue' = queue \o f
  /\ UNCHANGED out

\* The tracker gets the oldest samples.
Play ==
  /\ Len(queue) > MinDist
  /\ \E k \in 1 .. PlayMax :
       /\ out' = SubSeq(queue, 1, k)
       /\ queue' = SubSeq(queue, k + 1, Len(queue))

\* The queue has run low: the tracker gets nothing this time.
RunLow ==
  /\ Len(queue) <= MinDist
  /\ out' = <<>>
  /\ queue' \in [1 .. Refill -> Sample]

Clear == queue' = <<>> /\ out' = <<>>

Next == Record \/ Play \/ RunLow \/ Clear

Spec == Init /\ [][Next]_vars
=============================================================================
