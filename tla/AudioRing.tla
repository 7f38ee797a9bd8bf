----------------------------- MODULE AudioRing -----------------------------
(***************************************************************************)
(* core/jni/HDMIIN/mAlsa.cpp: the ring of samples between the callback of  *)
(* AudioRecord, which fills it from HDMI-in, and the callback of           *)
(* AudioTrack, which empties it.  The two run on threads of their own; the *)
(* body of each is under temp_buffer_lock and is one step here.            *)
(*                                                                         *)
(* Pointers are offsets from temp_buffer, in samples.  A frame is as long  *)
(* as AudioRecord and AudioTrack choose, which is not under src/.          *)
(***************************************************************************)
EXTENDS Integers, Sequences

CONSTANTS
  Size,     \* temp_buffer_size
  MinDist,  \* save_distance_min
  MidDist,  \* mid_buffer_distance
  Sample,   \* what a place of the buffer may hold
  Zero,     \* silence
  RecMax,   \* bound: the longest frame of the recorder
  PlayMax   \* bound: the longest frame of the tracker

ASSUME RingAssumption ==
  /\ Size \in Nat /\ MinDist \in Nat /\ MidDist \in Nat
  /\ RecMax \in Nat /\ PlayMax \in Nat
  /\ MinDist < MidDist /\ MinDist < Size - MidDist
  /\ RecMax <= MinDist /\ PlayMax <= MinDist
  /\ Zero \in Sample

VARIABLES
  cell,   \* temp_buffer
  W,      \* record_write_pointer
  R,      \* playback_read_pointer
  muted,  \* mAlsaUninit has called MuteTempBuffer
  kept,   \* has the recorder's last frame gone into the buffer?
  out     \* the frame the tracker got last, <<>> if pbuf was not touched

vars == <<cell, W, R, muted, kept, out>>

Pos == 0 .. Size - 1

-----------------------------------------------------------------------------
(* Helpers                                                                 *)

WriteSpace == IF W >= R THEN Size - (W - R) ELSE R - W
ReadSpace  == IF W >= R THEN W - R ELSE Size - (R - W)

\* A pointer k places on; at end_temp_buffer it goes back to temp_buffer.
Plus(p, k) == IF p + k < Size THEN p + k ELSE p + k - Size

\* How far c is behind p in the direction of the pointers.
Offset(c, p) == IF c >= p THEN c - p ELSE c - p + Size

\* The place holds a sample that was recorded and not played.
Unread(c) == Offset(c, R) < ReadSpace

-----------------------------------------------------------------------------
\* InitTempBuffer: new short[temp_buffer_size] holds anything.
InitTempBuffer ==
  /\ cell \in [Pos -> Sample]
  /\ W = 0 /\ R = 0
  /\ muted = FALSE
  /\ kept = FALSE /\ out = <<>>

Init == InitTempBuffer

\* Mutant: the frame is refused only when the buffer is full.
RecordFull(f) ==
  /\ WriteSpace > 0
  /\ cell' = [c \in Pos |-> IF Offset(c, W) < Len(f) THEN f[Offset(c, W) + 1] ELSE cell[c]]
  /\ W' = Plus(W, Len(f))
  /\ kept' = TRUE
  /\ UNCHANGED <<R, muted, out>>

Record(f) ==
  /\ WriteSpace > MinDist
  /\ cell' = [c \in Pos |-> IF Offset(c, W) < Len(f) THEN f[Offset(c, W) + 1] ELSE cell[c]]
  /\ W' = Plus(W, Len(f))
  /\ kept' = TRUE
  /\ UNCHANGED <<R, muted, out>>

\* "Throw a frame data away"
ThrowAway ==
  /\ WriteSpace <= MinDist
  /\ kept' = FALSE
  /\ UNCHANGED <<cell, W, R, muted, out>>

recorderCallback ==
  ThrowAway \/ \E k \in 1 .. RecMax : \E f \in [1 .. k -> Sample] : Record(f)

\* Mutant: the second copy of a frame that wraps starts where the first one did.
PlayUnwrapped(k) ==
  /\ ReadSpace > MinDist
  /\ out' = [i \in 1 .. k |-> cell[IF R + i - 1 < Size THEN R + i - 1 ELSE R]]
  /\ cell' = [c \in Pos |-> IF Offset(c, R) < k THEN Zero ELSE cell[c]]
  /\ R' = Plus(R, k)
  /\ UNCHANGED <<W, muted, kept>>

Play(k) ==
  /\ ReadSpace > MinDist
  /\ out' = [i \in 1 .. k |-> cell[Plus(R, i - 1)]]
  /\ cell' = [c \in Pos |-> IF Offset(c, R) < k THEN Zero ELSE cell[c]]
  /\ R' = Plus(R, k)
  /\ UNCHANGED <<W, muted, kept>>

\* Mutant: the read pointer is put on the write pointer.
StartOverEmpty ==
  /\ ReadSpace <= MinDist
  /\ W' = 0
  /\ R' = 0
  /\ out' = <<>>
  /\ UNCHANGED <<cell, muted, kept>>

\* The pointers start over with the read pointer ahead of the write pointer.
StartOver ==
  /\ ReadSpace <= MinDist
  /\ W' = 0
  /\ R' = MidDist
  /\ out' = <<>>
  /\ UNCHANGED <<cell, muted, kept>>

trackerCallback == StartOver \/ \E k \in 1 .. PlayMax : Play(k)

\* Nothing is done without a tracker.  The memset is given temp_buffer_size as
\* a number of bytes, which is half of the samples.
MuteTempBuffer ==
  /\ ~muted
  /\ muted' = TRUE
  /\ \/ /\ R' = W
        /\ cell' = [c \in Pos |-> IF 2 * c < Size THEN Zero ELSE cell[c]]
        /\ out' = <<>>
     \/ UNCHANGED <<R, cell, out>>
  /\ UNCHANGED <<W, kept>>

\* FreeTempBuffer, and InitTempBuffer of the next mAlsaInit.
Renew ==
  /\ muted
  /\ cell' \in [Pos -> Sample]
  /\ W' = 0 /\ R' = 0
  /\ muted' = FALSE
  /\ kept' = FALSE /\ out' = <<>>

\* By the time of MuteTempBuffer the recorder is gone.
Next ==
  \/ ~muted /\ recorderCallback
  \/ trackerCallback
  \/ MuteTempBuffer
  \/ Renew

Spec == Init /\ [][Next]_vars

\* AudioRecord and AudioTrack keep calling.
FairSpec ==
  /\ Spec
  /\ WF_vars(~muted /\ recorderCallback)
  /\ WF_vars(trackerCallback)

-----------------------------------------------------------------------------
(* Properties                                                              *)

\* The pointers never leave the buffer, and only the frames it may hold are
\* handed out.
TypeOK ==
  /\ cell \in [Pos -> Sample]
  /\ W \in Pos /\ R \in Pos
  /\ muted \in BOOLEAN
  /\ kept \in BOOLEAN
  /\ out = <<>> \/ \E k \in 1 .. PlayMax : out \in [1 .. k -> Sample]

\* The recorder never writes over a sample that was not played, nor past it.
UnreadKept ==
  [][\A k \in 1 .. RecMax : \A f \in [1 .. k -> Sample] :
       Record(f) => \A c \in Pos : Unread(c) => Unread(c)' /\ cell'[c] = cell[c]]_vars

\* The two callbacks never stop each other: while the stream is on, the
\* recorder's frames go in again and again and the tracker gets frames again
\* and again.
StreamFlows == <>[]~muted => []<>kept /\ []<>(out # <<>>)

\* The ring is a queue.
queueBar == [i \in 1 .. ReadSpace |-> cell[Plus(R, i - 1)]]

Fifo == INSTANCE AudioFifo WITH queue <- queueBar, Refill <- Size - MidDist

ImplementsFifo == Fifo!Spec
=============================================================================
