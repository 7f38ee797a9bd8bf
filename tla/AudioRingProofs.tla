-------------------------- MODULE AudioRingProofs --------------------------
(***************************************************************************)
(* Proofs about the ring of samples of mAlsa.cpp, for every buffer size    *)
(* and every length of the frames: the pointers stay in the buffer, the    *)
(* recorder never writes over a sample that was not played, and the ring   *)
(* is a queue.                                                             *)
(***************************************************************************)
EXTENDS AudioRing, SequenceTheorems, TLAPS

\* The distances leave room for each other.
LEMMA Distances ==
  /\ Size \in Nat /\ MinDist \in Nat /\ MidDist \in Nat
  /\ RecMax \in Nat /\ PlayMax \in Nat
  /\ Size > 0 /\ MidDist < Size /\ MinDist < Size /\ 0 < MidDist
  /\ 0 \in Pos /\ MidDist \in Pos
  /\ RecMax <= MinDist /\ PlayMax <= MinDist
BY RingAssumption DEF RingAssumption, Pos

\* A pointer that moves by less than the buffer's size stays in the buffer.
LEMMA PlusStays ==
  ASSUME NEW p \in Pos, NEW k \in Nat, k < Size
  PROVE  Plus(p, k) \in Pos
BY Distances DEF Plus, Pos

LEMMA OffsetIsNat ==
  ASSUME NEW c \in Pos, NEW p \in Pos
  PROVE  Offset(c, p) \in Nat /\ Offset(c, p) < Size
BY Distances DEF Offset, Pos

\* InitTempBuffer puts the ring in a typed state.
LEMMA InitTyped == Init => TypeOK
BY Distances DEF Init, InitTempBuffer, TypeOK

\* Recording a frame keeps the types.
LEMMA RecordTyped ==
  ASSUME TypeOK, NEW k \in 1 .. RecMax, NEW f \in [1 .. k -> Sample], Record(f)
  PROVE  TypeOK'
<1>1. k \in Nat /\ k < Size /\ Len(f) = k
  BY Distances
<1>2. cell' \in [Pos -> Sample]
  <2>1. ASSUME NEW c \in Pos, Offset(c, W) < Len(f)
        PROVE  f[Offset(c, W) + 1] \in Sample
    <3>1. Offset(c, W) + 1 \in 1 .. k
      BY <1>1, <2>1, OffsetIsNat DEF TypeOK
    <3> QED BY <3>1
  <2> QED BY <2>1 DEF Record, TypeOK
<1>3. W' \in Pos /\ R' \in Pos
  BY <1>1, PlusStays DEF Record, TypeOK
<1>4. muted' \in BOOLEAN
  BY DEF Record, TypeOK
<1>5. kept' \in BOOLEAN
  BY DEF Record
<1>6. (out = <<>> \/ \E j \in 1 .. PlayMax : out \in [1 .. j -> Sample])'
  BY DEF Record, TypeOK
<1> QED BY <1>2, <1>3, <1>4, <1>5, <1>6 DEF TypeOK

\* Playing a frame keeps the types.
LEMMA PlayTyped ==
  ASSUME TypeOK, NEW k \in 1 .. PlayMax, Play(k)
  PROVE  TypeOK'
<1>1. k \in Nat /\ k < Size
  BY Distances
<1>2. cell' \in [Pos -> Sample]
  BY RingAssumption DEF Play, TypeOK, RingAssumption
<1>3. W' \in Pos /\ R' \in Pos
  BY <1>1, PlusStays DEF Play, TypeOK
<1>4. muted' \in BOOLEAN
  BY DEF Play, TypeOK
<1>5. kept' \in BOOLEAN
  BY DEF Play, TypeOK
<1>6. out' \in [1 .. k -> Sample]
  <2>1. ASSUME NEW i \in 1 .. k
        PROVE  cell[Plus(R, i - 1)] \in Sample
    <3>1. i - 1 \in Nat /\ i - 1 < Size
      BY <1>1, Distances
    <3>2. Plus(R, i - 1) \in Pos
      BY <3>1, PlusStays DEF TypeOK
    <3> QED BY <3>2 DEF TypeOK
  <2> QED BY <2>1 DEF Play
<1> QED BY <1>2, <1>3, <1>4, <1>5, <1>6 DEF TypeOK

\* Every step keeps the types.
LEMMA NextTyped == TypeOK /\ [Next]_vars => TypeOK'
<1> SUFFICES ASSUME TypeOK, [Next]_vars
             PROVE  TypeOK'
  OBVIOUS
<1>1. CASE ThrowAway
  BY <1>1 DEF ThrowAway, TypeOK
<1>2. CASE \E k \in 1 .. RecMax : \E f \in [1 .. k -> Sample] : Record(f)
  BY <1>2, RecordTyped
<1>3. CASE StartOver
  BY <1>3, Distances DEF StartOver, TypeOK
<1>4. CASE \E k \in 1 .. PlayMax : Play(k)
  BY <1>4, PlayTyped
<1>5. CASE MuteTempBuffer
  <2>1. cell' \in [Pos -> Sample]
    BY <1>5, RingAssumption DEF MuteTempBuffer, TypeOK, RingAssumption
  <2> QED BY <1>5, <2>1 DEF MuteTempBuffer, TypeOK
<1>6. CASE Renew
  BY <1>6, Distances DEF Renew, TypeOK
<1>7. CASE UNCHANGED vars
  BY <1>7 DEF vars, TypeOK
<1> QED
  BY <1>1, <1>2, <1>3, <1>4, <1>5, <1>6, <1>7 DEF Next, recorderCallback, trackerCallback

\* The pointers stay in the buffer, whatever the lengths of the frames.
THEOREM TypeCorrect == Spec => []TypeOK
BY InitTyped, NextTyped, PTL DEF Spec

\* The heart of UnreadKept: where the frame goes there is no unread sample,
\* and what was unread still is.
LEMMA RecordKeeps ==
  ASSUME TypeOK, NEW k \in 1 .. RecMax, NEW f \in [1 .. k -> Sample], Record(f),
         NEW c \in Pos, Unread(c)
  PROVE  Unread(c)' /\ cell'[c] = cell[c]
<1>1. k \in Nat /\ Len(f) = k /\ k <= MinDist
  BY Distances
<1>2. R' = R /\ W' = Plus(W, k) /\ WriteSpace > k
  BY <1>1, Distances DEF Record, WriteSpace, TypeOK, Pos
<1>3. ~ (Offset(c, W) < k)
  BY <1>1, <1>2, Distances DEF Unread, ReadSpace, WriteSpace, Offset, TypeOK, Pos
<1>4. cell'[c] = cell[c]
  BY <1>1, <1>3 DEF Record
<1>5. Unread(c)'
  BY <1>1, <1>2, Distances DEF Unread, ReadSpace, WriteSpace, Offset, Plus, TypeOK, Pos
<1> QED BY <1>4, <1>5

\* The recorder never writes over a sample that was not played, nor past it.
THEOREM RecorderKeepsUnread == Spec => UnreadKept
<1>1. TypeOK /\ [Next]_vars =>
        [\A k \in 1 .. RecMax : \A f \in [1 .. k -> Sample] :
           Record(f) => \A c \in Pos : Unread(c) => Unread(c)' /\ cell'[c] = cell[c]]_vars
  BY RecordKeeps
<1> QED BY <1>1, TypeCorrect, PTL DEF Spec, UnreadKept

-----------------------------------------------------------------------------
(* The ring is a queue.                                                    *)

\* The two spaces add up to the buffer.
LEMMA Spaces ==
  ASSUME W \in Pos, R \in Pos
  PROVE  ReadSpace \in Nat /\ WriteSpace \in Nat /\ ReadSpace + WriteSpace = Size /\ ReadSpace < Size
BY Distances DEF ReadSpace, WriteSpace, Pos

\* The place i on from the read pointer is i behind it.  A place that is
\* past what was recorded is i - ReadSpace behind the write pointer.
LEMMA PlusOffset ==
  ASSUME W \in Pos, R \in Pos, NEW i \in Nat, i < Size
  PROVE  /\ Plus(R, i) \in Pos
         /\ Offset(Plus(R, i), R) = i
         /\ i >= ReadSpace => Offset(Plus(R, i), W) = i - ReadSpace
         /\ i < ReadSpace => Offset(Plus(R, i), W) = i + WriteSpace
BY Distances DEF Plus, Offset, ReadSpace, WriteSpace, Pos

\* The queue is a sequence of samples, as long as the read space.
QueueSeq ==
  /\ queueBar \in Seq(Sample)
  /\ Len(queueBar) = ReadSpace
  /\ ReadSpace \in Nat /\ ReadSpace < Size
  /\ \A i \in 1 .. ReadSpace : queueBar[i] = cell[Plus(R, i - 1)]

LEMMA QueueIsSeq == TypeOK => QueueSeq
<1> SUFFICES ASSUME TypeOK
             PROVE  QueueSeq
  OBVIOUS
<1>1. ReadSpace \in Nat /\ ReadSpace < Size
  BY Spaces DEF TypeOK
<1>2. ASSUME NEW i \in 1 .. ReadSpace
      PROVE  cell[Plus(R, i - 1)] \in Sample
  <2>1. i - 1 \in Nat /\ i - 1 < Size
    BY <1>1, Distances
  <2>2. Plus(R, i - 1) \in Pos
    BY <2>1, PlusStays DEF TypeOK
  <2> QED BY <2>2 DEF TypeOK
<1>3. queueBar \in [1 .. ReadSpace -> Sample]
  BY <1>2 DEF queueBar
<1> QED BY <1>1, <1>3 DEF queueBar, QueueSeq

\* The same after a step.
LEMMA QueueIsSeqNext == TypeOK' => QueueSeq'
BY QueueIsSeq, PTL

\* Record is Record of the queue: the frame goes to the end of the queue.
LEMMA RecordQueues ==
  ASSUME TypeOK, TypeOK', NEW k \in 1 .. RecMax, NEW f \in [1 .. k -> Sample], Record(f)
  PROVE  Fifo!Record
<1>1. k \in Nat /\ k < Size /\ Len(f) = k /\ f \in Seq(Sample)
  BY Distances
<1>2. /\ W \in Pos /\ R \in Pos /\ R' = R /\ W' = Plus(W, k)
      /\ WriteSpace > k /\ WriteSpace > MinDist
      /\ WriteSpace \in Nat /\ ReadSpace + WriteSpace = Size
  BY <1>1, Distances, Spaces DEF Record, TypeOK
<1>3. ReadSpace' = ReadSpace + k /\ ReadSpace' < Size
  BY <1>1, <1>2, Distances DEF ReadSpace, WriteSpace, Plus, Pos
<1>4. QueueSeq /\ QueueSeq'
  BY QueueIsSeq, QueueIsSeqNext
<1>5. /\ queueBar \o f \in Seq(Sample)
      /\ Len(queueBar \o f) = ReadSpace + k
      /\ \A i \in 1 .. ReadSpace + k :
           (queueBar \o f)[i] = IF i <= ReadSpace THEN queueBar[i] ELSE f[i - ReadSpace]
  BY <1>1, <1>4, ConcatProperties DEF QueueSeq
<1>6. ASSUME NEW i \in 1 .. ReadSpace + k
      PROVE  queueBar'[i] = (queueBar \o f)[i]
  <2>1. i - 1 \in Nat /\ i - 1 < Size /\ i \in 1 .. ReadSpace'
    BY <1>1, <1>3, <1>4, Distances DEF QueueSeq
  <2>2. Plus(R, i - 1) \in Pos
    BY <1>2, <2>1, PlusOffset
  <2>3. queueBar'[i] = cell'[Plus(R, i - 1)]
    BY <1>2, <1>4, <2>1 DEF QueueSeq, Plus
  <2>4. CASE i <= ReadSpace
    <3> i \in Nat /\ ReadSpace \in Nat /\ i - 1 < ReadSpace
      BY <1>4, <2>1, <2>4 DEF QueueSeq
    <3>0. Offset(Plus(R, i - 1), W) = i - 1 + WriteSpace
      BY <1>2, <2>1, PlusOffset
    <3>1. ~ (Offset(Plus(R, i - 1), W) < k)
      BY <1>1, <1>2, <2>1, <3>0
    <3>2. cell'[Plus(R, i - 1)] = cell[Plus(R, i - 1)]
      BY <1>1, <2>2, <3>1 DEF Record
    <3> QED BY <1>4, <1>5, <2>3, <2>4, <3>2 DEF QueueSeq
  <2>5. CASE i > ReadSpace
    <3> i \in Nat /\ ReadSpace \in Nat /\ i - 1 >= ReadSpace
      BY <1>4, <2>1, <2>5 DEF QueueSeq
    <3>1. Offset(Plus(R, i - 1), W) = i - 1 - ReadSpace
      BY <1>2, <2>1, PlusOffset
    <3>2. i - 1 - ReadSpace < k /\ i - 1 - ReadSpace + 1 = i - ReadSpace
      BY <1>1, <1>4 DEF QueueSeq
    <3>3. cell'[Plus(R, i - 1)] = f[i - ReadSpace]
      BY <1>1, <2>2, <3>1, <3>2 DEF Record
    <3> QED BY <1>4, <1>5, <2>3, <2>5, <3>3 DEF QueueSeq
  <2> QED BY <1>4, <2>4, <2>5 DEF QueueSeq
<1>7. queueBar' = queueBar \o f
  <2>1. queueBar' \in Seq(Sample) /\ Len(queueBar') = ReadSpace + k
    BY <1>3, <1>4 DEF QueueSeq
  <2> QED BY <1>5, <1>6, <2>1, SeqEqual
<1>8. Size - Len(queueBar) > MinDist
  BY <1>2, <1>4, Distances DEF QueueSeq
<1>9. f \in Fifo!Frame(RecMax)
  BY DEF Fifo!Frame
<1>10. out' = out
  BY DEF Record
<1> QED BY <1>7, <1>8, <1>9, <1>10 DEF Fifo!Record

\* Play is Play of the queue: the frame is the front of the queue.
LEMMA PlayDequeues ==
  ASSUME TypeOK, TypeOK', NEW k \in 1 .. PlayMax, Play(k)
  PROVE  Fifo!Play
<1>1. k \in Nat /\ k < Size
  BY Distances
<1>2. QueueSeq /\ QueueSeq'
  BY QueueIsSeq, QueueIsSeqNext
<1>3. /\ W \in Pos /\ R \in Pos /\ W' = W /\ R' = Plus(R, k)
      /\ ReadSpace > MinDist /\ k < ReadSpace
  BY <1>1, <1>2, Distances DEF Play, TypeOK, QueueSeq
<1>4. ReadSpace' = ReadSpace - k
  BY <1>1, <1>3, Distances DEF ReadSpace, Plus, Pos
<1>5. out' = SubSeq(queueBar, 1, k)
  <2>1. \A i \in 1 .. k : queueBar[i] = cell[Plus(R, i - 1)]
    BY <1>1, <1>2, <1>3 DEF QueueSeq
  <2>2. SubSeq(queueBar, 1, k) = [i \in 1 .. k |-> queueBar[i]]
    BY <1>1, <1>2, <1>3 DEF QueueSeq
  <2> QED BY <2>1, <2>2 DEF Play
<1>6. queueBar' = SubSeq(queueBar, k + 1, ReadSpace)
  <2>1. /\ SubSeq(queueBar, k + 1, ReadSpace) \in Seq(Sample)
        /\ Len(SubSeq(queueBar, k + 1, ReadSpace)) = ReadSpace - k
        /\ \A i \in 1 .. ReadSpace - k : SubSeq(queueBar, k + 1, ReadSpace)[i] = queueBar[k + i]
    BY <1>1, <1>2, <1>3 DEF QueueSeq
  <2>2. ASSUME NEW i \in 1 .. ReadSpace - k
        PROVE  queueBar'[i] = queueBar[k + i]
    <3>1. i - 1 \in Nat /\ i \in 1 .. ReadSpace' /\ k + i \in 1 .. ReadSpace /\ k + i - 1 < Size
      BY <1>1, <1>2, <1>3, <1>4, Distances DEF QueueSeq
    <3>2. Plus(R', i - 1) = Plus(R, k + i - 1)
      BY <1>1, <1>3, <3>1, Distances DEF Plus, Pos
    <3>3. Plus(R, k + i - 1) \in Pos /\ ~ (Offset(Plus(R, k + i - 1), R) < k)
      BY <1>1, <1>3, <3>1, PlusOffset
    <3>4. cell'[Plus(R, k + i - 1)] = cell[Plus(R, k + i - 1)]
      BY <3>3 DEF Play
    <3>5. queueBar'[i] = cell'[Plus(R', i - 1)]
      BY <1>2, <3>1 DEF QueueSeq, Plus
    <3> QED BY <1>2, <3>1, <3>2, <3>4, <3>5 DEF QueueSeq
  <2>3. queueBar' \in Seq(Sample) /\ Len(queueBar') = ReadSpace - k
    BY <1>2, <1>4 DEF QueueSeq
  <2> QED BY <1>1, <1>2, <2>1, <2>2, <2>3, SeqEqual DEF QueueSeq
<1>7. Len(queueBar) = ReadSpace
  BY <1>2 DEF QueueSeq
<1> QED BY <1>3, <1>5, <1>6, <1>7 DEF Fifo!Play

\* StartOver is RunLow of the queue.
LEMMA StartOverRefills ==
  ASSUME TypeOK, TypeOK', StartOver
  PROVE  Fifo!RunLow
<1>1. QueueSeq /\ QueueSeq'
  BY QueueIsSeq, QueueIsSeqNext
<1>2. ReadSpace' = Size - MidDist
  BY Distances DEF StartOver, ReadSpace, Pos
<1>3. queueBar' \in [1 .. Size - MidDist -> Sample]
  BY <1>1, <1>2 DEF QueueSeq
<1>4. Len(queueBar) <= MinDist /\ out' = <<>>
  BY <1>1 DEF QueueSeq, StartOver
<1> QED BY <1>3, <1>4 DEF Fifo!RunLow

\* With the pointers on one place the queue is empty.
LEMMA EmptyQueue == W = R /\ R \in Pos => queueBar = <<>>
<1> SUFFICES ASSUME W = R, R \in Pos
             PROVE  queueBar = <<>>
  OBVIOUS
<1>1. ReadSpace = 0
  BY Distances DEF ReadSpace, Pos
<1> QED BY <1>1 DEF queueBar

\* The same after a step.
LEMMA EmptyQueueNext == (W = R /\ R \in Pos => queueBar = <<>>)'
BY EmptyQueue, PTL

\* The ring of samples implements the queue: the samples of the frames that were
\* not thrown away are played in the order in which they came, none twice and
\* none left out, until the tracker finds the buffer low and starts over.
THEOREM RingIsFifo == Spec => ImplementsFifo
<1>1. Init => Fifo!Init
  BY EmptyQueue, Distances DEF Init, InitTempBuffer, Fifo!Init
<1>2. TypeOK /\ TypeOK' /\ [Next]_vars => [Fifo!Next]_(Fifo!vars)
  <2> SUFFICES ASSUME TypeOK, TypeOK', [Next]_vars
               PROVE  [Fifo!Next]_(Fifo!vars)
    OBVIOUS
  <2>1. CASE ThrowAway
    BY <2>1 DEF ThrowAway, Fifo!vars, queueBar, ReadSpace, Plus
  <2>2. CASE \E k \in 1 .. RecMax : \E f \in [1 .. k -> Sample] : Record(f)
    BY <2>2, RecordQueues DEF Fifo!Next
  <2>3. CASE StartOver
    BY <2>3, StartOverRefills DEF Fifo!Next
  <2>4. CASE \E k \in 1 .. PlayMax : Play(k)
    BY <2>4, PlayDequeues DEF Fifo!Next
  <2>5. CASE MuteTempBuffer
    <3>1. CASE R' = W /\ out' = <<>>
      BY <2>5, <3>1, EmptyQueueNext DEF MuteTempBuffer, TypeOK, Fifo!Next, Fifo!Clear
    <3>2. CASE UNCHANGED <<R, cell, out>>
      BY <2>5, <3>2 DEF MuteTempBuffer, Fifo!vars, queueBar, ReadSpace, Plus
    <3> QED BY <2>5, <3>1, <3>2 DEF MuteTempBuffer
  <2>6. CASE Renew
    BY <2>6, EmptyQueueNext, Distances DEF Renew, Fifo!Next, Fifo!Clear
  <2>7. CASE UNCHANGED vars
    BY <2>7 DEF vars, Fifo!vars, queueBar, ReadSpace, Plus
  <2> QED
    BY <2>1, <2>2, <2>3, <2>4, <2>5, <2>6, <2>7 DEF Next, recorderCallback, trackerCallback
<1> QED BY <1>1, <1>2, TypeCorrect, PTL DEF Spec, Fifo!Spec, ImplementsFifo
=============================================================================
