-------------------------- MODULE UsbStreamProofs --------------------------
(***************************************************************************)
(* Proofs about the two tasks of UsbStream.  Of everything they can do,    *)
(* jobs given up halfway included (Spec): types, and no lost wake-up.  Of  *)
(* the jobs carried to their flush or to the writer's own failure          *)
(* (OrderlySpec): the two memcpy calls never meet, used_ is the distance   *)
(* between the indices, flush() drains, and the USB host takes the job's   *)
(* bytes in order, each once; and the stream implements PrintQueue.        *)
(***************************************************************************)
EXTENDS UsbStreamRefinement, TLAPS, SequenceTheorems

\* Forward and Dist without the modulus.
LEMMA ForwardIs ==
  ASSUME NEW i \in Cells, NEW n \in 0..Capacity
  PROVE  /\ Forward(i, n) = IF i + n < Capacity THEN i + n ELSE i + n - Capacity
         /\ Forward(i, n) \in Cells
<1>1. /\ Capacity \in Nat \ {0} /\ i \in Int /\ n \in Int
      /\ i + n \in Nat /\ i + n < 2 * Capacity
  BY StreamAssumption DEF Cells
<1>2. /\ (i + n) % Capacity \in 0..(Capacity - 1)
      /\ i + n < Capacity => (i + n) % Capacity = i + n
      /\ Capacity <= i + n => (i + n) % Capacity = i + n - Capacity
  BY <1>1
<1> QED
  BY <1>1, <1>2 DEF Forward, Cells

LEMMA DistIs ==
  ASSUME NEW i \in Cells, NEW c \in Cells
  PROVE  /\ Dist(i, c) = IF i <= c THEN c - i ELSE c - i + Capacity
         /\ Dist(i, c) \in Cells
<1>1. /\ Capacity \in Nat \ {0} /\ c - i + Capacity \in Nat
      /\ c - i + Capacity < 2 * Capacity
      /\ i \in Int /\ c \in Int /\ c - i < Capacity
  BY StreamAssumption DEF Cells
<1>2. /\ (c - i + Capacity) % Capacity \in 0..(Capacity - 1)
      /\ c - i + Capacity < Capacity => (c - i + Capacity) % Capacity = c - i + Capacity
      /\ Capacity <= c - i + Capacity => (c - i + Capacity) % Capacity = c - i
  BY <1>1
<1> QED
  BY <1>1, <1>2 DEF Dist, Cells

LEMMA ZeroCell == 0 \in Cells
  BY StreamAssumption DEF Cells

LEMMA LeastIs ==
  ASSUME NEW a \in Nat, NEW b \in Nat
  PROVE  Least(a, b) \in Nat /\ Least(a, b) <= a /\ Least(a, b) <= b
  BY DEF Least

\* Subtraction of size_t stays within a word.
LEMMA WordIs ==
  ASSUME NEW x \in Int
  PROVE  /\ x % Word \in 0..(Word - 1)
         /\ x \in 0..(Word - 1) => x % Word = x
  BY StreamAssumption

\* The lengths of the two memcpy calls.
LEMMA PushNIs ==
  ASSUME TypeOK
  PROVE  PushN \in Nat /\ PushN <= pspace /\ PushN <= len - off
<1>1. pspace \in Nat /\ len - off \in Nat
  BY StreamAssumption DEF TypeOK, TypeLoop
<1> QED
  BY <1>1, LeastIs DEF PushN

LEMMA TakenIs ==
  ASSUME TypeOK
  PROVE  Taken \in Nat /\ Taken <= wavail /\ Taken <= Chunk
<1>1. wavail \in Nat /\ Chunk \in Nat
  BY StreamAssumption DEF TypeOK, TypeWriter
<1> QED
  BY <1>1, LeastIs DEF Taken

LEMMA CopiedByte ==
  ASSUME TypeOK, NEW c \in Cells
  PROVE  <<job, doc + off + 1 + Dist(phead, c)>> \in Byte
<1>1. phead \in Cells /\ job \in Nat /\ doc + off + 1 \in Nat
  BY StreamAssumption DEF TypeOK, TypeLoop
<1>2. Dist(phead, c) \in Cells
  BY <1>1, DistIs
<1> QED
  BY <1>1, <1>2, StreamAssumption DEF Byte, Cells

LEMMA TypeInit == Init => TypeOK
<1>1. Init => TypeShared
  <2>1. Init => ring \in [Cells -> Byte]
    BY DEF Init, Byte
  <2> QED
    BY <2>1, StreamAssumption, ZeroCell DEF Init, TypeShared
<1>2. Init => TypeLoop
  BY StreamAssumption, ZeroCell DEF Init, TypeLoop, LoopPcs
<1>3. Init => TypeWriter
  BY StreamAssumption, ZeroCell DEF Init, TypeWriter, WriterPcs
<1> QED
  BY <1>1, <1>2, <1>3 DEF TypeOK

\* The loop task's steps keep the types ...
LEMMA TypeLoopStep ==
  ASSUME TypeOK,
         \/ \E n \in 1..MaxPush : StartJob(n) \/ NextBlock(n)
         \/ FinishJob \/ LoopStep \/ GiveUp
  PROVE  TypeOK'
<1> USE StreamAssumption, ZeroCell
    DEF TypeOK, TypeShared, TypeLoop, TypeWriter, shared, locals, jobVars, writer, LoopPcs
<1>1. ASSUME NEW n \in 1..MaxPush, StartJob(n) PROVE TypeOK'
  BY <1>1 DEF StartJob, ResetPcs
<1>2. ASSUME NEW n \in 1..MaxPush, NextBlock(n) PROVE TypeOK'
  BY <1>2 DEF NextBlock, PushPcs
<1>3. CASE FinishJob
  BY <1>3 DEF FinishJob, FlushPcs
<1>4. CASE ResetSawIdle \/ ResetGaveUp
  BY <1>4 DEF ResetSawIdle, ResetGaveUp, ResetPcs
<1>5. CASE ResetZero
  BY <1>5 DEF ResetZero, ResetPcs
<1>6. CASE ResetClear
  BY <1>6 DEF ResetClear, ResetPcs
<1>7. CASE ResetGive
  BY <1>7 DEF ResetGive, PushPcs
<1>8. CASE PushCheck
  BY <1>8 DEF PushCheck, PushReturnsFalse, PushPcs
<1>9. CASE PushTimeout
  BY <1>9 DEF PushTimeout, PushReturnsFalse, PushPcs
<1>10. CASE PushSpace
  <2>1. FreeSpace \in 0..(Word - 1)
    BY DEF FreeSpace
  <2> QED
    BY <1>10, <2>1 DEF PushSpace, PushPcs
<1>11. CASE PushWaits
  BY <1>11 DEF PushWaits, PushPcs
<1>12. CASE PushCopy
  <2>2. ring' \in [Cells -> Byte]
    BY <1>12, CopiedByte DEF PushCopy
  <2> QED
    BY <1>12, <2>2 DEF PushCopy, PushPcs
<1>13. CASE PushPublish
  <2>1. PushN \in Nat /\ PushN <= len - off
    BY PushNIs
  <2>2. Forward(phead, PushN) \in Cells /\ (used + PushN) % Word \in 0..(Word - 1)
    BY <2>1 DEF Forward, Cells
  <2> QED
    BY <1>13, <2>1, <2>2 DEF PushPublish, PushPcs
<1>14. CASE PushGive
  BY <1>14 DEF PushGive
<1>15. CASE FlushFailed
  BY <1>15 DEF FlushFailed, EndJob, FlushPcs
<1>16. CASE FlushUsed \/ FlushBusy
  BY <1>16 DEF FlushUsed, FlushBusy, FlushPcs
<1>17. CASE FlushUsb \/ FlushTimeout \/ AbandonJob
  BY <1>17 DEF FlushUsb, FlushTimeout, AbandonJob, EndJob
<1> QED
  BY <1>1, <1>2, <1>3, <1>4, <1>5, <1>6, <1>7, <1>8, <1>9, <1>10, <1>11, <1>12, <1>13, <1>14,
     <1>15, <1>16, <1>17 DEF LoopStep, GiveUp

\* ... and so do the writer's.
LEMMA TypeWriterStep == TypeOK /\ WriterStep => TypeOK'
<1> SUFFICES ASSUME TypeOK, WriterStep PROVE TypeOK'
  OBVIOUS
<1> USE StreamAssumption, ZeroCell
    DEF TypeOK, TypeShared, TypeLoop, TypeWriter, producer, locals, jobVars, WriterPcs
<1>1. CASE WriterTop
  BY <1>1 DEF WriterTop
<1>2. CASE WriterLook
  BY <1>2 DEF WriterLook, shared
<1>3. CASE WriterCopy
  <2>1. Taken \in Nat
    BY TakenIs
  <2>2. \A i \in 1..Taken : ring[Forward(wtail, i - 1)] \in Byte
    BY <2>1 DEF Forward, Cells
  <2>3. staging' \in Seq(Byte)
    BY <1>3, <2>1, <2>2 DEF WriterCopy
  <2> QED
    BY <1>3, <2>3 DEF WriterCopy, shared
<1>4. CASE WriterTake
  <2>1. Forward(wtail, Taken) \in Cells /\ (used - Taken) % Word \in 0..(Word - 1)
    <3>1. Taken \in Nat
      BY TakenIs
    <3> QED
      BY <3>1 DEF Forward, Cells
  <2> QED
    BY <1>4, <2>1 DEF WriterTake
<1>5. CASE Write
  BY <1>5 DEF Write, shared
<1>6. CASE WriteFails
  BY <1>6 DEF WriteFails, shared
<1>7. CASE WriterLower
  BY <1>7 DEF WriterLower
<1>8. CASE WriterFail
  BY <1>8 DEF WriterFail
<1>9. CASE WriterEmpty
  BY <1>9 DEF WriterEmpty
<1>10. CASE WriterWakes
  BY <1>10 DEF WriterWakes
<1> QED
  BY <1>1, <1>2, <1>3, <1>4, <1>5, <1>6, <1>7, <1>8, <1>9, <1>10 DEF WriterStep

LEMMA TypeStep == TypeOK /\ [Next]_vars => TypeOK'
<1>1. TypeOK /\ UNCHANGED vars => TypeOK'
  BY DEF vars, shared, producer, writer, locals, jobVars, TypeOK, TypeShared, TypeLoop, TypeWriter
<1> QED
  BY <1>1, TypeLoopStep, TypeWriterStep DEF Next, OrderlyNext, Calls

\* The fields of the stream and the locals of its two tasks keep their types in
\* every interleaving, the underflow of used_ included.
THEOREM TypeCorrect == Spec => []TypeOK
  BY TypeInit, TypeStep, PTL DEF Spec
-----------------------------------------------------------------------------
(***************************************************************************)
(* No lost wake-up.  The writer that is asleep without a token, or has     *)
(* found the ring empty and is about to sleep, found it empty after the    *)
(* last give; all that can have come in since belongs to the push under    *)
(* way, which never exceeds the ring and so never meets it full.           *)
(***************************************************************************)
Asleep == wpc \in {"empty", "sleep"} /\ ~wake /\ ~failed

Unfinished ==
  ppc \in ResetPcs \cup (PushPcs \ {"push_give"}) => off < len

Awaited ==
  Asleep => \/ used = 0
            \/ ppc \in PushPcs /\ used + (len - off) <= Capacity
            \/ ppc \in {"reset_clear", "reset_give"}

FullAwake == Asleep /\ ppc = "push_full" => used = 0

WakeInv == Unfinished /\ Awaited /\ FullAwake

LEMMA WakeInit == Init => WakeInv
  BY DEF Init, WakeInv, Unfinished, Awaited, FullAwake, Asleep, ResetPcs, PushPcs

LEMMA WakeLoopStep ==
  ASSUME TypeOK, WakeInv,
         \/ \E n \in 1..MaxPush : StartJob(n) \/ NextBlock(n)
         \/ FinishJob \/ LoopStep \/ GiveUp
  PROVE  WakeInv'
<1>0. /\ used \in Nat /\ used < Word /\ len \in 0..MaxPush /\ off \in 0..len
      /\ pspace \in Nat
      /\ Capacity \in Nat /\ MaxPush \in 1..Capacity /\ Word \in Nat /\ Word > 2 * Capacity
  BY StreamAssumption DEF TypeOK, TypeShared, TypeLoop
<1> USE DEF WakeInv, Unfinished, Awaited, FullAwake, Asleep, ResetPcs, PushPcs, shared,
            writer, locals, jobVars
<1>1. ASSUME NEW n \in 1..MaxPush, StartJob(n) PROVE WakeInv'
  BY <1>0, <1>1 DEF StartJob
<1>2. ASSUME NEW n \in 1..MaxPush, NextBlock(n) PROVE WakeInv'
  BY <1>0, <1>2 DEF NextBlock
<1>3. CASE FinishJob
  BY <1>0, <1>3 DEF FinishJob
<1>4. CASE ResetSawIdle \/ ResetGaveUp
  BY <1>0, <1>4 DEF ResetSawIdle, ResetGaveUp
<1>5. CASE ResetZero
  BY <1>0, <1>5 DEF ResetZero
<1>6. CASE ResetClear
  BY <1>0, <1>6 DEF ResetClear
<1>7. CASE ResetGive
  BY <1>0, <1>7 DEF ResetGive
<1>8. CASE PushCheck
  BY <1>0, <1>8 DEF PushCheck, PushReturnsFalse
<1>9. CASE PushTimeout
  BY <1>0, <1>9 DEF PushTimeout, PushReturnsFalse
<1>10. CASE PushSpace
  <2>1. used <= Capacity => FreeSpace = Capacity - used
    BY <1>0, StreamAssumption DEF FreeSpace
  <2> QED
    BY <1>0, <1>10, <2>1 DEF PushSpace
<1>11. CASE PushWaits
  BY <1>0, <1>11 DEF PushWaits
<1>12. CASE PushCopy
  BY <1>0, <1>12 DEF PushCopy
<1>13. CASE PushPublish
  <2>1. PushN \in Nat /\ PushN <= len - off
    BY PushNIs
  <2>2. used + PushN <= Capacity => (used + PushN) % Word = used + PushN
    BY <1>0, <2>1
  <2> QED
    BY <1>0, <1>13, <2>1, <2>2 DEF PushPublish
<1>14. CASE PushGive
  BY <1>0, <1>14 DEF PushGive
<1>15. CASE FlushFailed
  BY <1>0, <1>15 DEF FlushFailed, EndJob
<1>16. CASE FlushUsed \/ FlushBusy
  BY <1>0, <1>16 DEF FlushUsed, FlushBusy
<1>17. CASE FlushUsb \/ FlushTimeout \/ AbandonJob
  BY <1>0, <1>17 DEF FlushUsb, FlushTimeout, AbandonJob, EndJob
<1> QED
  BY <1>1, <1>2, <1>3, <1>4, <1>5, <1>6, <1>7, <1>8, <1>9, <1>10, <1>11, <1>12, <1>13, <1>14,
     <1>15, <1>16, <1>17 DEF LoopStep, GiveUp

LEMMA WakeWriterStep ==
  ASSUME TypeOK, WakeInv, WriterStep
  PROVE  WakeInv'
<1> USE DEF WakeInv, Unfinished, Awaited, FullAwake, Asleep, shared, producer, locals, jobVars
<1>1. CASE WriterTop
  BY <1>1 DEF WriterTop
<1>2. CASE WriterLook
  BY <1>2 DEF WriterLook
<1>3. CASE WriterCopy \/ WriterTake
  BY <1>3 DEF WriterCopy, WriterTake
<1>4. CASE Write \/ WriteFails \/ WriterLower \/ WriterFail
  BY <1>4 DEF Write, WriteFails, WriterLower, WriterFail
<1>5. CASE WriterEmpty \/ WriterWakes
  BY <1>5 DEF WriterEmpty, WriterWakes
<1> QED
  BY <1>1, <1>2, <1>3, <1>4, <1>5 DEF WriterStep

LEMMA WakeStep == TypeOK /\ WakeInv /\ [Next]_vars => WakeInv'
<1>1. WakeInv /\ UNCHANGED vars => WakeInv'
  BY DEF vars, shared, producer, writer, locals, jobVars, WakeInv, Unfinished, Awaited,
         FullAwake, Asleep
<1> QED
  BY <1>1, WakeLoopStep, WakeWriterStep DEF Next, OrderlyNext, Calls

\* push() gives the semaphore once per block, after its last byte, and that is
\* enough: for every ring and chunk size, and however jobs are given up, the
\* writer never sleeps on bytes that nobody will announce.
THEOREM WriterIsAwaited == Spec => []NoLostWakeup
<1>1. WakeInv => NoLostWakeup
  BY DEF WakeInv, Awaited, Asleep, NoLostWakeup
<1>2. TypeOK /\ WakeInv /\ [Next]_vars => TypeOK' /\ WakeInv'
  BY TypeStep, WakeStep
<1>3. Init => TypeOK /\ WakeInv
  BY TypeInit, WakeInit
<1> QED
  BY <1>1, <1>2, <1>3, PTL DEF Spec

-----------------------------------------------------------------------------
(***************************************************************************)
(* Jobs that run to their flush: the invariant                             *)
(***************************************************************************)
BusyPcs == {"look", "copy", "take", "write", "lower", "lower_failing", "empty"}

\* busy_ is raised exactly while the writer may hold, or come to hold, a chunk;
\* failed_ stops the writer before it can touch the ring.
WriterFlags ==
  /\ busy <=> wpc \in BusyPcs
  /\ failed => wpc \in {"top", "sleep"}

Extent == used <= Capacity /\ head = Forward(tail, used)

\* What each task read in its first critical section stays true, or errs on the
\* safe side, until its second.
Views ==
  /\ ppc \in {"push_copy", "push_publish"} => phead = head /\ pspace <= Capacity - used
  /\ ppc = "push_give" => off = len
  /\ ppc \notin PushPcs => off = 0
  /\ wpc \in {"copy", "take"} => wtail = tail /\ 0 < wavail /\ wavail <= used

Quiet == {"top", "look", "empty", "sleep", "fail"}

\* Between two jobs the writer holds nothing and finds nothing.
BetweenJobs ==
  /\ ppc = "flush_busy" => used = 0
  /\ ppc = "flush_usb" => used = 0 /\ wpc \in Quiet
  /\ verdict = "completed" => ppc = "idle" /\ used = 0 /\ wpc \in Quiet
  /\ ppc \in {"idle", "reset_wait", "reset_zero"} =>
       \/ used = 0 /\ wpc \in Quiet
       \/ failed
  /\ ppc = "reset_clear" =>
       used = 0 /\ wpc \in Quiet /\ sent = <<>> /\ doc = 0

\* The bytes published are those the host took, the chunk in hand and the ring.
Accounted == ~Broken => Len(sent) + Len(Held) + used = Published

InRing ==
  ~Broken => \A i \in 0..(used - 1) :
               ring[Forward(tail, i)] = <<job, Len(sent) + Len(Held) + i + 1>>

InHand ==
  /\ wpc = "take" => Len(staging) = Taken
  /\ wpc \in {"take", "write"} =>
       \A i \in 1..Len(staging) : staging[i] = <<job, Len(sent) + i>>

JustCopied ==
  ppc = "push_publish" =>
    \A j \in 0..(PushN - 1) : ring[Forward(phead, j)] = <<job, Published + j + 1>>

ControlInv == WriterFlags /\ Extent /\ Views /\ BetweenJobs
BytesInv   == Accounted /\ InRing /\ InHand /\ JustCopied /\ InOrder
-----------------------------------------------------------------------------
(***************************************************************************)
(* Ring arithmetic                                                         *)
(***************************************************************************)
LEMMA ForwardForward ==
  ASSUME NEW i \in Cells, NEW a \in Nat, NEW b \in Nat, a + b <= Capacity
  PROVE  Forward(Forward(i, a), b) = Forward(i, a + b)
<1>1. /\ a \in 0..Capacity /\ b \in 0..Capacity /\ a + b \in 0..Capacity
      /\ Capacity \in Nat \ {0} /\ i \in 0..(Capacity - 1)
  BY StreamAssumption DEF Cells
<1>2. /\ Forward(i, a) = IF i + a < Capacity THEN i + a ELSE i + a - Capacity
      /\ Forward(i, a) \in Cells
      /\ Forward(i, a + b) = IF i + (a + b) < Capacity THEN i + (a + b) ELSE i + (a + b) - Capacity
  BY <1>1, ForwardIs
<1>3. Forward(Forward(i, a), b) = IF Forward(i, a) + b < Capacity
                                  THEN Forward(i, a) + b ELSE Forward(i, a) + b - Capacity
  BY <1>1, <1>2, ForwardIs
<1> QED
  BY <1>1, <1>2, <1>3

\* A cell that is d bytes ahead of i is reached by going d bytes forward.
LEMMA ForwardDist ==
  ASSUME NEW i \in Cells, NEW c \in Cells
  PROVE  Dist(i, c) \in 0..(Capacity - 1) /\ Forward(i, Dist(i, c)) = c
<1>1. Capacity \in Nat \ {0} /\ i \in 0..(Capacity - 1) /\ c \in 0..(Capacity - 1)
  BY StreamAssumption DEF Cells
<1>2. /\ Dist(i, c) = IF i <= c THEN c - i ELSE c - i + Capacity
      /\ Dist(i, c) \in 0..(Capacity - 1)
  BY DistIs DEF Cells
<1>3. Dist(i, c) \in 0..Capacity
  BY <1>1, <1>2
<1>4. Forward(i, Dist(i, c)) = IF i + Dist(i, c) < Capacity
                               THEN i + Dist(i, c) ELSE i + Dist(i, c) - Capacity
  BY <1>3, ForwardIs
<1> QED
  BY <1>1, <1>2, <1>4

LEMMA DistForward ==
  ASSUME NEW i \in Cells, NEW a \in 0..(Capacity - 1)
  PROVE  Dist(i, Forward(i, a)) = a
<1>1. Capacity \in Nat \ {0} /\ i \in 0..(Capacity - 1) /\ a \in 0..Capacity
  BY StreamAssumption DEF Cells
<1>2. /\ Forward(i, a) = IF i + a < Capacity THEN i + a ELSE i + a - Capacity
      /\ Forward(i, a) \in Cells
  BY <1>1, ForwardIs
<1>3. Dist(i, Forward(i, a)) = IF i <= Forward(i, a) THEN Forward(i, a) - i
                               ELSE Forward(i, a) - i + Capacity
  BY <1>2, DistIs
<1> QED
  BY <1>1, <1>2, <1>3

\* With u bytes queued from t on, the cell of the a-th of them lies beyond the
\* free space of the ring as the producer sees it.
LEMMA QueuedIsBeyondFree ==
  ASSUME NEW t \in Cells, NEW u \in 0..Capacity, NEW a \in 0..(u - 1)
  PROVE  Dist(Forward(t, u), Forward(t, a)) = Capacity - u + a
<1>1. /\ Capacity \in Nat \ {0} /\ t \in 0..(Capacity - 1) /\ a \in 0..Capacity
      /\ u \in 0..Capacity /\ a \in 0..(u - 1)
  BY StreamAssumption DEF Cells
<1>2. /\ Forward(t, u) = IF t + u < Capacity THEN t + u ELSE t + u - Capacity
      /\ Forward(t, u) \in Cells
      /\ Forward(t, a) = IF t + a < Capacity THEN t + a ELSE t + a - Capacity
      /\ Forward(t, a) \in Cells
  BY <1>1, ForwardIs
<1>3. Dist(Forward(t, u), Forward(t, a)) =
        IF Forward(t, u) <= Forward(t, a) THEN Forward(t, a) - Forward(t, u)
        ELSE Forward(t, a) - Forward(t, u) + Capacity
  BY <1>2, DistIs
<1> QED
  BY <1>1, <1>2, <1>3

-----------------------------------------------------------------------------
(***************************************************************************)
(* Control: flags, indices and what each task knows of the other           *)
(***************************************************************************)
LEMMA Numbers ==
  ASSUME TypeOK
  PROVE  /\ used \in Nat /\ used < Word /\ len \in 0..MaxPush /\ off \in 0..len
         /\ pspace \in Nat /\ wavail \in Nat /\ doc \in Nat /\ job \in Nat
         /\ head \in Cells /\ tail \in Cells /\ phead \in Cells /\ wtail \in Cells
         /\ Capacity \in Nat \ {0} /\ MaxPush \in 1..Capacity /\ Chunk \in 1..Capacity
         /\ Word \in Nat /\ Word > 2 * Capacity
  BY StreamAssumption DEF TypeOK, TypeShared, TypeLoop, TypeWriter

LEMMA ControlInit == Init => ControlInv
<1>1. Forward(0, 0) = 0
  BY StreamAssumption DEF Forward
<1> QED
  BY <1>1, StreamAssumption DEF Init, ControlInv, WriterFlags, Extent, Views, BetweenJobs,
     BusyPcs, Quiet, PushPcs

OrderlyLoopNext ==
  \/ \E n \in 1..MaxPush : StartJob(n) \/ NextBlock(n)
  \/ FinishJob \/ LoopStep

LEMMA ControlLoopStep ==
  ASSUME TypeOK, Unfinished, ControlInv, OrderlyLoopNext
  PROVE  ControlInv'
<1>0. /\ used \in Nat /\ used < Word /\ len \in 0..MaxPush /\ off \in 0..len
      /\ pspace \in Nat /\ wavail \in Nat
      /\ Capacity \in Nat \ {0} /\ Word \in Nat /\ Word > 2 * Capacity
  BY Numbers
<1> USE DEF ControlInv, WriterFlags, Extent, Views, BetweenJobs, Quiet, BusyPcs, PushPcs,
            shared, writer, locals, jobVars
<1>1. ASSUME NEW n \in 1..MaxPush, StartJob(n) PROVE ControlInv'
  BY <1>0, <1>1 DEF StartJob
<1>2. ASSUME NEW n \in 1..MaxPush, NextBlock(n) PROVE ControlInv'
  BY <1>0, <1>2 DEF NextBlock
<1>3. CASE FinishJob
  BY <1>0, <1>3 DEF FinishJob
<1>4. CASE ResetSawIdle
  BY <1>0, <1>4 DEF ResetSawIdle
<1>5. CASE ResetZero
  <2>1. Forward(0, 0) = 0
    BY StreamAssumption DEF Forward
  <2> QED
    BY <1>0, <1>5, <2>1 DEF ResetZero
<1>6. CASE ResetClear
  BY <1>0, <1>6 DEF ResetClear
<1>7. CASE ResetGive
  BY <1>0, <1>7 DEF ResetGive
<1>8. CASE PushCheck
  BY <1>0, <1>8 DEF PushCheck, PushReturnsFalse
<1>10. CASE PushSpace
  <2>1. FreeSpace = Capacity - used
    BY <1>0, StreamAssumption DEF FreeSpace
  <2> QED
    BY <1>0, <1>10, <2>1 DEF PushSpace
<1>11. CASE PushWaits
  BY <1>0, <1>11 DEF PushWaits
<1>12. CASE PushCopy
  BY <1>0, <1>12 DEF PushCopy
<1>13. CASE PushPublish
  <2>1. PushN \in Nat /\ PushN <= len - off /\ PushN <= pspace
    BY PushNIs
  <2>2. used + PushN <= Capacity /\ (used + PushN) % Word = used + PushN
    BY <1>0, <1>13, <2>1 DEF PushPublish
  <2>3. Forward(Forward(tail, used), PushN) = Forward(tail, used + PushN)
    BY <1>0, <2>1, <2>2, Numbers, ForwardForward
  <2>4. head' = Forward(tail, used + PushN) /\ used' = used + PushN /\ tail' = tail
    BY <1>13, <2>2, <2>3 DEF PushPublish
  <2>5. Extent'
    BY <1>0, <2>1, <2>2, <2>4
  <2>6. Views'
    BY <1>0, <1>13, <2>1, <2>4 DEF PushPublish
  <2> QED
    BY <1>13, <2>5, <2>6 DEF PushPublish
<1>14. CASE PushGive
  BY <1>0, <1>14 DEF PushGive
<1>15. CASE FlushFailed
  BY <1>0, <1>15 DEF FlushFailed, EndJob
<1>16. CASE FlushUsed \/ FlushBusy
  BY <1>0, <1>16 DEF FlushUsed, FlushBusy, WriterPcs, TypeOK, TypeWriter
<1>17. CASE FlushUsb
  BY <1>0, <1>17 DEF FlushUsb, EndJob
<1> QED
  BY <1>1, <1>2, <1>3, <1>4, <1>5, <1>6, <1>7, <1>8, <1>10, <1>11, <1>12, <1>13, <1>14,
     <1>15, <1>16, <1>17 DEF OrderlyLoopNext, LoopStep

LEMMA ControlWriterStep ==
  ASSUME TypeOK, ControlInv, WriterStep
  PROVE  ControlInv'
<1>0. /\ used \in Nat /\ used < Word /\ pspace \in Nat /\ wavail \in Nat
      /\ Capacity \in Nat \ {0} /\ Chunk \in 1..Capacity /\ Word \in Nat
      /\ Word > 2 * Capacity
  BY Numbers
<1> USE DEF ControlInv, WriterFlags, Extent, Views, BetweenJobs, Quiet, BusyPcs, shared,
            producer, locals, jobVars
<1>1. CASE WriterTop
  BY <1>0, <1>1 DEF WriterTop
<1>2. CASE WriterLook
  BY <1>0, <1>2 DEF WriterLook
<1>3. CASE WriterCopy
  BY <1>0, <1>3 DEF WriterCopy
<1>4. CASE WriterTake
  <2>1. Taken \in Nat /\ Taken <= wavail /\ Taken <= Chunk
    BY TakenIs
  <2>2. (used - Taken) % Word = used - Taken /\ used - Taken \in Nat /\ used - Taken <= used
    BY <1>0, <1>4, <2>1 DEF WriterTake
  <2>3. Forward(Forward(tail, Taken), used - Taken) = Forward(tail, Taken + (used - Taken))
    BY <1>0, <2>1, <2>2, Numbers, ForwardForward
  <2>4. Taken + (used - Taken) = used
    BY <1>0, <2>1
  <2>5. /\ head' = head /\ tail' = Forward(tail, Taken) /\ used' = used - Taken
        /\ wpc' = "write" /\ wpc = "take"
    BY <1>4, <2>2 DEF WriterTake
  <2>6. Extent'
    BY <1>0, <2>2, <2>3, <2>4, <2>5
  <2> QED
    BY <1>0, <1>4, <2>2, <2>5, <2>6 DEF WriterTake
<1>5. CASE Write \/ WriteFails
  BY <1>0, <1>5 DEF Write, WriteFails
<1>6. CASE WriterLower \/ WriterFail
  BY <1>0, <1>6 DEF WriterLower, WriterFail
<1>7. CASE WriterEmpty \/ WriterWakes
  BY <1>0, <1>7 DEF WriterEmpty, WriterWakes
<1> QED
  BY <1>1, <1>2, <1>3, <1>4, <1>5, <1>6, <1>7 DEF WriterStep

-----------------------------------------------------------------------------
(***************************************************************************)
(* Bytes: what is in the ring, in hand and delivered                       *)
(***************************************************************************)
LEMMA BytesInit == Init => BytesInv
  BY DEF Init, BytesInv, Accounted, InRing, InHand, JustCopied, InOrder, Broken, Held,
         Published

\* Steps that touch neither the ring, nor the bytes it is said to hold, nor the
\* writer's chunk.
LEMMA BytesKept ==
  ASSUME BytesInv,
         UNCHANGED <<ring, tail, used, job, doc, off, sent, staging, wpc, wtail, wavail>>,
         failed' = failed,
         ppc' = "push_publish" => ppc = "push_publish" /\ UNCHANGED <<len, phead, pspace>>
  PROVE  BytesInv'
<1>1. Held' = Held /\ Broken' = Broken /\ Published' = Published /\ Taken' = Taken
  BY DEF Held, Broken, Published, Taken
<1>2. ppc' = "push_publish" => PushN' = PushN
  BY DEF PushN
<1>3. JustCopied'
  BY <1>1, <1>2 DEF BytesInv, JustCopied
<1> QED
  BY <1>1, <1>3 DEF BytesInv, Accounted, InRing, InHand, InOrder

\* PushCopy fills the free cells the block is given, and no other.
LEMMA BytesPushCopy ==
  ASSUME TypeOK, ControlInv, BytesInv, PushCopy
  PROVE  BytesInv'
<1>0. /\ ppc = "push_copy" /\ ppc' = "push_publish"
      /\ ring' = [c \in Cells |-> IF Dist(phead, c) < PushN
                                  THEN <<job, doc + off + 1 + Dist(phead, c)>>
                                  ELSE ring[c]]
      /\ UNCHANGED <<head, tail, used, wake, busy, failed, len, off, phead, pspace, tries,
                     job, doc, verdict, wpc, wtail, wavail, staging, sent>>
  BY DEF PushCopy, locals, jobVars, writer
<1>1. /\ phead = Forward(tail, used) /\ pspace <= Capacity - used /\ used \in 0..Capacity
      /\ tail \in Cells /\ phead \in Cells /\ Capacity \in Nat \ {0} /\ pspace \in Nat
      /\ doc \in Nat /\ off \in Nat
  BY <1>0, Numbers DEF ControlInv, Extent, Views
<1>2. PushN \in Nat /\ PushN <= pspace
  BY PushNIs
<1>3. /\ Held' = Held /\ Broken' = Broken /\ Published' = Published /\ PushN' = PushN
      /\ Taken' = Taken
  BY <1>0 DEF Held, Broken, Published, PushN, Taken
<1>4. ASSUME NEW i \in 0..(used - 1) PROVE ring'[Forward(tail, i)] = ring[Forward(tail, i)]
  <2>1. i \in 0..Capacity
    BY <1>1
  <2>2. Forward(tail, i) \in Cells
    BY <1>1, <2>1, ForwardIs
  <2>3. Dist(phead, Forward(tail, i)) = Capacity - used + i
    BY <1>1, QueuedIsBeyondFree
  <2>4. ~(Dist(phead, Forward(tail, i)) < PushN)
    BY <1>1, <1>2, <2>1, <2>3
  <2> QED
    BY <1>0, <2>2, <2>4
<1>5. InRing'
  BY <1>0, <1>3, <1>4 DEF BytesInv, InRing
<1>6. ASSUME NEW j \in 0..(PushN - 1)
      PROVE  ring'[Forward(phead, j)] = <<job, Published + j + 1>>
  <2>1. j \in 0..(Capacity - 1)
    BY <1>1, <1>2
  <2>2. Forward(phead, j) \in Cells
    BY <1>1, <2>1, ForwardIs
  <2>3. Dist(phead, Forward(phead, j)) = j
    BY <1>1, <2>1, DistForward
  <2>4. doc + off + 1 + j = doc + off + j + 1
    BY <1>1, <2>1
  <2> QED
    BY <1>0, <1>2, <2>2, <2>3, <2>4 DEF Published
<1>7. JustCopied'
  BY <1>0, <1>3, <1>6 DEF JustCopied
<1> QED
  BY <1>0, <1>3, <1>5, <1>7 DEF BytesInv, Accounted, InHand, InOrder

LEMMA BytesPushPublish ==
  ASSUME TypeOK, ControlInv, BytesInv, PushPublish
  PROVE  BytesInv'
<1>0. /\ ppc = "push_publish" /\ ppc' # "push_publish"
      /\ used' = (used + PushN) % Word /\ off' = off + PushN
      /\ UNCHANGED <<ring, tail, failed, job, doc, wpc, wtail, wavail, staging, sent>>
  BY DEF PushPublish, jobVars, writer
<1>1. /\ phead = Forward(tail, used) /\ pspace <= Capacity - used
      /\ tail \in Cells /\ used \in 0..Capacity /\ pspace \in Nat /\ doc \in Nat /\ off \in Nat
      /\ Capacity \in Nat \ {0} /\ Word \in Nat /\ Word > 2 * Capacity
  BY <1>0, Numbers DEF ControlInv, Extent, Views
<1>2. PushN \in Nat /\ PushN <= pspace
  BY PushNIs
<1>3. used' = used + PushN /\ used + PushN <= Capacity
  BY <1>0, <1>1, <1>2
<1>4. Held' = Held /\ Broken' = Broken /\ Published' = Published + PushN /\ Taken' = Taken
  BY <1>0, <1>1, <1>2 DEF Held, Broken, Published, Taken
<1>5. Len(sent) \in Nat /\ Len(Held) \in Nat
  BY DEF TypeOK, TypeWriter, Held
<1>6. Accounted'
  BY <1>0, <1>1, <1>2, <1>3, <1>4, <1>5 DEF BytesInv, Accounted, Published
<1>7. ASSUME ~Broken, NEW i \in 0..(used' - 1)
      PROVE  ring[Forward(tail, i)] = <<job, Len(sent) + Len(Held) + i + 1>>
  <2>0. i \in Nat /\ i < used + PushN
    BY <1>1, <1>2, <1>3
  <2>1. CASE i < used
    BY <1>1, <1>2, <1>7, <2>0, <2>1 DEF BytesInv, InRing
  <2>2. CASE i >= used
    <3>1. i - used \in 0..(PushN - 1) /\ used + (i - used) = i /\ i <= Capacity
      BY <1>1, <1>2, <1>3, <2>0, <2>2
    <3>2. Forward(Forward(tail, used), i - used) = Forward(tail, used + (i - used))
      BY <1>1, <3>1, ForwardForward
    <3>3. ring[Forward(phead, i - used)] = <<job, Published + (i - used) + 1>>
      BY <1>0, <3>1 DEF BytesInv, JustCopied
    <3>4. Published + (i - used) + 1 = Len(sent) + Len(Held) + i + 1
      BY <1>1, <1>5, <1>7, <3>1 DEF BytesInv, Accounted, Published
    <3> QED
      BY <1>1, <3>1, <3>2, <3>3, <3>4
  <2> QED
    BY <1>1, <2>0, <2>1, <2>2
<1>8. InRing'
  BY <1>0, <1>4, <1>7 DEF InRing
<1> QED
  BY <1>0, <1>4, <1>6, <1>8 DEF BytesInv, InHand, JustCopied, InOrder

LEMMA BytesLoopStep ==
  ASSUME TypeOK, Unfinished, ControlInv, BytesInv, OrderlyLoopNext
  PROVE  BytesInv'
<1>0. doc \in Nat /\ len \in Nat /\ off \in Nat
  BY Numbers
<1>1. ASSUME NEW n \in 1..MaxPush, StartJob(n) \/ NextBlock(n) PROVE BytesInv'
  <2>1. off' = off
    BY <1>1 DEF StartJob, NextBlock, ControlInv, Views, PushPcs
  <2> QED
    BY <1>1, <2>1, BytesKept DEF StartJob, NextBlock, shared, jobVars, writer
<1>2. CASE FinishJob \/ ResetSawIdle \/ PushWaits
  BY <1>2, BytesKept DEF FinishJob, ResetSawIdle, PushWaits, shared, locals, jobVars, writer
<1>3. CASE ResetZero
  <2>1. wpc \notin {"take", "write"} /\ off = 0
    BY <1>3 DEF ResetZero, ControlInv, BetweenJobs, WriterFlags, Views, PushPcs, Quiet
  <2> QED
    BY <1>3, <2>1 DEF ResetZero, BytesInv, Accounted, InRing, InHand, JustCopied, InOrder,
       Held, Broken, Published, locals
<1>4. CASE ResetClear
  <2>1. /\ used = 0 /\ wpc \notin {"take", "write"} /\ sent = <<>> /\ doc = 0 /\ off = 0
    BY <1>4 DEF ResetClear, ControlInv, BetweenJobs, Views, PushPcs, Quiet
  <2> QED
    BY <1>4, <2>1 DEF ResetClear, BytesInv, Accounted, InRing, InHand, JustCopied, InOrder,
       Held, Broken, Published, locals, jobVars, writer
<1>5. CASE ResetGive \/ PushSpace
  BY <1>5, BytesKept DEF ResetGive, PushSpace, shared, locals, jobVars, writer
<1>6. CASE PushCheck
  <2>1. CASE ~failed
    BY <1>6, <2>1, BytesKept DEF PushCheck, shared, locals, jobVars, writer
  <2>2. CASE failed
    <3>1. /\ failed' = failed /\ ppc' # "push_publish" /\ wpc' \notin {"take", "write"}
          /\ UNCHANGED <<job, sent>>
      BY <1>6, <2>2 DEF PushCheck, PushReturnsFalse, shared, jobVars, writer, ControlInv,
         WriterFlags
    <3> QED
      BY <2>2, <3>1 DEF BytesInv, Accounted, InRing, InHand, JustCopied, InOrder, Broken
  <2> QED
    BY <2>1, <2>2
<1>7. CASE PushCopy
  BY <1>7, BytesPushCopy
<1>8. CASE PushPublish
  BY <1>8, BytesPushPublish
<1>9. CASE PushGive
  <2>1. doc' + off' = doc + off /\ ppc' # "push_publish"
    BY <1>0, <1>9 DEF PushGive, ControlInv, Views
  <2> QED
    BY <1>9, <2>1 DEF PushGive, BytesInv, Accounted, InRing, InHand, JustCopied, InOrder,
       Held, Broken, Published, Taken, writer
<1>10. CASE FlushFailed \/ FlushUsed \/ FlushBusy \/ FlushUsb
  BY <1>10, BytesKept DEF FlushFailed, FlushUsed, FlushBusy, FlushUsb, EndJob, shared, locals,
     jobVars, writer
<1> QED
  BY <1>1, <1>2, <1>3, <1>4, <1>5, <1>6, <1>7, <1>8, <1>9, <1>10 DEF OrderlyLoopNext, LoopStep

LEMMA BytesWriterTake ==
  ASSUME TypeOK, ControlInv, BytesInv, WriterTake
  PROVE  BytesInv'
<1>0. /\ wpc = "take" /\ wpc' = "write"
      /\ tail' = Forward(wtail, Taken) /\ used' = (used - Taken) % Word
      /\ UNCHANGED <<ring, failed, ppc, len, off, phead, pspace, job, doc, staging, sent>>
  BY DEF WriterTake, producer, locals, jobVars
<1>1. /\ wtail = tail /\ wavail <= used /\ ~failed
      /\ tail \in Cells /\ used \in 0..Capacity /\ wavail \in Nat /\ doc \in Nat /\ off \in Nat
      /\ Capacity \in Nat \ {0} /\ Word \in Nat /\ Word > 2 * Capacity
  BY <1>0, Numbers DEF ControlInv, Extent, Views, WriterFlags
<1>2. Taken \in Nat /\ Taken <= wavail
  BY TakenIs
<1>3. used' = used - Taken /\ used - Taken \in Nat
  BY <1>0, <1>1, <1>2
<1>4. /\ Len(staging) = Taken /\ Held = <<>> /\ Held' = staging
      /\ Len(sent) \in Nat /\ ~Broken /\ Published' = Published
  BY <1>0, <1>1 DEF BytesInv, InHand, Held, Broken, Published, TypeOK, TypeWriter
<1>5. Accounted'
  BY <1>0, <1>1, <1>2, <1>3, <1>4 DEF BytesInv, Accounted, Published
<1>6. ASSUME NEW i \in 0..(used' - 1)
      PROVE  ring[Forward(tail', i)] = <<job, Len(sent) + Len(Held') + i + 1>>
  <2>1. /\ i \in Nat /\ Taken + i \in 0..(used - 1) /\ Taken + i <= Capacity
    BY <1>1, <1>2, <1>3
  <2>2. Forward(Forward(tail, Taken), i) = Forward(tail, Taken + i)
    BY <1>1, <1>2, <2>1, ForwardForward
  <2>3. ring[Forward(tail, Taken + i)] = <<job, Len(sent) + Len(Held) + (Taken + i) + 1>>
    BY <1>4, <2>1 DEF BytesInv, InRing
  <2>4. Len(sent) + Len(Held) + (Taken + i) + 1 = Len(sent) + Len(Held') + i + 1
    BY <1>2, <1>4, <2>1
  <2> QED
    BY <1>0, <1>1, <2>2, <2>3, <2>4
<1>7. InRing'
  BY <1>0, <1>6 DEF InRing
<1>8. InHand'
  BY <1>0 DEF BytesInv, InHand
<1>9. JustCopied'
  BY <1>0, <1>4 DEF BytesInv, JustCopied, PushN
<1> QED
  BY <1>0, <1>5, <1>7, <1>8, <1>9 DEF BytesInv, InOrder

LEMMA BytesWriterCopy ==
  ASSUME TypeOK, ControlInv, BytesInv, WriterCopy
  PROVE  BytesInv'
<1>0. /\ wpc = "copy" /\ wpc' = "take"
      /\ staging' = [i \in 1..Taken |-> ring[Forward(wtail, i - 1)]]
      /\ UNCHANGED <<ring, head, tail, used, failed, ppc, len, off, phead, pspace, job, doc,
                     wtail, wavail, sent>>
  BY DEF WriterCopy, shared, producer, locals, jobVars
<1>1. /\ wtail = tail /\ wavail <= used /\ ~failed /\ ~Broken /\ Held = <<>>
      /\ used \in Nat /\ wavail \in Nat /\ Len(sent) \in Nat
  BY <1>0, Numbers DEF ControlInv, Views, WriterFlags, Broken, Held, TypeOK, TypeWriter
<1>2. Taken \in Nat /\ Taken <= wavail
  BY TakenIs
<1>3. /\ Held' = Held /\ Broken' = Broken /\ Published' = Published /\ PushN' = PushN
      /\ Taken' = Taken
  BY <1>0 DEF Held, Broken, Published, PushN, Taken
<1>4. Len(staging') = Taken
  BY <1>0, <1>2
<1>5. ASSUME NEW i \in 1..Taken PROVE staging'[i] = <<job, Len(sent) + i>>
  <2>1. i \in Nat /\ i - 1 \in 0..(used - 1)
    BY <1>1, <1>2
  <2>2. ring[Forward(tail, i - 1)] = <<job, Len(sent) + Len(Held) + (i - 1) + 1>>
    BY <1>1, <2>1 DEF BytesInv, InRing
  <2>3. Len(sent) + Len(Held) + (i - 1) + 1 = Len(sent) + i
    BY <1>1, <2>1
  <2> QED
    BY <1>0, <1>1, <2>2, <2>3
<1>6. InHand'
  BY <1>0, <1>3, <1>4, <1>5 DEF InHand
<1> QED
  BY <1>0, <1>3, <1>6 DEF BytesInv, Accounted, InRing, JustCopied, InOrder

\* The chunk joins the bytes the host has taken, at their end.
LEMMA BytesWrite ==
  ASSUME TypeOK, ControlInv, BytesInv, Write
  PROVE  BytesInv'
<1>0. /\ wpc = "write" /\ wpc' = "lower" /\ sent' = sent \o staging
      /\ UNCHANGED <<ring, head, tail, used, failed, ppc, len, off, phead, pspace, job, doc>>
  BY DEF Write, shared, producer, locals, jobVars
<1>1. /\ ~failed /\ ~Broken /\ ~Broken' /\ Held = staging /\ Held' = <<>>
      /\ Published' = Published
  BY <1>0 DEF ControlInv, WriterFlags, Broken, Held, Published
<1>2. sent \in Seq(Byte) /\ staging \in Seq(Byte) /\ used \in Nat
  BY Numbers DEF TypeOK, TypeWriter
<1>3. Len(sent') = Len(sent) + Len(staging) /\ Len(Held') = 0
  BY <1>0, <1>1, <1>2
<1>4. Len(sent) + Len(Held) = Len(sent') + Len(Held')
  BY <1>1, <1>2, <1>3
<1>5. Accounted' /\ InRing'
  BY <1>0, <1>1, <1>4 DEF BytesInv, Accounted, InRing
<1>6. ASSUME NEW i \in 1..Len(sent') PROVE sent'[i] = <<job, i>>
  <2>1. CASE i <= Len(sent)
    BY <1>0, <1>2, <2>1 DEF BytesInv, InOrder
  <2>2. CASE i > Len(sent)
    <3>1. /\ i - Len(sent) \in 1..Len(staging) /\ Len(sent) + (i - Len(sent)) = i
          /\ sent'[i] = staging[i - Len(sent)]
      BY <1>0, <1>2, <1>3, <2>2
    <3> QED
      BY <1>0, <3>1 DEF BytesInv, InHand
  <2> QED
    BY <1>2, <2>1, <2>2
<1>7. InOrder'
  BY <1>0, <1>6 DEF InOrder
<1> QED
  BY <1>0, <1>1, <1>5, <1>7 DEF BytesInv, InHand, JustCopied, PushN

LEMMA BytesWriterStep ==
  ASSUME TypeOK, ControlInv, BytesInv, WriterStep
  PROVE  BytesInv'
<1> USE DEF BytesInv, Accounted, InRing, InHand, JustCopied, InOrder, Held, Broken, Published,
            PushN, producer, locals, jobVars
<1>1. CASE WriterTop \/ WriterLook \/ WriterEmpty \/ WriterWakes
  BY <1>1 DEF WriterTop, WriterLook, WriterEmpty, WriterWakes, shared
<1>2. CASE WriterCopy
  BY <1>2, BytesWriterCopy
<1>3. CASE WriterTake
  BY <1>3, BytesWriterTake
<1>4. CASE Write
  BY <1>4, BytesWrite
<1>5. CASE WriteFails
  BY <1>5 DEF WriteFails, shared
<1>6. CASE WriterLower \/ WriterFail
  BY <1>6 DEF WriterLower, WriterFail
<1> QED
  BY <1>1, <1>2, <1>3, <1>4, <1>5, <1>6 DEF WriterStep

-----------------------------------------------------------------------------
(***************************************************************************)
(* The theorems                                                            *)
(***************************************************************************)
RingInv == TypeOK /\ WakeInv /\ ControlInv /\ BytesInv

LEMMA RingInit == Init => RingInv
  BY TypeInit, WakeInit, ControlInit, BytesInit DEF RingInv

LEMMA RingStep == RingInv /\ [OrderlyNext]_vars => RingInv'
<1> SUFFICES ASSUME RingInv, [OrderlyNext]_vars PROVE RingInv'
  OBVIOUS
<1>1. TypeOK' /\ WakeInv'
  BY TypeStep, WakeStep DEF RingInv, Next
<1>2. CASE OrderlyLoopNext
  BY <1>1, <1>2, ControlLoopStep, BytesLoopStep DEF RingInv, WakeInv
<1>3. CASE WriterStep
  BY <1>1, <1>3, ControlWriterStep, BytesWriterStep DEF RingInv
<1>4. CASE UNCHANGED vars
  <2>1. UNCHANGED <<ring, head, tail, used, busy, failed, ppc, len, off, phead, pspace, job,
                    doc, wpc, wtail, wavail, staging, sent>>
    BY <1>4 DEF vars, shared, producer, writer, locals, jobVars
  <2>2. BytesInv'
    BY <2>1, BytesKept DEF RingInv
  <2>3. ControlInv'
    BY <1>4, <2>1 DEF RingInv, ControlInv, WriterFlags, Extent, Views, BetweenJobs, vars,
       producer, jobVars
  <2> QED
    BY <1>1, <2>2, <2>3 DEF RingInv
<1> QED
  BY <1>2, <1>3, <1>4 DEF OrderlyNext, OrderlyLoopNext, Calls

THEOREM RingCorrect == OrderlySpec => []RingInv
  BY RingInit, RingStep, PTL DEF OrderlySpec

\* used_ is what the indices say is queued.
THEOREM UsedIsExact == OrderlySpec => []UsedIsBytesQueued
<1>1. RingInv => UsedIsBytesQueued
  BY DEF RingInv, ControlInv, Extent, UsedIsBytesQueued
<1> QED
  BY <1>1, RingCorrect, PTL

\* The host takes the bytes of the job in order, each once, and none of an
\* earlier job.
THEOREM BytesInOrder == OrderlySpec => []InOrder
<1>1. RingInv => InOrder
  BY DEF RingInv, BytesInv
<1> QED
  BY <1>1, RingCorrect, PTL

\* flush() goes on to wait for the USB transfers only once the ring is empty and
\* the writer holds no chunk.
THEOREM FlushDrainsRing == OrderlySpec => []FlushDrains
<1>1. RingInv => FlushDrains
  BY DEF RingInv, ControlInv, BetweenJobs, Quiet, FlushDrains
<1> QED
  BY <1>1, RingCorrect, PTL

\* A job reported complete is lost in part only through a transfer that failed.
THEOREM Delivered == OrderlySpec => []CompletedIsDelivered
<1>1. RingInv => CompletedIsDelivered
  <2> SUFFICES ASSUME RingInv, verdict = "completed", ~Broken
               PROVE  Len(sent) = doc
    BY DEF CompletedIsDelivered
  <2>1. used = 0 /\ Held = <<>> /\ off = 0
    BY DEF RingInv, ControlInv, BetweenJobs, Views, Quiet, Held, PushPcs
  <2>2. Len(sent) \in Nat /\ doc \in Nat /\ Len(Held) = 0
    BY <2>1, Numbers DEF RingInv, TypeOK, TypeWriter
  <2> QED
    BY <2>1, <2>2 DEF RingInv, BytesInv, Accounted, Published
<1> QED
  BY <1>1, RingCorrect, PTL

\* The two memcpy calls, both outside the critical sections, never touch the
\* same cell at the same time.
THEOREM NoRace == OrderlySpec => []NoDataRace
<1>1. RingInv => NoDataRace
  <2> SUFFICES ASSUME RingInv, NEW c \in Cells, ppc = "push_copy", wpc = "copy",
                      Dist(phead, c) < PushN, Dist(wtail, c) < Taken
               PROVE  FALSE
    BY DEF NoDataRace, CopyingIn, CopyingOut
  <2>1. /\ phead = Forward(tail, used) /\ pspace <= Capacity - used
        /\ wtail = tail /\ wavail <= used /\ tail \in Cells /\ used \in 0..Capacity
        /\ Capacity \in Nat /\ pspace \in Nat /\ wavail \in Nat
    BY Numbers DEF RingInv, ControlInv, Extent, Views
  <2>2. /\ PushN \in Nat /\ PushN <= pspace /\ Taken \in Nat /\ Taken <= wavail
    BY PushNIs, TakenIs DEF RingInv
  <2>3. Dist(tail, c) \in 0..(Capacity - 1) /\ Forward(tail, Dist(tail, c)) = c
    BY <2>1, ForwardDist
  <2>4. Dist(tail, c) \in 0..(used - 1)
    BY <2>1, <2>2, <2>3
  <2>5. Dist(Forward(tail, used), Forward(tail, Dist(tail, c)))
          = Capacity - used + Dist(tail, c)
    BY <2>1, <2>4, QueuedIsBeyondFree
  <2> QED
    BY <2>1, <2>2, <2>3, <2>4, <2>5
<1> QED
  BY <1>1, RingCorrect, PTL

-----------------------------------------------------------------------------
(***************************************************************************)
(* UsbStream implements PrintQueue: every step of the two tasks, while no  *)
(* job is given up with bytes queued, is a step of the queue or invisible  *)
(* to it.                                                                  *)
(***************************************************************************)
\* A push that is tried again starts from its block's first byte with the stream
\* failed, and never gets any further.
RetryInv == tries > 0 => failed /\ ppc = "push_check" /\ off = 0

\* The writer never hands an empty chunk to the USB host.
StageInv == wpc = "write" => Len(staging) \in 1..Chunk

QueueInv == RingInv /\ RetryInv /\ StageInv

LEMMA QueueInit == Init => QueueInv
  BY RingInit DEF QueueInv, RetryInv, StageInv, Init

LEMMA RetryStep ==
  ASSUME QueueInv, OrderlyNext
  PROVE  RetryInv'
<1>0. off = 0 \/ ppc \in PushPcs
  BY DEF QueueInv, RingInv, ControlInv, Views
<1> USE DEF QueueInv, RetryInv, shared, writer, locals, jobVars, producer
<1>1. CASE \E n \in 1..MaxPush : StartJob(n) \/ NextBlock(n)
  BY <1>1 DEF StartJob, NextBlock
<1>2. CASE FinishJob \/ ResetSawIdle \/ ResetZero \/ ResetClear \/ ResetGive
  BY <1>2 DEF FinishJob, ResetSawIdle, ResetZero, ResetClear, ResetGive
<1>3. CASE PushCheck
  BY <1>3 DEF PushCheck, PushReturnsFalse
<1>4. CASE PushSpace \/ PushWaits \/ PushCopy \/ PushPublish \/ PushGive
  BY <1>4 DEF PushSpace, PushWaits, PushCopy, PushPublish, PushGive
<1>5. CASE FlushFailed \/ FlushUsed \/ FlushBusy \/ FlushUsb
  BY <1>5 DEF FlushFailed, FlushUsed, FlushBusy, FlushUsb, EndJob
<1>6. CASE WriterStep
  BY <1>6 DEF WriterStep, WriterTop, WriterLook, WriterCopy, WriterTake, Write, WriteFails,
     WriterLower, WriterFail, WriterEmpty, WriterWakes
<1> QED
  BY <1>1, <1>2, <1>3, <1>4, <1>5, <1>6 DEF OrderlyNext, Calls, LoopStep

LEMMA StageStep ==
  ASSUME QueueInv, OrderlyNext
  PROVE  StageInv'
<1> USE DEF QueueInv, StageInv, shared, writer, locals, jobVars, producer
<1>1. CASE Calls \/ LoopStep
  BY <1>1 DEF Calls, LoopStep, StartJob, NextBlock, FinishJob, ResetSawIdle, ResetZero,
     ResetClear, ResetGive, PushCheck, PushReturnsFalse, PushSpace, PushWaits, PushCopy,
     PushPublish, PushGive, FlushFailed, FlushUsed, FlushBusy, FlushUsb, EndJob
<1>2. CASE WriterTake
  <2>1. Len(staging) = Taken /\ wavail \in Nat /\ wavail > 0 /\ Chunk \in Nat /\ Chunk > 0
    BY <1>2, Numbers DEF WriterTake, RingInv, ControlInv, Views, BytesInv, InHand
  <2>2. Taken \in 1..Chunk
    BY <2>1 DEF Taken, Least
  <2> QED
    BY <1>2, <2>1, <2>2 DEF WriterTake
<1>3. CASE WriterStep /\ ~WriterTake
  BY <1>3 DEF WriterStep, WriterTop, WriterLook, WriterCopy, Write, WriteFails, WriterLower,
     WriterFail, WriterEmpty, WriterWakes
<1> QED
  BY <1>1, <1>2, <1>3 DEF OrderlyNext

LEMMA QueueStep == QueueInv /\ [OrderlyNext]_vars => QueueInv'
<1> SUFFICES ASSUME QueueInv, [OrderlyNext]_vars PROVE QueueInv'
  OBVIOUS
<1>1. RingInv'
  BY RingStep DEF QueueInv
<1>2. CASE OrderlyNext
  BY <1>1, <1>2, RetryStep, StageStep DEF QueueInv
<1>3. CASE UNCHANGED vars
  BY <1>1, <1>3 DEF QueueInv, RetryInv, StageInv, vars, shared, producer, writer, locals
<1> QED
  BY <1>2, <1>3

\* u bytes of a ring, from cell t on.
LEMMA BytesFrom ==
  ASSUME NEW r \in [Cells -> Byte], NEW t \in Cells, NEW u \in 0..Capacity
  PROVE  LET b == [i \in 1..u |-> r[Forward(t, i - 1)]] IN b \in Seq(Byte) /\ Len(b) = u
<1>1. u \in Nat /\ Capacity \in Nat
  BY StreamAssumption
<1>2. ASSUME NEW i \in 1..u PROVE r[Forward(t, i - 1)] \in Byte
  <2>1. i - 1 \in 0..Capacity
    BY <1>1
  <2> QED
    BY <2>1, ForwardIs
<1>3. [i \in 1..u |-> r[Forward(t, i - 1)]] \in [1..u -> Byte]
  BY <1>2
<1> QED
  BY <1>1, <1>3

\* The bytes in the ring are as they were when neither their cells nor the
\* consumer's end of the ring have changed.
LEMMA RingBytesKept ==
  ASSUME used' = used, tail' = tail,
         \A i \in 1..used : ring'[Forward(tail, i - 1)] = ring[Forward(tail, i - 1)]
  PROVE  RingBytes' = RingBytes
  BY DEF RingBytes

\* The state the queue does not see changes; what it sees does not.
LEMMA Invisible ==
  ASSUME RingBytes' = RingBytes, Held' = Held, Broken' = Broken, Published' = Published,
         UNCHANGED <<sent, job, verdict>>
  PROVE  UNCHANGED Q!qvars
  BY DEF Q!qvars

-----------------------------------------------------------------------------
(***************************************************************************)
(* The steps of the loop task                                              *)
(***************************************************************************)
LEMMA StartIsOpen ==
  ASSUME QueueInv, NEW n \in 1..MaxPush, StartJob(n)
  PROVE  Q!Next
<1>1. /\ RingBytes' = RingBytes /\ Held' = Held /\ Broken' = Broken /\ verdict' = "none"
      /\ sent' = sent /\ job' = job
  BY DEF StartJob, shared, writer, RingBytes, Held, Broken
<1>2. Published' = Published
  BY DEF StartJob, Published, QueueInv, RingInv, ControlInv, Views, PushPcs
<1> QED
  BY <1>1, <1>2 DEF Q!Next, Q!Open

LEMMA ResetIsClear ==
  ASSUME QueueInv, ResetZero
  PROVE  Q!Next
<1>1. wpc # "write" /\ off = 0
  BY DEF ResetZero, QueueInv, RingInv, ControlInv, BetweenJobs, WriterFlags, Views, PushPcs,
     Quiet
<1>2. Held' = <<>> /\ RingBytes' = <<>> /\ Broken' = Broken
  BY <1>1 DEF ResetZero, Held, RingBytes, Broken
<1>3. Published' = 0
  BY <1>1 DEF ResetZero, Published, locals
<1>4. job' = job + 1 /\ sent' = <<>> /\ verdict' = verdict
  BY DEF ResetZero
<1>5. (Held \o RingBytes)' = <<>>
  BY <1>2
<1> QED
  BY <1>2, <1>3, <1>4, <1>5 DEF Q!Next, Q!Clear

LEMMA ClearIsRepair ==
  ASSUME QueueInv, ResetClear
  PROVE  Q!Next \/ UNCHANGED Q!qvars
<1>1. /\ RingBytes' = RingBytes /\ Held' = Held /\ Published' = Published
      /\ UNCHANGED <<sent, job, verdict>>
  BY DEF ResetClear, locals, jobVars, writer, RingBytes, Held, Published
<1>2. CASE wpc \in {"lower_failing", "fail"}
  <2>1. Broken' = Broken
    BY <1>2 DEF ResetClear, writer, Broken
  <2> QED
    BY <1>1, <2>1, Invisible
<1>3. CASE wpc \notin {"lower_failing", "fail"}
  <2>1. Broken' = FALSE
    BY <1>3 DEF ResetClear, writer, Broken
  <2> QED
    BY <1>1, <2>1 DEF Q!Next, Q!Repair
<1> QED
  BY <1>2, <1>3

\* A refused block is withdrawn; a block refused a third time has nothing left in
\* the queue, and its job ends.
LEMMA CheckIsWithdraw ==
  ASSUME QueueInv, PushCheck
  PROVE  Q!Next \/ UNCHANGED Q!qvars
<1>1. /\ RingBytes' = RingBytes /\ Held' = Held /\ Broken' = Broken
      /\ UNCHANGED <<sent, job, doc>>
  BY DEF PushCheck, PushReturnsFalse, shared, jobVars, writer, RingBytes, Held, Broken
<1>2. /\ off \in 0..MaxPush /\ doc \in Nat /\ MaxPush \in 1..Capacity /\ Capacity \in Nat
      /\ Chunk \in Nat /\ len \in 0..MaxPush
  BY Numbers DEF QueueInv, RingInv
<1>3. CASE ~failed
  <2>1. Published' = Published /\ verdict' = verdict
    BY <1>3 DEF PushCheck, locals, jobVars, Published
  <2> QED
    BY <1>1, <2>1, Invisible
<1>4. CASE failed /\ tries < 2 /\ off = 0
  <2>1. Published' = Published /\ verdict' = verdict
    BY <1>4 DEF PushCheck, PushReturnsFalse, jobVars, Published
  <2> QED
    BY <1>1, <2>1, Invisible
<1>5. CASE failed /\ tries < 2 /\ off # 0
  <2>1. verdict' = verdict /\ off' = 0 /\ doc' = doc
    BY <1>5 DEF PushCheck, PushReturnsFalse, jobVars
  <2>2. Published' = Published - off /\ off <= Published
    BY <1>2, <2>1 DEF Published
  <2>3. off \in 1..(Capacity + Chunk)
    BY <1>2, <1>5
  <2>4. Broken
    BY <1>5 DEF Broken
  <2>5. Q!Withdraw(off)
    BY <1>1, <2>1, <2>2, <2>4 DEF Q!Withdraw
  <2> QED
    BY <2>3, <2>5 DEF Q!Next
<1>6. CASE failed /\ ~(tries < 2)
  <2>1. off = 0
    BY <1>6 DEF QueueInv, RetryInv, RingInv, TypeOK, TypeLoop
  <2>2. Published' = Published /\ verdict' = "aborted"
    BY <1>6, <2>1 DEF PushCheck, PushReturnsFalse, Published
  <2>3. Q!Finish("aborted")
    BY <1>1, <2>2 DEF Q!Finish
  <2> QED
    BY <2>3 DEF Q!Next
<1> QED
  BY <1>3, <1>4, <1>5, <1>6

\* The memcpy into the ring is not seen: it writes beyond the bytes queued.
LEMMA CopyIsInvisible ==
  ASSUME QueueInv, PushCopy
  PROVE  UNCHANGED Q!qvars
<1>0. /\ ring' = [c \in Cells |-> IF Dist(phead, c) < PushN
                                  THEN <<job, doc + off + 1 + Dist(phead, c)>>
                                  ELSE ring[c]]
      /\ UNCHANGED <<tail, used, failed, off, job, doc, verdict, wpc, staging, sent>>
  BY DEF PushCopy, locals, jobVars, writer
<1>1. /\ phead = Forward(tail, used) /\ pspace <= Capacity - used /\ used \in 0..Capacity
      /\ tail \in Cells /\ Capacity \in Nat \ {0} /\ pspace \in Nat
  BY Numbers DEF PushCopy, QueueInv, RingInv, ControlInv, Extent, Views
<1>2. PushN \in Nat /\ PushN <= pspace
  BY PushNIs DEF QueueInv, RingInv
<1>3. ASSUME NEW i \in 1..used
      PROVE  ring'[Forward(tail, i - 1)] = ring[Forward(tail, i - 1)]
  <2>1. i - 1 \in 0..(used - 1) /\ i - 1 \in 0..Capacity
    BY <1>1
  <2>2. Forward(tail, i - 1) \in Cells
    BY <1>1, <2>1, ForwardIs
  <2>3. Dist(Forward(tail, used), Forward(tail, i - 1)) = Capacity - used + (i - 1)
    BY <1>1, <2>1, QueuedIsBeyondFree
  <2>4. ~(Dist(phead, Forward(tail, i - 1)) < PushN)
    BY <1>1, <1>2, <2>1, <2>3
  <2> QED
    BY <1>0, <2>2, <2>4
<1>4. RingBytes' = RingBytes
  BY <1>0, <1>3, RingBytesKept
<1>5. Held' = Held /\ Broken' = Broken /\ Published' = Published
  BY <1>0 DEF Held, Broken, Published
<1> QED
  BY <1>0, <1>4, <1>5, Invisible

LEMMA PublishIsPut ==
  ASSUME QueueInv, PushPublish
  PROVE  Q!Next \/ UNCHANGED Q!qvars
<1>0. /\ ppc = "push_publish" /\ used' = (used + PushN) % Word /\ off' = off + PushN
      /\ UNCHANGED <<ring, tail, failed, job, doc, verdict, wpc, staging, sent>>
  BY DEF PushPublish, jobVars, writer
<1>1. /\ phead = Forward(tail, used) /\ pspace <= Capacity - used /\ used \in 0..Capacity
      /\ tail \in Cells /\ pspace \in Nat /\ doc \in Nat /\ off \in Nat
      /\ Capacity \in Nat \ {0} /\ Word \in Nat /\ Word > 2 * Capacity /\ Chunk \in Nat
      /\ job \in Nat
  BY <1>0, Numbers DEF QueueInv, RingInv, ControlInv, Extent, Views
<1>2. PushN \in Nat /\ PushN <= pspace
  BY PushNIs DEF QueueInv, RingInv
<1>3. used' = used + PushN /\ used + PushN <= Capacity
  BY <1>0, <1>1, <1>2
<1>4. Held' = Held /\ Broken' = Broken /\ Published' = Published + PushN
  BY <1>0, <1>1, <1>2 DEF Held, Broken, Published
<1> DEFINE new == [i \in 1..PushN |-> <<job, Published + i>>]
<1>5. /\ RingBytes \in Seq(Byte) /\ Len(RingBytes) = used /\ Held \in Seq(Byte)
      /\ \A i \in 1..used : RingBytes[i] = ring[Forward(tail, i - 1)]
  <2>1. ring \in [Cells -> Byte] /\ Held \in Seq(Byte)
    BY DEF QueueInv, RingInv, TypeOK, TypeShared, TypeWriter, Held
  <2> QED
    BY <1>1, <2>1, BytesFrom DEF RingBytes
<1>6. /\ RingBytes' \in Seq(Byte) /\ Len(RingBytes') = used'
      /\ \A i \in 1..used' : RingBytes'[i] = ring[Forward(tail, i - 1)]
  <2>1. ring \in [Cells -> Byte]
    BY DEF QueueInv, RingInv, TypeOK, TypeShared
  <2>2. used' \in 0..Capacity
    BY <1>1, <1>2, <1>3
  <2>3. RingBytes' = [i \in 1..used' |-> ring[Forward(tail, i - 1)]]
    BY <1>0 DEF RingBytes
  <2> QED
    BY <1>1, <2>1, <2>2, <2>3, BytesFrom
<1>7. new \in Seq(Byte) /\ Len(new) = PushN
  <2>1. new \in [1..PushN -> Byte]
    BY <1>1, <1>2 DEF Published, Byte
  <2> QED
    BY <1>2, <2>1
<1>a. \A i \in 1..PushN : new[i] = <<job, Published + i>>
  OBVIOUS
<1>b. PushN = 0 => new = <<>>
  OBVIOUS
<1>c. new = [i \in 1..PushN |-> <<job, Published + i>>]
  OBVIOUS
<1> HIDE DEF new
<1>8. RingBytes' = RingBytes \o new
  <2> DEFINE both == RingBytes \o new
  <2>1. /\ both \in Seq(Byte) /\ Len(both) = used + PushN
        /\ \A i \in 1..(used + PushN) :
             both[i] = IF i <= used THEN RingBytes[i] ELSE new[i - used]
    BY <1>5, <1>7, ConcatProperties
  <2> HIDE DEF both
  <2>2. ASSUME NEW i \in 1..(used + PushN) PROVE RingBytes'[i] = both[i]
    <3>1. CASE i <= used
      <4>1. i \in 1..used /\ i \in 1..used'
        BY <1>1, <1>2, <1>3, <3>1
      <4>2. RingBytes'[i] = RingBytes[i]
        BY <1>5, <1>6, <4>1
      <4> QED
        BY <2>1, <3>1, <4>2
    <3>2. CASE i > used
      <4>1. /\ i - used \in 1..PushN /\ i - used - 1 \in 0..(PushN - 1)
            /\ used + (i - used - 1) = i - 1 /\ i - 1 <= Capacity
        BY <1>1, <1>2, <1>3, <3>2
      <4>2. Forward(Forward(tail, used), i - used - 1) = Forward(tail, used + (i - used - 1))
        BY <1>1, <1>3, <4>1, ForwardForward
      <4>3. ring[Forward(phead, i - used - 1)] = <<job, Published + (i - used - 1) + 1>>
        BY <1>0, <4>1 DEF QueueInv, RingInv, BytesInv, JustCopied
      <4>4. Published + (i - used - 1) + 1 = Published + (i - used)
        BY <1>1, <4>1 DEF Published
      <4>5. RingBytes'[i] = <<job, Published + (i - used)>>
        BY <1>1, <1>3, <1>6, <4>1, <4>2, <4>3, <4>4
      <4>6. both[i] = new[i - used]
        BY <1>1, <2>1, <3>2
      <4> QED
        BY <1>a, <4>1, <4>5, <4>6
    <3> QED
      BY <1>1, <1>2, <3>1, <3>2
  <2> QED
    <3>1. RingBytes' = both
      BY <1>3, <1>6, <2>1, <2>2, SeqEqual
    <3> QED
      BY <3>1 DEF both
<1>9. (Held \o RingBytes)' = (Held \o RingBytes) \o new
  <2>1. (Held \o RingBytes)' = Held \o (RingBytes \o new)
    BY <1>4, <1>8
  <2>2. \A s, t, u \in Seq(Byte) : (s \o t) \o u = s \o (t \o u)
    BY ConcatAssociative
  <2>3. (Held \o RingBytes) \o new = Held \o (RingBytes \o new)
    BY <1>5, <1>7, <2>2
  <2> QED
    BY <2>1, <2>3
<1>10. Len(Held) \in Nat /\ Len(Held) <= Chunk
  BY <1>1 DEF QueueInv, StageInv, Held
<1>11. Len(Held \o RingBytes) + PushN <= Capacity + Chunk
  BY <1>1, <1>2, <1>3, <1>5, <1>10, ConcatProperties
<1>12. CASE PushN = 0
  <2>1. new = <<>>
    BY <1>b, <1>12
  <2>2. RingBytes' = RingBytes
    BY <1>5, <1>8, <2>1, ConcatEmptySeq
  <2>3. Published' = Published
    BY <1>1, <1>4, <1>12 DEF Published
  <2> QED
    BY <1>0, <1>4, <2>2, <2>3, Invisible
<1>13. CASE PushN # 0
  <2>1. Q!Put(PushN)
    BY <1>0, <1>4, <1>9, <1>11, <1>c DEF Q!Put
  <2>2. PushN \in 1..(Capacity + Chunk)
    BY <1>1, <1>2, <1>13
  <2> QED
    BY <2>1, <2>2 DEF Q!Next
<1> QED
  BY <1>12, <1>13

\* A finish reports what the queue allows: a completed job leaves it empty.
LEMMA EndIsFinish ==
  ASSUME QueueInv, NEW outcome \in {"completed", "aborted"}, EndJob(outcome),
         outcome = "completed" => ppc = "flush_usb"
  PROVE  Q!Next
<1>1. /\ RingBytes' = RingBytes /\ Held' = Held /\ Broken' = Broken /\ Published' = Published
      /\ UNCHANGED <<sent, job>> /\ verdict' = outcome
  BY DEF EndJob, shared, locals, writer, RingBytes, Held, Broken, Published
<1>2. ASSUME outcome = "completed" PROVE Held \o RingBytes = <<>>
  <2>1. used = 0 /\ wpc # "write"
    BY <1>2 DEF QueueInv, RingInv, ControlInv, BetweenJobs, Quiet
  <2>2. Held = <<>> /\ RingBytes = <<>>
    BY <2>1 DEF Held, RingBytes
  <2> QED
    BY <2>2
<1>3. Q!Finish(outcome)
  BY <1>1, <1>2 DEF Q!Finish
<1> QED
  BY <1>3 DEF Q!Next

-----------------------------------------------------------------------------
(***************************************************************************)
(* The steps of the writer task                                            *)
(***************************************************************************)

\* The chunk leaves the ring and joins the bytes in hand: the queue is the same.
LEMMA TakeIsInvisible ==
  ASSUME QueueInv, WriterTake
  PROVE  UNCHANGED Q!qvars
<1>0. /\ wpc = "take" /\ wpc' = "write"
      /\ tail' = Forward(wtail, Taken) /\ used' = (used - Taken) % Word
      /\ UNCHANGED <<ring, failed, off, job, doc, verdict, staging, sent>>
  BY DEF WriterTake, producer, locals, jobVars
<1>1. /\ wtail = tail /\ wavail <= used /\ ~failed
      /\ tail \in Cells /\ used \in 0..Capacity /\ wavail \in Nat
      /\ Capacity \in Nat \ {0} /\ Word \in Nat /\ Word > 2 * Capacity
  BY <1>0, Numbers DEF QueueInv, RingInv, ControlInv, Extent, Views, WriterFlags
<1>2. Taken \in Nat /\ Taken <= wavail
  BY TakenIs DEF QueueInv, RingInv
<1>3. used' = used - Taken /\ used' \in 0..Capacity
  BY <1>0, <1>1, <1>2
<1>4. /\ Held = <<>> /\ Held' = staging /\ ~Broken /\ Broken' = Broken
      /\ Published' = Published
  BY <1>0, <1>1 DEF Held, Broken, Published
<1>5. /\ staging \in Seq(Byte) /\ Len(staging) = Taken /\ Len(sent) \in Nat
      /\ \A i \in 1..Taken : staging[i] = <<job, Len(sent) + i>>
      /\ \A i \in 0..(used - 1) : ring[Forward(tail, i)] = <<job, Len(sent) + i + 1>>
  <2>1. Len(Held) = 0 /\ Len(sent) \in Nat /\ staging \in Seq(Byte)
    BY <1>4 DEF QueueInv, RingInv, TypeOK, TypeWriter
  <2>2. Len(sent) + Len(Held) = Len(sent)
    BY <2>1
  <2> QED
    BY <1>0, <1>4, <2>1, <2>2 DEF QueueInv, RingInv, BytesInv, InHand, InRing
<1>6. /\ RingBytes \in Seq(Byte) /\ Len(RingBytes) = used
      /\ \A i \in 1..used : RingBytes[i] = ring[Forward(tail, i - 1)]
  <2>1. ring \in [Cells -> Byte]
    BY DEF QueueInv, RingInv, TypeOK, TypeShared
  <2> QED
    BY <1>1, <2>1, BytesFrom DEF RingBytes
<1>7. /\ RingBytes' \in Seq(Byte) /\ Len(RingBytes') = used'
      /\ \A i \in 1..used' : RingBytes'[i] = ring[Forward(tail', i - 1)]
  <2>1. ring \in [Cells -> Byte] /\ tail' \in Cells
    <3>1. Taken \in 0..Capacity
      BY <1>1, <1>2
    <3> QED
      BY <1>0, <1>1, <3>1, ForwardIs DEF QueueInv, RingInv, TypeOK, TypeShared
  <2>2. RingBytes' = [i \in 1..used' |-> ring[Forward(tail', i - 1)]]
    BY <1>0 DEF RingBytes
  <2> QED
    BY <1>3, <2>1, <2>2, BytesFrom
<1>8. RingBytes = staging \o RingBytes'
  <2> DEFINE both == staging \o RingBytes'
  <2>1. /\ both \in Seq(Byte) /\ Len(both) = used
        /\ \A i \in 1..used :
             both[i] = IF i <= Taken THEN staging[i] ELSE RingBytes'[i - Taken]
    <3>1. Taken + used' = used
      BY <1>1, <1>2, <1>3
    <3> QED
      BY <1>5, <1>7, <3>1, ConcatProperties
  <2> HIDE DEF both
  <2>2. ASSUME NEW i \in 1..used PROVE RingBytes[i] = both[i]
    <3>1. RingBytes[i] = <<job, Len(sent) + i>>
      <4>1. i - 1 \in 0..(used - 1) /\ Len(sent) + (i - 1) + 1 = Len(sent) + i
        BY <1>1, <1>5
      <4> QED
        BY <1>5, <1>6, <4>1
    <3>2. CASE i <= Taken
      <4>1. i \in 1..Taken
        BY <1>1, <1>2, <3>2
      <4> QED
        BY <1>5, <2>1, <3>1, <3>2, <4>1
    <3>3. CASE ~(i <= Taken)
      <4>1. /\ i - Taken \in 1..used' /\ i - Taken - 1 \in Nat /\ i - 1 \in 0..(used - 1)
            /\ Taken + (i - Taken - 1) = i - 1 /\ i - 1 <= Capacity
            /\ Len(sent) + (i - 1) + 1 = Len(sent) + i
        BY <1>1, <1>2, <1>3, <1>5, <3>3
      <4>2. Forward(Forward(tail, Taken), i - Taken - 1)
              = Forward(tail, Taken + (i - Taken - 1))
        BY <1>1, <1>2, <4>1, ForwardForward
      <4>3. RingBytes'[i - Taken] = ring[Forward(tail, i - 1)]
        BY <1>0, <1>1, <1>7, <4>1, <4>2
      <4>4. RingBytes'[i - Taken] = <<job, Len(sent) + i>>
        BY <1>5, <4>1, <4>3
      <4> QED
        BY <2>1, <3>1, <3>3, <4>4
    <3> QED
      BY <3>2, <3>3
  <2>3. RingBytes = both
    BY <1>6, <2>1, <2>2, SeqEqual
  <2> QED
    BY <2>3 DEF both
<1>9. (Held \o RingBytes)' = Held \o RingBytes
  <2>1. (Held \o RingBytes)' = RingBytes
    BY <1>4, <1>8
  <2>2. Held \o RingBytes = RingBytes
    BY <1>4, <1>6, ConcatEmptySeq
  <2> QED
    BY <2>1, <2>2
<1> QED
  BY <1>0, <1>4, <1>9 DEF Q!qvars

\* A sequence cut where two others were joined.
LEMMA CutOfConcat ==
  ASSUME NEW s \in Seq(Byte), NEW t \in Seq(Byte)
  PROVE  /\ SubSeq(s \o t, 1, Len(s)) = s
         /\ SubSeq(s \o t, Len(s) + 1, Len(s \o t)) = t
<1> DEFINE both == s \o t
<1>1. /\ both \in Seq(Byte) /\ Len(both) = Len(s) + Len(t)
      /\ \A i \in 1..(Len(s) + Len(t)) : both[i] = IF i <= Len(s) THEN s[i] ELSE t[i - Len(s)]
      /\ Len(s) \in Nat /\ Len(t) \in Nat
  BY ConcatProperties
<1> HIDE DEF both
<1>2. SubSeq(both, 1, Len(s)) = s
  BY <1>1
<1>3. SubSeq(both, Len(s) + 1, Len(both)) = t
  BY <1>1
<1> QED
  BY <1>2, <1>3 DEF both

\* bulkWriteAll() takes the chunk out of the queue, or loses it.
LEMMA WriteIsTake ==
  ASSUME QueueInv, Write \/ WriteFails
  PROVE  Q!Next
<1>0. /\ wpc = "write" /\ staging' = <<>> /\ wpc' \in {"lower", "lower_failing"}
      /\ UNCHANGED <<ring, tail, used, failed, off, job, doc, verdict>>
  BY DEF Write, WriteFails, shared, producer, locals, jobVars
<1>1. ~Broken /\ Len(staging) \in 1..Chunk
  BY <1>0 DEF QueueInv, StageInv, RingInv, ControlInv, WriterFlags, Broken
<1>2. Held = staging /\ Held' = <<>> /\ RingBytes' = RingBytes /\ Published' = Published
  BY <1>0 DEF Held, RingBytes, Published
<1>3. RingBytes \in Seq(Byte) /\ staging \in Seq(Byte)
  <2>1. /\ ring \in [Cells -> Byte] /\ tail \in Cells /\ used \in 0..Capacity
        /\ staging \in Seq(Byte)
    BY Numbers DEF QueueInv, RingInv, ControlInv, Extent, TypeOK, TypeShared, TypeWriter
  <2> QED
    BY <2>1, BytesFrom DEF RingBytes
<1>4. /\ SubSeq(Held \o RingBytes, 1, Len(staging)) = staging
      /\ SubSeq(Held \o RingBytes, Len(staging) + 1, Len(Held \o RingBytes)) = RingBytes
      /\ Len(staging) <= Len(Held \o RingBytes)
  <2>1. Len(staging) <= Len(staging \o RingBytes)
    BY <1>3, ConcatProperties
  <2> QED
    BY <1>2, <1>3, <2>1, CutOfConcat
<1>5. (Held \o RingBytes)' = RingBytes
  <2>1. (Held \o RingBytes)' = <<>> \o RingBytes
    BY <1>2
  <2> QED
    BY <1>3, <2>1, ConcatEmptySeq
<1>6. CASE Write
  <2>1. sent' = sent \o staging /\ Broken' = Broken
    BY <1>0, <1>6 DEF Write, Broken
  <2>2. Q!Take(Len(staging))
    BY <1>0, <1>1, <1>2, <1>4, <1>5, <2>1 DEF Q!Take
  <2> QED
    BY <1>1, <2>2 DEF Q!Next
<1>7. CASE WriteFails
  <2>1. sent' = sent /\ Broken' = TRUE
    BY <1>7 DEF WriteFails, Broken
  <2>2. Q!Lose(Len(staging))
    BY <1>0, <1>1, <1>2, <1>4, <1>5, <2>1 DEF Q!Lose
  <2> QED
    BY <1>1, <2>2 DEF Q!Next
<1> QED
  BY <1>6, <1>7

-----------------------------------------------------------------------------
(***************************************************************************)
(* The refinement                                                          *)
(***************************************************************************)
LEMMA LoopStepIsQueueStep ==
  ASSUME QueueInv, OrderlyLoopNext
  PROVE  Q!Next \/ UNCHANGED Q!qvars
<1>1. ASSUME NEW n \in 1..MaxPush, StartJob(n) PROVE Q!Next \/ UNCHANGED Q!qvars
  BY <1>1, StartIsOpen
<1>2. ASSUME NEW n \in 1..MaxPush, NextBlock(n) PROVE Q!Next \/ UNCHANGED Q!qvars
  <2>1. off' = off
    BY <1>2 DEF NextBlock, QueueInv, RingInv, ControlInv, Views, PushPcs
  <2>2. RingBytes' = RingBytes /\ Held' = Held /\ Broken' = Broken /\ Published' = Published
    BY <1>2, <2>1 DEF NextBlock, shared, jobVars, writer, RingBytes, Held, Broken, Published
  <2> QED
    BY <1>2, <2>2, Invisible DEF NextBlock, jobVars, writer
<1>3. CASE FinishJob \/ ResetSawIdle \/ ResetGive \/ PushSpace \/ PushWaits
  <2>1. RingBytes' = RingBytes /\ Held' = Held /\ Broken' = Broken /\ Published' = Published
    BY <1>3 DEF FinishJob, ResetSawIdle, ResetGive, PushSpace, PushWaits, shared, locals,
       jobVars, writer, RingBytes, Held, Broken, Published
  <2> QED
    BY <1>3, <2>1, Invisible DEF FinishJob, ResetSawIdle, ResetGive, PushSpace, PushWaits,
       jobVars, writer
<1>4. CASE ResetZero
  BY <1>4, ResetIsClear
<1>5. CASE ResetClear
  BY <1>5, ClearIsRepair
<1>6. CASE PushCheck
  BY <1>6, CheckIsWithdraw
<1>7. CASE PushCopy
  BY <1>7, CopyIsInvisible
<1>8. CASE PushPublish
  BY <1>8, PublishIsPut
<1>9. CASE PushGive
  <2>1. doc \in Nat /\ off = len /\ len \in Nat
    BY <1>9, Numbers DEF PushGive, QueueInv, RingInv, ControlInv, Views
  <2>2. Published' = Published
    BY <1>9, <2>1 DEF PushGive, Published
  <2>3. RingBytes' = RingBytes /\ Held' = Held /\ Broken' = Broken
    BY <1>9 DEF PushGive, writer, RingBytes, Held, Broken
  <2> QED
    BY <1>9, <2>2, <2>3, Invisible DEF PushGive, writer
<1>10. CASE FlushFailed \/ FlushUsed \/ FlushBusy
  <2>1. CASE FlushFailed /\ failed
    BY <2>1, EndIsFinish DEF FlushFailed
  <2>2. CASE ~(FlushFailed /\ failed)
    <3>1. RingBytes' = RingBytes /\ Held' = Held /\ Broken' = Broken /\ Published' = Published
      BY <1>10, <2>2 DEF FlushFailed, FlushUsed, FlushBusy, shared, locals, jobVars, writer,
         RingBytes, Held, Broken, Published
    <3> QED
      BY <1>10, <2>2, <3>1, Invisible DEF FlushFailed, FlushUsed, FlushBusy, jobVars, writer
  <2> QED
    BY <2>1, <2>2
<1>11. CASE FlushUsb
  <2>1. PICK outcome \in {"completed", "aborted"} : EndJob(outcome)
    BY <1>11 DEF FlushUsb
  <2> QED
    BY <1>11, <2>1, EndIsFinish DEF FlushUsb
<1> QED
  BY <1>1, <1>2, <1>3, <1>4, <1>5, <1>6, <1>7, <1>8, <1>9, <1>10, <1>11 DEF OrderlyLoopNext,
     LoopStep

LEMMA WriterStepIsQueueStep ==
  ASSUME QueueInv, WriterStep
  PROVE  Q!Next \/ UNCHANGED Q!qvars
<1>1. CASE WriterTop \/ WriterLook \/ WriterCopy \/ WriterEmpty \/ WriterWakes
           \/ WriterLower \/ WriterFail
  <2>1. RingBytes' = RingBytes /\ Published' = Published
    BY <1>1 DEF WriterTop, WriterLook, WriterCopy, WriterEmpty, WriterWakes, WriterLower,
       WriterFail, shared, producer, locals, jobVars, RingBytes, Published
  <2>2. Held' = Held /\ Broken' = Broken
    BY <1>1 DEF WriterTop, WriterLook, WriterCopy, WriterEmpty, WriterWakes, WriterLower,
       WriterFail, shared, Held, Broken
  <2>3. UNCHANGED <<sent, job, verdict>>
    BY <1>1 DEF WriterTop, WriterLook, WriterCopy, WriterEmpty, WriterWakes, WriterLower,
       WriterFail, producer, jobVars
  <2> QED
    BY <2>1, <2>2, <2>3, Invisible
<1>2. CASE WriterTake
  BY <1>2, TakeIsInvisible
<1>3. CASE Write \/ WriteFails
  BY <1>3, WriteIsTake
<1> QED
  BY <1>1, <1>2, <1>3 DEF WriterStep

\* Every step of the two tasks is a step of the queue or invisible to it, for
\* every size of the ring, of a chunk and of a push: while no job is given up
\* with bytes queued, usb_stream.cpp neither loses, repeats nor reorders a byte.
THEOREM StreamIsPrintQueue == OrderlySpec => IsPrintQueue
<1>1. Init => Q!Init
  <2> SUFFICES ASSUME Init PROVE Q!Init
    OBVIOUS
  <2>1. Held = <<>> /\ RingBytes = <<>> /\ ~Broken /\ Published = 0
    BY DEF Init, Held, RingBytes, Broken, Published
  <2>2. Held \o RingBytes = <<>>
    BY <2>1
  <2> QED
    BY <2>1, <2>2 DEF Init, Q!Init
<1>2. QueueInv /\ [OrderlyNext]_vars => [Q!Next]_Q!qvars
  <2> SUFFICES ASSUME QueueInv, [OrderlyNext]_vars
               PROVE  Q!Next \/ UNCHANGED Q!qvars
    OBVIOUS
  <2>1. CASE OrderlyLoopNext
    BY <2>1, LoopStepIsQueueStep
  <2>2. CASE WriterStep
    BY <2>2, WriterStepIsQueueStep
  <2>3. CASE UNCHANGED vars
    <3>1. RingBytes' = RingBytes /\ Held' = Held /\ Broken' = Broken /\ Published' = Published
      BY <2>3 DEF vars, shared, producer, writer, locals, jobVars, RingBytes, Held, Broken,
         Published
    <3> QED
      BY <2>3, <3>1, Invisible DEF vars, producer, writer, jobVars
  <2> QED
    BY <2>1, <2>2, <2>3 DEF OrderlyNext, OrderlyLoopNext, Calls
<1> QED
  BY <1>1, <1>2, QueueInit, QueueStep, PTL DEF OrderlySpec, IsPrintQueue, Q!Spec
=============================================================================
