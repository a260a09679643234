--------------------------- MODULE SpscRingProofs ---------------------------
(***************************************************************************)
(* Proofs about SpscRing for every capacity and every bound: no data race   *)
(* on a slot, no lost or overwritten frame, and refinement of PcmFifo.      *)
(***************************************************************************)
EXTENDS SpscRing, SequenceTheorems, TLAPS

(***************************************************************************)
(* Ring arithmetic.                                                        *)
(***************************************************************************)

(* Euclidean division by the capacity. *)
LEMMA Division ==
  ASSUME NEW a \in Nat
  PROVE  /\ a \div Capacity \in Nat
         /\ a % Capacity \in Slots
         /\ a = Capacity * (a \div Capacity) + (a % Capacity)
  BY CapacityAssumption DEF Slots

(* A remainder is unique. *)
LEMMA UniqueRemainder ==
  ASSUME NEW q1 \in Int, NEW q2 \in Int, NEW r1 \in Slots, NEW r2 \in Slots,
         Capacity * q1 + r1 = Capacity * q2 + r2
  PROVE  q1 = q2 /\ r1 = r2
<1> USE CapacityAssumption DEF Slots
<1>1. ASSUME NEW q \in Int, q >= 1 PROVE Capacity * q >= Capacity
  BY <1>1
<1>2. CASE q1 = q2
  BY <1>2
<1>3. CASE q1 < q2
  <2>1. Capacity * (q2 - q1) >= Capacity
    BY <1>1, <1>3
  <2>2. Capacity * (q2 - q1) = Capacity * q2 - Capacity * q1
    OBVIOUS
  <2>3. QED BY <2>1, <2>2
<1>4. CASE q2 < q1
  <2>1. Capacity * (q1 - q2) >= Capacity
    BY <1>1, <1>4
  <2>2. Capacity * (q1 - q2) = Capacity * q1 - Capacity * q2
    OBVIOUS
  <2>3. QED BY <2>1, <2>2
<1>5. QED BY <1>2, <1>3, <1>4

(* The two-chunk copy of write() and read() visits the slots in ring order. *)
LEMMA SlotIsPosition ==
  ASSUME NEW start \in Nat, NEW n \in Nat, n <= Capacity, NEW k \in 0 .. n - 1
  PROVE  /\ SlotOf(start, n, k) = (start + k) % Capacity
         /\ SlotOf(start, n, k) \in Slots
<1> DEFINE r == start % Capacity
           q == start \div Capacity
           s == SlotOf(start, n, k)
<1>1. q \in Nat /\ r \in Slots /\ start = Capacity * q + r
  BY Division
<1>2. s \in Slots /\ (s = r + k \/ s = r + k - Capacity)
  BY <1>1, CapacityAssumption DEF SlotOf, FirstFrames, MinOf, Slots
<1>3. PICK q2 \in Nat : q2 = (start + k) \div Capacity
  BY Division
<1>4. /\ (start + k) % Capacity \in Slots
      /\ start + k = Capacity * q2 + ((start + k) % Capacity)
  BY <1>3, Division
<1>5. \E q1 \in Int : start + k = Capacity * q1 + s
  <2>1. Capacity * q \in Int /\ Capacity * (q + 1) = Capacity * q + Capacity
    BY <1>1, CapacityAssumption
  <2>2. CASE s = r + k
    <3>1. start + k = Capacity * q + s
      BY <1>1, <2>1, <2>2 DEF Slots
    <3>2. QED BY <1>1, <3>1
  <2>3. CASE s = r + k - Capacity
    <3>1. start + k = Capacity * (q + 1) + s
      BY <1>1, <2>1, <2>3, CapacityAssumption DEF Slots
    <3>2. QED BY <1>1, <3>1
  <2>4. QED BY <1>2, <2>2, <2>3
<1>6. s = (start + k) % Capacity
  BY <1>2, <1>3, <1>4, <1>5, UniqueRemainder
<1>7. QED BY <1>2, <1>6

(* Positions less than a capacity apart live in different slots. *)
LEMMA NearbyPositionsDiffer ==
  ASSUME NEW i \in Nat, NEW j \in Nat, i # j, j - i < Capacity, i - j < Capacity
  PROVE  i % Capacity # j % Capacity
<1> SUFFICES ASSUME i % Capacity = j % Capacity PROVE FALSE
  OBVIOUS
<1> DEFINE p == i \div Capacity
           q == j \div Capacity
<1>1. /\ p \in Nat /\ q \in Nat
      /\ i = Capacity * p + (i % Capacity)
      /\ j = Capacity * q + (i % Capacity)
      /\ i % Capacity \in Slots
  BY Division
<1>2. p # q
  BY <1>1
<1>3. ASSUME NEW d \in Int, d >= 1 PROVE Capacity * d >= Capacity
  BY <1>3, CapacityAssumption
<1>4. CASE p < q
  <2>1. Capacity * (q - p) >= Capacity /\ Capacity * (q - p) = Capacity * q - Capacity * p
    BY <1>1, <1>3, <1>4, CapacityAssumption
  <2>2. QED BY <1>1, <2>1, CapacityAssumption DEF Slots
<1>5. CASE q < p
  <2>1. Capacity * (p - q) >= Capacity /\ Capacity * (p - q) = Capacity * p - Capacity * q
    BY <1>1, <1>3, <1>5, CapacityAssumption
  <2>2. QED BY <1>1, <2>1, CapacityAssumption DEF Slots
<1>6. QED BY <1>1, <1>2, <1>4, <1>5

(***************************************************************************)
(* Sequences of frames.                                                    *)
(***************************************************************************)

(* A function over 1 .. n is a sequence. *)
LEMMA PaddedIsSeq ==
  ASSUME NEW first \in Nat, NEW n \in Int, NEW size \in Nat
  PROVE  /\ Fifo!Padded(first, n, size) \in [1 .. size -> Frames]
         /\ Fifo!Padded(first, n, size) \in Seq(Frames)
<1>1. Fifo!Padded(first, n, size) \in [1 .. size -> Frames]
  BY DEF Fifo!Padded, Fifo!Silence, Frames, Silence
<1>2. QED BY <1>1, SeqDef

-----------------------------------------------------------------------------
(* The inductive invariant holds initially, and every operation keeps it.  *)

(* The ring starts empty, with nothing copied and no view older than it.    *)
LEMMA InitInductive == Init => IInv
<1> SUFFICES ASSUME Init PROVE IInv
  OBVIOUS
<1> USE CapacityAssumption, BoundsAssumption DEF Init
<1>1. TypeOK
  BY DEF TypeOK, Slots, Frames, Silence
<1>2. ViewsAreSafe /\ WriteFits /\ ReadFits /\ CountersAgree
  BY DEF ViewsAreSafe, WriteFits, ReadFits, CountersAgree
<1>3. BufferedFramesIntact /\ WrittenSoFar /\ ReadSoFar
  BY DEF BufferedFramesIntact, WrittenSoFar, ReadSoFar
<1>4. QED BY <1>1, <1>2, <1>3 DEF IInv

(* A write that starts accepts no more than its view leaves room for.       *)
LEMMA WriteBeginInductive == IInv /\ WriteBegin => IInv'
<1> SUFFICES ASSUME IInv, WriteBegin PROVE IInv'
  OBVIOUS
<1> USE CapacityAssumption, BoundsAssumption
<1>1. /\ TypeOK /\ ViewsAreSafe /\ WriteFits /\ CountersAgree /\ writer = "idle"
      /\ UNCHANGED <<samples, writeFrame, readFrame, totalFramesRead,
                     reader, seenWrite, framesToRead, copied, output, heard>>
  BY DEF IInv, WriteBegin, readerVars
<1>2. PICK seen \in Nat :
        /\ seenRead' = seen /\ seen <= readFrame /\ seenRead <= seen
        /\ \/ UNCHANGED <<writer, framesToWrite, written>>
           \/ \E n \in Nat : /\ writer' = "copy" /\ framesToWrite' = n /\ written' = 0
                             /\ n \in 1 .. MaxOffer
                             /\ n <= Capacity - (writeFrame - seen)
  <2>1. PICK offered \in 1 .. MaxOffer, seen \in seenRead .. readFrame :
          /\ seenRead' = seen
          /\ \/ UNCHANGED <<writer, framesToWrite, written>>
             \/ /\ writeFrame - seen < Capacity
                /\ writer' = "copy"
                /\ framesToWrite' = MinOf(offered, Capacity - (writeFrame - seen))
                /\ written' = 0
    BY <1>1 DEF WriteBegin, TypeOK
  <2>2. /\ seen \in Nat /\ seen <= readFrame /\ seenRead <= seen
        /\ writeFrame - seen < Capacity =>
             LET n == MinOf(offered, Capacity - (writeFrame - seen))
             IN  n \in Nat /\ n \in 1 .. MaxOffer /\ n <= Capacity - (writeFrame - seen)
    BY <1>1, <2>1 DEF MinOf, TypeOK
  <2>3. QED BY <2>1, <2>2
<1>3. ViewsAreSafe'
  BY <1>1, <1>2 DEF TypeOK, ViewsAreSafe
<1>4. ReadFits' /\ CountersAgree' /\ BufferedFramesIntact' /\ ReadSoFar'
  BY <1>1 DEF IInv, ReadFits, CountersAgree, BufferedFramesIntact, ReadSoFar
<1>5. CASE UNCHANGED <<writer, framesToWrite, written>>
  <2>1. TypeOK' /\ WriteFits' /\ WrittenSoFar'
    BY <1>1, <1>2, <1>5 DEF TypeOK, WriteFits, WrittenSoFar
  <2>2. QED BY <1>3, <1>4, <2>1 DEF IInv
<1>6. ASSUME NEW n \in Nat,
             writer' = "copy", framesToWrite' = n, written' = 0,
             n \in 1 .. MaxOffer, n <= Capacity - (writeFrame - seen)
      PROVE  IInv'
  <2>1. TypeOK' /\ WriteFits'
    BY <1>1, <1>2, <1>6 DEF TypeOK, WriteFits
  <2>2. WrittenSoFar'
    BY <1>1, <1>2, <1>6 DEF TypeOK, WrittenSoFar
  <2>3. QED BY <1>3, <1>4, <2>1, <2>2 DEF IInv
<1>7. QED BY <1>2, <1>5, <1>6

(* A frame is copied into a slot no buffered frame is in.                   *)
LEMMA WriteCopyInductive == IInv /\ WriteCopy => IInv'
<1> SUFFICES ASSUME IInv, WriteCopy PROVE IInv'
  OBVIOUS
<1> USE CapacityAssumption, BoundsAssumption
<1> DEFINE p == writeFrame + written
<1>1. /\ TypeOK /\ ViewsAreSafe /\ WriteFits /\ CountersAgree
      /\ BufferedFramesIntact /\ WrittenSoFar
  BY DEF IInv
<1>2. /\ writer = "copy" /\ written < framesToWrite
      /\ samples' = [samples EXCEPT ![SlotOf(writeFrame, framesToWrite, written)] = p]
      /\ written' = written + 1
      /\ UNCHANGED <<writeFrame, readFrame, totalFramesRead, writer, seenRead,
                     framesToWrite, reader, seenWrite, framesToRead, copied,
                     output, heard>>
  BY DEF WriteCopy, readerVars
<1>3. p \in Nat /\ samples' = [samples EXCEPT ![p % Capacity] = p] /\ p % Capacity \in Slots
  <2>1. /\ writeFrame \in Nat /\ framesToWrite \in Nat /\ framesToWrite <= Capacity
        /\ written \in 0 .. framesToWrite - 1
    BY <1>1, <1>2 DEF TypeOK, ViewsAreSafe, WriteFits
  <2>2. SlotOf(writeFrame, framesToWrite, written) = p % Capacity
    BY <2>1, SlotIsPosition
  <2>3. QED BY <1>2, <2>1, <2>2, Division
<1>4. TypeOK'
  <2>1. samples' \in [Slots -> Frames]
    BY <1>1, <1>3 DEF TypeOK, Frames
  <2>2. QED BY <1>1, <1>2, <2>1 DEF TypeOK
<1>5. ViewsAreSafe' /\ WriteFits'
  BY <1>1, <1>2 DEF TypeOK, ViewsAreSafe, WriteFits
<1>6. ReadFits' /\ CountersAgree' /\ ReadSoFar'
  BY <1>2 DEF IInv, ReadFits, CountersAgree, ReadSoFar
<1>7. ASSUME NEW f \in Nat, f >= readFrame, f < p, samples[f % Capacity] = f
      PROVE  samples'[f % Capacity] = f
  <2>1. f % Capacity \in Slots
    BY Division
  <2>2. f # p /\ p - f < Capacity /\ f - p < Capacity
    BY <1>1, <1>2, <1>7 DEF TypeOK, ViewsAreSafe, WriteFits
  <2>3. f % Capacity # p % Capacity
    BY <1>3, <2>2, NearbyPositionsDiffer
  <2>4. QED BY <1>1, <1>3, <1>7, <2>1, <2>3 DEF TypeOK
<1>8. BufferedFramesIntact'
  <2>1. SUFFICES ASSUME NEW f \in readFrame' .. writeFrame' - 1
                 PROVE  samples'[f % Capacity] = f
    BY DEF BufferedFramesIntact
  <2>2. f \in readFrame .. writeFrame - 1 /\ f \in Nat /\ f >= readFrame /\ f < p
    BY <1>1, <1>2 DEF TypeOK
  <2>3. QED BY <1>1, <1>7, <2>2 DEF BufferedFramesIntact
<1>9. WrittenSoFar'
  <2>1. SUFFICES ASSUME NEW f \in writeFrame' .. writeFrame' + written' - 1
                 PROVE  samples'[f % Capacity] = f
    BY DEF WrittenSoFar
  <2>2. CASE f = p
    BY <1>1, <1>3, <2>2 DEF TypeOK
  <2>3. CASE f # p
    <3>1. f \in writeFrame .. writeFrame + written - 1
          /\ f \in Nat /\ f >= readFrame /\ f < p
      BY <1>1, <1>2, <2>3 DEF TypeOK, CountersAgree
    <3>2. QED BY <1>1, <1>2, <1>7, <3>1 DEF WrittenSoFar
  <2>4. QED BY <2>2, <2>3
<1>10. QED BY <1>4, <1>5, <1>6, <1>8, <1>9 DEF IInv

(* The index moves over frames that are all in their slots.                 *)
LEMMA WritePublishInductive == IInv /\ WritePublish => IInv'
<1> SUFFICES ASSUME IInv, WritePublish PROVE IInv'
  OBVIOUS
<1> USE CapacityAssumption, BoundsAssumption
<1>1. /\ TypeOK /\ ViewsAreSafe /\ WriteFits /\ ReadFits /\ CountersAgree
      /\ BufferedFramesIntact /\ WrittenSoFar
  BY DEF IInv
<1>2. /\ writer = "copy" /\ written = framesToWrite
      /\ writeFrame' = writeFrame + framesToWrite
      /\ writer' = "idle"
      /\ UNCHANGED <<samples, readFrame, totalFramesRead, seenRead, framesToWrite,
                     written, reader, seenWrite, framesToRead, copied, output, heard>>
  BY DEF WritePublish, readerVars
<1>3. TypeOK'
  BY <1>1, <1>2 DEF TypeOK
<1>4. ViewsAreSafe' /\ WriteFits' /\ WrittenSoFar' /\ CountersAgree'
  BY <1>1, <1>2 DEF TypeOK, ViewsAreSafe, WriteFits, WrittenSoFar, CountersAgree
<1>5. ReadFits' /\ ReadSoFar'
  BY <1>2 DEF IInv, ReadFits, ReadSoFar
<1>6. BufferedFramesIntact'
  <2>1. SUFFICES ASSUME NEW f \in readFrame' .. writeFrame' - 1
                 PROVE  samples'[f % Capacity] = f
    BY DEF BufferedFramesIntact
  <2>2. \/ f \in readFrame .. writeFrame - 1
        \/ f \in writeFrame .. writeFrame + written - 1
    BY <1>1, <1>2 DEF TypeOK
  <2>3. samples[f % Capacity] = f
    BY <1>1, <1>2, <2>2 DEF BufferedFramesIntact, WrittenSoFar
  <2>4. QED BY <1>2, <2>3
<1>7. QED BY <1>3, <1>4, <1>5, <1>6 DEF IInv

(* A read that starts asks for frames that have been published.             *)
LEMMA ReadBeginInductive == IInv /\ ReadBegin => IInv'
<1> SUFFICES ASSUME IInv, ReadBegin PROVE IInv'
  OBVIOUS
<1> USE CapacityAssumption, BoundsAssumption
<1>1. /\ TypeOK /\ ViewsAreSafe /\ WriteFits /\ ReadFits /\ CountersAgree
      /\ reader = "idle"
      /\ UNCHANGED <<samples, writeFrame, readFrame, totalFramesRead,
                     writer, seenRead, framesToWrite, written>>
  BY DEF IInv, ReadBegin, writerVars
<1>2. \E requested \in 1 .. MaxRequest :
        /\ seenWrite' \in Nat /\ seenWrite' <= writeFrame /\ seenWrite <= seenWrite'
        /\ output' = Fifo!Padded(readFrame, 0, requested)
        /\ \/ /\ UNCHANGED <<reader, framesToRead, copied>>
              /\ heard' = output'
           \/ /\ reader' = "copy" /\ copied' = 0 /\ heard' = heard
              /\ framesToRead' \in 1 .. requested
              /\ readFrame + framesToRead' <= seenWrite'
  <2>1. PICK requested \in 1 .. MaxRequest, seen \in seenWrite .. writeFrame :
          /\ seenWrite' = seen
          /\ output' = Fifo!Padded(readFrame, 0, requested)
          /\ \/ /\ heard' = output'
                /\ UNCHANGED <<reader, framesToRead, copied>>
             \/ /\ MinOf(requested, seen - readFrame) # 0
                /\ reader' = "copy"
                /\ framesToRead' = MinOf(requested, seen - readFrame)
                /\ copied' = 0
                /\ UNCHANGED heard
    BY <1>1 DEF ReadBegin
  <2>2. /\ seen \in Nat /\ seen <= writeFrame /\ seenWrite <= seen
        /\ MinOf(requested, seen - readFrame) # 0 =>
             /\ MinOf(requested, seen - readFrame) \in 1 .. requested
             /\ readFrame + MinOf(requested, seen - readFrame) <= seen
    BY <1>1, <2>1 DEF MinOf, TypeOK, ViewsAreSafe
  <2>3. QED BY <1>1, <2>1, <2>2
<1>3. /\ seenWrite' \in Nat /\ seenWrite' <= writeFrame /\ seenWrite <= seenWrite'
      /\ \/ UNCHANGED <<reader, framesToRead, copied>>
         \/ /\ reader' = "copy" /\ copied' = 0
            /\ framesToRead' \in 1 .. MaxRequest
            /\ readFrame + framesToRead' <= seenWrite'
  BY <1>2
<1>4. output' \in Seq(Frames) /\ heard' \in Seq(Frames)
  <2>1. ASSUME NEW requested \in 1 .. MaxRequest
        PROVE  Fifo!Padded(readFrame, 0, requested) \in Seq(Frames)
    <3>1. readFrame \in Nat /\ requested \in Nat /\ 0 \in Int
      BY <1>1 DEF TypeOK
    <3>2. QED BY <3>1, PaddedIsSeq
  <2>2. QED BY <1>1, <1>2, <2>1 DEF TypeOK
<1>5. TypeOK'
  BY <1>1, <1>3, <1>4 DEF TypeOK
<1>6. ViewsAreSafe' /\ WriteFits' /\ CountersAgree'
  BY <1>1, <1>3 DEF TypeOK, ViewsAreSafe, WriteFits, CountersAgree
<1>7. ReadFits'
  BY <1>1, <1>3 DEF TypeOK, ReadFits
<1>8. ReadSoFar'
  <2>1. SUFFICES ASSUME reader' = "copy"
                 PROVE  \E size \in 1 .. MaxRequest :
                          /\ framesToRead' <= size
                          /\ output' = Fifo!Padded(readFrame', copied', size)
    BY DEF ReadSoFar
  <2>2. QED BY <1>1, <1>2, <2>1
<1>9. BufferedFramesIntact' /\ WrittenSoFar'
  BY <1>1 DEF IInv, BufferedFramesIntact, WrittenSoFar
<1>10. QED BY <1>5, <1>6, <1>7, <1>8, <1>9 DEF IInv

(* The slot read holds the frame the index says it holds.                   *)
LEMMA ReadCopyInductive == IInv /\ ReadCopy => IInv'
<1> SUFFICES ASSUME IInv, ReadCopy PROVE IInv'
  OBVIOUS
<1> USE CapacityAssumption, BoundsAssumption
<1> DEFINE p == readFrame + copied
<1>1. /\ TypeOK /\ ViewsAreSafe /\ WriteFits /\ ReadFits /\ CountersAgree
      /\ BufferedFramesIntact
  BY DEF IInv
<1>2. /\ reader = "copy" /\ copied < framesToRead
      /\ output' = [output EXCEPT
           ![copied + 1] = samples[SlotOf(readFrame, framesToRead, copied)]]
      /\ copied' = copied + 1
      /\ UNCHANGED <<samples, writeFrame, readFrame, totalFramesRead, writer, seenRead,
                     framesToWrite, written, reader, seenWrite, framesToRead, heard>>
  BY DEF ReadCopy, writerVars
<1>3. samples[SlotOf(readFrame, framesToRead, copied)] = p
  <2>1. /\ readFrame \in Nat /\ framesToRead \in Nat /\ framesToRead <= Capacity
        /\ copied \in 0 .. framesToRead - 1
        /\ p \in readFrame .. writeFrame - 1
    BY <1>1, <1>2 DEF TypeOK, ViewsAreSafe, ReadFits, CountersAgree
  <2>2. SlotOf(readFrame, framesToRead, copied) = p % Capacity
    BY <2>1, SlotIsPosition
  <2>3. QED BY <1>1, <2>1, <2>2 DEF BufferedFramesIntact
<1>4. PICK size \in 1 .. MaxRequest :
        /\ framesToRead <= size
        /\ output = Fifo!Padded(readFrame, copied, size)
  BY <1>2 DEF IInv, ReadSoFar
<1>5. output' = Fifo!Padded(readFrame', copied', size)
  <2>1. copied + 1 \in 1 .. size /\ size \in Nat /\ copied \in Nat /\ readFrame \in Nat
    BY <1>1, <1>2, <1>4 DEF TypeOK
  <2>2. output' = [output EXCEPT ![copied + 1] = readFrame + copied]
    BY <1>2, <1>3
  <2>3. output' = Fifo!Padded(readFrame, copied + 1, size)
    <3>1. DOMAIN output = 1 .. size
      BY <1>4 DEF Fifo!Padded
    <3>2. ASSUME NEW k \in 1 .. size
          PROVE  output'[k] = IF k <= copied + 1 THEN readFrame + k - 1 ELSE Fifo!Silence
      BY <1>4, <2>1, <2>2 DEF Fifo!Padded
    <3>3. DOMAIN output' = 1 .. size /\ output' = [k \in DOMAIN output' |-> output'[k]]
      BY <2>2, <3>1
    <3>4. QED BY <3>2, <3>3 DEF Fifo!Padded
  <2>4. QED BY <1>2, <2>3
<1>6. TypeOK'
  <2>1. output' \in Seq(Frames)
    <3>1. readFrame' \in Nat /\ copied' \in Int /\ size \in Nat
      BY <1>1, <1>2, <1>4 DEF TypeOK
    <3>2. QED BY <1>5, <3>1, PaddedIsSeq
  <2>2. QED BY <1>1, <1>2, <2>1 DEF TypeOK
<1>7. ViewsAreSafe' /\ WriteFits' /\ ReadFits' /\ CountersAgree'
  BY <1>1, <1>2 DEF TypeOK, ViewsAreSafe, WriteFits, ReadFits, CountersAgree
<1>8. ReadSoFar'
  BY <1>2, <1>4, <1>5 DEF ReadSoFar
<1>9. BufferedFramesIntact' /\ WrittenSoFar'
  BY <1>2 DEF IInv, BufferedFramesIntact, WrittenSoFar
<1>10. QED BY <1>6, <1>7, <1>8, <1>9 DEF IInv

(* The slots handed back have all been copied out.                          *)
LEMMA ReadPublishInductive == IInv /\ ReadPublish => IInv'
<1> SUFFICES ASSUME IInv, ReadPublish PROVE IInv'
  OBVIOUS
<1> USE CapacityAssumption, BoundsAssumption
<1>1. /\ TypeOK /\ ViewsAreSafe /\ WriteFits /\ ReadFits /\ CountersAgree
      /\ BufferedFramesIntact
  BY DEF IInv
<1>2. /\ reader = "copy" /\ copied = framesToRead
      /\ readFrame' = readFrame + framesToRead
      /\ heard' = output
      /\ reader' = "account"
      /\ UNCHANGED <<samples, writeFrame, totalFramesRead, writer, seenRead,
                     framesToWrite, written, seenWrite, framesToRead, copied, output>>
  BY DEF ReadPublish, writerVars
<1>3. TypeOK'
  BY <1>1, <1>2 DEF TypeOK
<1>4. ViewsAreSafe' /\ WriteFits' /\ ReadFits' /\ CountersAgree'
  BY <1>1, <1>2 DEF TypeOK, ViewsAreSafe, WriteFits, ReadFits, CountersAgree
<1>5. ReadSoFar' /\ WrittenSoFar'
  BY <1>2 DEF IInv, ReadSoFar, WrittenSoFar
<1>6. BufferedFramesIntact'
  <2>1. SUFFICES ASSUME NEW f \in readFrame' .. writeFrame' - 1
                 PROVE  samples'[f % Capacity] = f
    BY DEF BufferedFramesIntact
  <2>2. f \in readFrame .. writeFrame - 1
    BY <1>1, <1>2 DEF TypeOK
  <2>3. QED BY <1>1, <1>2, <2>2 DEF BufferedFramesIntact
<1>7. QED BY <1>3, <1>4, <1>5, <1>6 DEF IInv

(* The position counter catches up with the index.                          *)
LEMMA ReadAccountInductive == IInv /\ ReadAccount => IInv'
<1> SUFFICES ASSUME IInv, ReadAccount PROVE IInv'
  OBVIOUS
<1> USE CapacityAssumption, BoundsAssumption
<1>1. /\ TypeOK /\ ViewsAreSafe /\ WriteFits /\ ReadFits /\ CountersAgree
  BY DEF IInv
<1>2. /\ reader = "account"
      /\ totalFramesRead' = totalFramesRead + framesToRead
      /\ reader' = "idle"
      /\ UNCHANGED <<samples, writeFrame, readFrame, writer, seenRead, framesToWrite,
                     written, seenWrite, framesToRead, copied, output, heard>>
  BY DEF ReadAccount, writerVars
<1>3. TypeOK'
  BY <1>1, <1>2 DEF TypeOK
<1>4. ViewsAreSafe' /\ WriteFits' /\ ReadFits' /\ CountersAgree'
  BY <1>1, <1>2 DEF TypeOK, ViewsAreSafe, WriteFits, ReadFits, CountersAgree
<1>5. ReadSoFar' /\ WrittenSoFar' /\ BufferedFramesIntact'
  BY <1>2 DEF IInv, ReadSoFar, WrittenSoFar, BufferedFramesIntact
<1>6. QED BY <1>3, <1>4, <1>5 DEF IInv

(* A reset ring is empty again, whatever its slots still hold.              *)
LEMMA ResetInductive == IInv /\ Reset => IInv'
<1> SUFFICES ASSUME IInv, Reset PROVE IInv'
  OBVIOUS
<1> USE CapacityAssumption, BoundsAssumption DEF IInv, Reset
<1>1. TypeOK'
  BY DEF TypeOK
<1>2. ViewsAreSafe' /\ WriteFits' /\ ReadFits' /\ CountersAgree'
  BY DEF ViewsAreSafe, WriteFits, ReadFits, CountersAgree
<1>3. ReadSoFar' /\ WrittenSoFar'
  BY DEF ReadSoFar, WrittenSoFar
<1>4. BufferedFramesIntact'
  BY DEF BufferedFramesIntact
<1>5. QED BY <1>1, <1>2, <1>3, <1>4

(* Every operation keeps the inductive invariant.                           *)
LEMMA StepInductive == IInv /\ [Next]_vars => IInv'
<1> SUFFICES ASSUME IInv, [Next]_vars PROVE IInv'
  OBVIOUS
<1>1. CASE Next
  BY <1>1, WriteBeginInductive, WriteCopyInductive, WritePublishInductive,
     ReadBeginInductive, ReadCopyInductive, ReadPublishInductive,
     ReadAccountInductive, ResetInductive DEF Next
<1>2. CASE UNCHANGED vars
  BY <1>2 DEF vars, writerVars, readerVars, IInv, TypeOK, ViewsAreSafe, WriteFits,
     ReadFits, CountersAgree, BufferedFramesIntact, WrittenSoFar, ReadSoFar
<1>3. QED BY <1>1, <1>2

-----------------------------------------------------------------------------
(* The inductive invariant, and with it every frame's integrity and both    *)
(* counters, hold in every reachable state of a ring of any capacity.       *)
THEOREM RingInvariant == Spec => []IInv
<1>1. QED BY InitInductive, StepInductive, PTL DEF Spec

(* The properties the runs check follow from it. *)
THEOREM FramesStayIntact == Spec => [](TypeOK /\ BufferedFramesIntact /\ CountersAgree)
<1>1. IInv => TypeOK /\ BufferedFramesIntact /\ CountersAgree
  BY DEF IInv
<1>2. QED BY <1>1, RingInvariant, PTL

(* No slot is ever written while it is being read: the producer's frames    *)
(* are ahead of the consumer's by less than a capacity, so the slots differ *)
(* even when both threads act on the stalest index they may have loaded.   *)
THEOREM RaceFreedom == Spec => []NoSlotRace
<1>1. IInv => NoSlotRace
  <2>1. SUFFICES ASSUME IInv, NEW f \in ToWrite, NEW g \in ToRead
                 PROVE  SlotOf(writeFrame, framesToWrite, f - writeFrame)
                          # SlotOf(readFrame, framesToRead, g - readFrame)
    BY DEF NoSlotRace, SlotsWritten, SlotsRead
  <2>2. /\ TypeOK /\ ViewsAreSafe /\ WriteFits /\ ReadFits /\ CountersAgree
        /\ writer = "copy" /\ reader = "copy"
    BY <2>1 DEF IInv, ToWrite, ToRead
  <2>3. PICK i \in Nat, m \in Nat : /\ f = writeFrame + i /\ m = framesToWrite
                                    /\ i < m /\ m <= Capacity
                                    /\ writeFrame + m <= readFrame + Capacity
    BY <2>1, <2>2, CapacityAssumption
       DEF ToWrite, TypeOK, WriteFits, ViewsAreSafe
  <2>4. PICK j \in Nat, n \in Nat : /\ g = readFrame + j /\ n = framesToRead
                                    /\ j < n /\ n <= Capacity
                                    /\ readFrame + n <= writeFrame
    BY <2>1, <2>2, CapacityAssumption
       DEF ToRead, TypeOK, ReadFits, ViewsAreSafe, CountersAgree
  <2>5. /\ writeFrame \in Nat /\ readFrame \in Nat
        /\ f - writeFrame = i /\ g - readFrame = j
        /\ i \in 0 .. m - 1 /\ j \in 0 .. n - 1
    BY <2>2, <2>3, <2>4 DEF TypeOK
  <2>6. /\ SlotOf(writeFrame, m, i) = f % Capacity
        /\ SlotOf(readFrame, n, j) = g % Capacity
    BY <2>3, <2>4, <2>5, SlotIsPosition
  <2>7. f \in Nat /\ g \in Nat /\ f # g /\ f - g < Capacity /\ g - f < Capacity
    BY <2>3, <2>4, <2>5, CapacityAssumption
  <2>8. QED BY <2>3, <2>4, <2>5, <2>6, <2>7, NearbyPositionsDiffer
<1>2. QED BY <1>1, RingInvariant, PTL

-----------------------------------------------------------------------------
(* Refinement: WritePublish is the FIFO's Accept, an empty ReadBegin and    *)
(* ReadPublish its Deliver, Reset its Restart; every other step stutters.   *)

LEMMA StepRefines == IInv /\ [Next]_vars => [Fifo!FifoNext]_(Fifo!fifoVars)
<1> SUFFICES ASSUME IInv, [Next]_vars PROVE [Fifo!FifoNext]_(Fifo!fifoVars)
  OBVIOUS
<1> USE CapacityAssumption, BoundsAssumption
<1>1. /\ TypeOK /\ ViewsAreSafe /\ WriteFits /\ ReadFits /\ CountersAgree
  BY DEF IInv
<1>2. CASE WriteBegin \/ WriteCopy \/ ReadCopy \/ ReadAccount \/ UNCHANGED vars
  BY <1>2 DEF WriteBegin, WriteCopy, ReadCopy, ReadAccount, vars, readerVars,
              writerVars, Fifo!fifoVars
<1>3. CASE WritePublish
  <2>1. /\ framesToWrite \in 1 .. MaxOffer
        /\ Fifo!Buffered + framesToWrite <= Capacity
    BY <1>1, <1>3 DEF WritePublish, TypeOK, WriteFits, ViewsAreSafe, Fifo!Buffered
  <2>2. Fifo!Accept(framesToWrite)
    BY <1>3, <2>1 DEF WritePublish, readerVars, Fifo!Accept
  <2>3. QED BY <2>1, <2>2 DEF Fifo!FifoNext
<1>4. CASE ReadBegin
  <2>1. CASE heard' = heard
    BY <1>4, <2>1 DEF ReadBegin, Fifo!fifoVars
  <2>2. CASE heard' # heard
    <3>1. PICK requested \in 1 .. MaxRequest :
            heard' = Fifo!Padded(readFrame, 0, requested)
      BY <1>4, <2>2 DEF ReadBegin
    <3>2. /\ writeFrame' = writeFrame /\ readFrame' = readFrame
          /\ readFrame \in Nat /\ writeFrame \in Nat
          /\ 0 \in 0 .. requested /\ 0 \in 0 .. MaxRequest
          /\ 0 <= Fifo!Buffered
      BY <1>1, <1>4 DEF ReadBegin, TypeOK, ViewsAreSafe, Fifo!Buffered
    <3>3. Fifo!Deliver(0, requested)
      BY <3>1, <3>2 DEF Fifo!Deliver, Fifo!Take
    <3>4. QED BY <3>2, <3>3 DEF Fifo!FifoNext
  <2>3. QED BY <2>1, <2>2
<1>5. CASE ReadPublish
  <2>1. PICK size \in 1 .. MaxRequest :
          /\ framesToRead <= size
          /\ output = Fifo!Padded(readFrame, copied, size)
    BY <1>5 DEF IInv, ReadSoFar, ReadPublish
  <2>2. /\ framesToRead \in 0 .. size /\ framesToRead \in 0 .. MaxRequest
        /\ framesToRead <= Fifo!Buffered
    BY <1>1, <1>5, <2>1
       DEF ReadPublish, TypeOK, ReadFits, ViewsAreSafe, Fifo!Buffered
  <2>3. Fifo!Deliver(framesToRead, size)
    BY <1>5, <2>1, <2>2 DEF ReadPublish, Fifo!Deliver, Fifo!Take
  <2>4. QED BY <2>2, <2>3 DEF Fifo!FifoNext
<1>6. CASE Reset
  BY <1>6 DEF Reset, Fifo!Restart, Fifo!FifoNext
<1>7. QED BY <1>2, <1>3, <1>4, <1>5, <1>6 DEF Next

(* The ring implements the bounded FIFO of PcmFifo. *)
THEOREM Refinement == Spec => ImplementsFifo
<1>1. Init => Fifo!FifoInit
  BY DEF Init, Fifo!FifoInit
<1>2. QED BY <1>1, StepRefines, RingInvariant, PTL DEF Spec, ImplementsFifo, Fifo!FifoSpec

=============================================================================
