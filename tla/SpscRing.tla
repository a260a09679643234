------------------------------ MODULE SpscRing ------------------------------
(***************************************************************************)
(* The lock-free single-producer single-consumer ring of PCM frames         *)
(* (src/audio/SpscPcmRingBuffer), one step per shared-memory access: the    *)
(* producer thread is inside write(), the consumer thread (the audio        *)
(* device) inside read(), and every frame copied by std::copy_n is a step   *)
(* of its own.  A frame is named by its position in the produced audio.     *)
(*                                                                         *)
(* A load of the other side's index may return any value that index has    *)
(* held since this thread's last load of it: the C++ memory model promises *)
(* an acquire load no more.  Indices are 64-bit counts of frames, which do  *)
(* not overflow at 48 kHz; MaxFrames bounds them here.                      *)
(***************************************************************************)
EXTENDS Integers, Sequences

CONSTANTS Capacity,     \* m_capacityFrames
          MaxOffer,     \* bound: frames offered to one write()
          MaxRequest,   \* bound: frames requested by one read()
          MaxFrames     \* bound: frames ever written between two resets

(* checkedSampleCapacity() refuses a capacity of zero. *)
ASSUME CapacityAssumption == Capacity \in Nat \ {0}
ASSUME BoundsAssumption ==
  MaxOffer \in Nat /\ MaxRequest \in Nat /\ MaxFrames \in Nat

VARIABLES
  samples,          \* m_samples: slot -> frame stored in it
  writeFrame,       \* m_writeFrame (atomic, stored by the producer only)
  readFrame,        \* m_readFrame (atomic, stored by the consumer only)
  totalFramesRead,  \* m_totalFramesRead (atomic)
  writer,           \* where the producer thread is in write()
  seenRead,         \* the producer's last load of readFrame
  framesToWrite,    \* frames the write() in progress accepts
  written,          \* how many of them it has copied
  reader,           \* where the consumer thread is in read()
  seenWrite,        \* the consumer's last load of writeFrame
  framesToRead,     \* frames the read() in progress delivers
  copied,           \* how many of them it has copied
  output,           \* the caller's output span
  heard             \* output of the last completed read()

writerVars == <<writer, seenRead, framesToWrite, written>>
readerVars == <<reader, seenWrite, framesToRead, copied, output, heard>>
vars == <<samples, writeFrame, readFrame, totalFramesRead, writerVars, readerVars>>

Silence == -1
Slots == 0 .. Capacity - 1

(* The promise this ring keeps: its indices are the FIFO's counters. *)
Fifo == INSTANCE PcmFifo WITH accepted <- writeFrame, delivered <- readFrame
Frames == Nat \cup {Silence}

MinOf(a, b) == IF a <= b THEN a ELSE b

(* The copy of n frames at ring position `start' is split where the ring   *)
(* ends: firstFrames go from the offset up, the rest from slot 0 up.       *)
FirstFrames(start, n) == MinOf(n, Capacity - (start % Capacity))

(* The slot the k-th frame of that copy lands in (or comes from). *)
SlotOf(start, n, k) ==
  IF k < FirstFrames(start, n) THEN (start % Capacity) + k
                               ELSE k - FirstFrames(start, n)

Init ==
  /\ samples = [s \in Slots |-> Silence]
  /\ writeFrame = 0
  /\ readFrame = 0
  /\ totalFramesRead = 0
  /\ writer = "idle" /\ seenRead = 0 /\ framesToWrite = 0 /\ written = 0
  /\ reader = "idle" /\ seenWrite = 0 /\ framesToRead = 0 /\ copied = 0
  /\ output = <<>>
  /\ heard = <<>>

-----------------------------------------------------------------------------
(* write(): the producer thread. *)

\* mutant of WriteBegin: the frames already in the ring are not taken off.
WriteBeginOver ==
  /\ writer = "idle"
  /\ \E offered \in 1 .. MaxOffer : \E seen \in seenRead .. readFrame :
       LET n == MinOf(offered, Capacity)
       IN  /\ seenRead' = seen
           /\ writeFrame - seen < Capacity /\ writeFrame + n <= MaxFrames
           /\ writer' = "copy"
           /\ framesToWrite' = n
           /\ written' = 0
  /\ UNCHANGED <<samples, writeFrame, readFrame, totalFramesRead, readerVars>>

(* Load both indices and decide how much fits; a full ring takes nothing. *)
WriteBegin ==
  /\ writer = "idle"
  /\ \E offered \in 1 .. MaxOffer : \E seen \in seenRead .. readFrame :
       LET usedFrames == writeFrame - seen
           n == MinOf(offered, Capacity - usedFrames)
       IN  /\ seenRead' = seen
           /\ IF usedFrames >= Capacity
              THEN UNCHANGED <<writer, framesToWrite, written>>
              ELSE /\ writeFrame + n <= MaxFrames
                   /\ writer' = "copy"
                   /\ framesToWrite' = n
                   /\ written' = 0
  /\ UNCHANGED <<samples, writeFrame, readFrame, totalFramesRead, readerVars>>

(* One frame of either std::copy_n. *)
WriteCopy ==
  /\ writer = "copy"
  /\ written < framesToWrite
  /\ samples' = [samples EXCEPT
       ![SlotOf(writeFrame, framesToWrite, written)] = writeFrame + written]
  /\ written' = written + 1
  /\ UNCHANGED <<writeFrame, readFrame, totalFramesRead, readerVars,
                 writer, seenRead, framesToWrite>>

(* The release store publishes the frames and write() returns their number. *)
WritePublish ==
  /\ writer = "copy"
  /\ written = framesToWrite
  /\ writeFrame' = writeFrame + framesToWrite
  /\ writer' = "idle"
  /\ UNCHANGED <<samples, readFrame, totalFramesRead, readerVars,
                 seenRead, framesToWrite, written>>

-----------------------------------------------------------------------------
(* read(): the consumer thread. *)

(* Fill the output with silence, load both indices; an empty ring leaves   *)
(* the caller with silence.                                                *)
ReadBegin ==
  /\ reader = "idle"
  /\ \E requested \in 1 .. MaxRequest : \E seen \in seenWrite .. writeFrame :
       LET n == MinOf(requested, seen - readFrame)
       IN  /\ seenWrite' = seen
           /\ output' = Fifo!Padded(readFrame, 0, requested)
           /\ IF n = 0
              THEN /\ heard' = output'
                   /\ UNCHANGED <<reader, framesToRead, copied>>
              ELSE /\ reader' = "copy"
                   /\ framesToRead' = n
                   /\ copied' = 0
                   /\ UNCHANGED heard
  /\ UNCHANGED <<samples, writeFrame, readFrame, totalFramesRead, writerVars>>

ReadCopy ==
  /\ reader = "copy"
  /\ copied < framesToRead
  /\ output' = [output EXCEPT
       ![copied + 1] = samples[SlotOf(readFrame, framesToRead, copied)]]
  /\ copied' = copied + 1
  /\ UNCHANGED <<samples, writeFrame, readFrame, totalFramesRead, writerVars,
                 reader, seenWrite, framesToRead, heard>>

\* mutant of ReadPublish: read() returns before its second copy_n.
ReadPublishEarly ==
  /\ reader = "copy"
  /\ copied > 0
  /\ readFrame' = readFrame + framesToRead
  /\ heard' = output
  /\ reader' = "account"
  /\ UNCHANGED <<samples, writeFrame, totalFramesRead, writerVars,
                 seenWrite, framesToRead, copied, output>>

(* The release store hands the slots back to the producer. *)
ReadPublish ==
  /\ reader = "copy"
  /\ copied = framesToRead
  /\ readFrame' = readFrame + framesToRead
  /\ heard' = output
  /\ reader' = "account"
  /\ UNCHANGED <<samples, writeFrame, totalFramesRead, writerVars,
                 seenWrite, framesToRead, copied, output>>

(* The position counter follows in a store of its own, then read() returns. *)
ReadAccount ==
  /\ reader = "account"
  /\ totalFramesRead' = totalFramesRead + framesToRead
  /\ reader' = "idle"
  /\ UNCHANGED <<samples, writeFrame, readFrame, writerVars,
                 seenWrite, framesToRead, copied, output, heard>>

-----------------------------------------------------------------------------
\* mutant of Reset: the position counter survives.
ResetKeepingTotal ==
  /\ writer = "idle" /\ reader = "idle"
  /\ readFrame' = 0 /\ writeFrame' = 0 /\ seenRead' = 0 /\ seenWrite' = 0
  /\ UNCHANGED <<samples, totalFramesRead, writer, framesToWrite, written,
                 reader, framesToRead, copied, output, heard>>

(* reset(), which requires both threads to be stopped: whoever stopped them *)
(* made both see the stores that follow.                                    *)
Reset ==
  /\ writer = "idle"
  /\ reader = "idle"
  /\ readFrame' = 0
  /\ writeFrame' = 0
  /\ totalFramesRead' = 0
  /\ seenRead' = 0
  /\ seenWrite' = 0
  /\ UNCHANGED <<samples, writer, framesToWrite, written,
                 reader, framesToRead, copied, output, heard>>

Next ==
  \/ WriteBegin \/ WriteCopy \/ WritePublish
  \/ ReadBegin \/ ReadCopy \/ ReadPublish \/ ReadAccount
  \/ Reset

Spec == Init /\ [][Next]_vars

-----------------------------------------------------------------------------
TypeOK ==
  /\ samples \in [Slots -> Frames]
  /\ writeFrame \in Nat
  /\ readFrame \in Nat
  /\ totalFramesRead \in Nat
  /\ writer \in {"idle", "copy"}
  /\ seenRead \in Nat /\ framesToWrite \in Nat /\ written \in Nat
  /\ reader \in {"idle", "copy", "account"}
  /\ seenWrite \in Nat /\ framesToRead \in Nat /\ copied \in Nat
  /\ output \in Seq(Frames)
  /\ heard \in Seq(Frames)

(* Positions in the produced audio still to be touched by the two copies. *)
ToWrite == IF writer = "copy"
           THEN writeFrame + written .. writeFrame + framesToWrite - 1
           ELSE {}
ToRead == IF reader = "copy"
          THEN readFrame + copied .. readFrame + framesToRead - 1
          ELSE {}

(* The slots those copies are about to access. *)
SlotsWritten == {SlotOf(writeFrame, framesToWrite, f - writeFrame) : f \in ToWrite}
SlotsRead == {SlotOf(readFrame, framesToRead, f - readFrame) : f \in ToRead}

(* Neither copy_n ever touches a slot the other side is copying: the plain  *)
(* float accesses of SpscPcmRingBuffer.cpp:49-61 and 91-103 never race,     *)
(* whatever stale index the two threads loaded.                            *)
NoSlotRace == SlotsWritten \cap SlotsRead = {}

(* Every frame the indices call buffered is in its slot, unharmed by the    *)
(* write in progress, also across the wrap at the end of the ring.         *)
BufferedFramesIntact ==
  \A f \in readFrame .. writeFrame - 1 : samples[f % Capacity] = f

(* bufferedFrames() can be trusted by either thread: the ring never holds  *)
(* more than its capacity, and the position counter, which lags the index   *)
(* by at most the read in progress, never runs ahead of it.                 *)
CountersAgree ==
  /\ writeFrame - readFrame \in 0 .. Capacity
  /\ totalFramesRead = IF reader = "account"
                       THEN readFrame - framesToRead ELSE readFrame

(* The ring is the bounded FIFO of PcmFifo: whatever the interleaving,      *)
(* the device hears the accepted frames in order, once, padded by silence.  *)
ImplementsFifo == Fifo!FifoSpec

-----------------------------------------------------------------------------
(* The inductive invariant behind the theorems of SpscRingProofs: what each *)
(* thread's view of the other's index is worth, and how far its copy got.   *)

(* A stale view only errs on the safe side: the producer underestimates the *)
(* free space, the consumer the buffered frames.                            *)
ViewsAreSafe ==
  /\ seenRead <= readFrame
  /\ readFrame <= seenWrite
  /\ seenWrite <= writeFrame
  /\ writeFrame - seenRead <= Capacity

WriteFits ==
  writer = "copy" =>
    /\ framesToWrite \in 1 .. MaxOffer
    /\ written <= framesToWrite
    /\ writeFrame + framesToWrite - seenRead <= Capacity

ReadFits ==
  /\ reader = "copy" =>
       /\ framesToRead \in 1 .. MaxRequest
       /\ copied <= framesToRead
       /\ readFrame + framesToRead <= seenWrite
  /\ reader = "account" => framesToRead \in 1 .. readFrame

WrittenSoFar ==
  writer = "copy" =>
    \A f \in writeFrame .. writeFrame + written - 1 : samples[f % Capacity] = f

ReadSoFar ==
  reader = "copy" =>
    \E size \in 1 .. MaxRequest :
      /\ framesToRead <= size
      /\ output = Fifo!Padded(readFrame, copied, size)

IInv ==
  /\ TypeOK
  /\ ViewsAreSafe
  /\ WriteFits
  /\ ReadFits
  /\ CountersAgree
  /\ BufferedFramesIntact
  /\ WrittenSoFar
  /\ ReadSoFar
=============================================================================
