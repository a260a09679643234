------------------------ MODULE StreamDecoderProofs ------------------------
(***************************************************************************)
(* No wake-up of the decoder thread is lost, and how a decode ends is what    *)
(* the stream shows, for every capacity, packet and prebuffer.              *)
(***************************************************************************)
EXTENDS StreamDecoder, TLAPS

USE CapacityAssumption, BoundsAssumption, ChunkAssumption

-----------------------------------------------------------------------------
(* The numbers are numbers. *)

Numbers ==
  /\ accepted \in Nat /\ delivered \in Nat /\ producedFrames \in Nat
  /\ spaceGeneration \in Nat /\ waitedGeneration \in Nat
  /\ writtenFrames \in Nat /\ left \in Nat /\ decodedFrameCount \in Nat
  /\ readyCalls \in 0 .. 1

(* The producer is inside the stream's operations only while samples are written, and   *)
(* it leaves them only because of a stop or because there is space.                    *)
Control ==
  /\ phase # "write" => producer = "decoding"
  /\ producer = "stopped" => stopRequested

(* write() has put frames into the ring that streamInput() has not counted yet. *)
Writing == {"count", "flag", "wrote"}

(* What the ring and the counters hold, and when the player is told it may start: a     *)
(* ring that filled up had enough in it when the last write returned, as the device     *)
(* only takes away.                                                                *)
Accounts ==
  /\ delivered <= accepted /\ accepted <= delivered + Capacity
  /\ accepted = decodedFrameCount + (IF producer \in Writing THEN writtenFrames ELSE 0)
  /\ producedFrames =
       decodedFrameCount + (IF producer \in Writing \ {"count"} THEN writtenFrames ELSE 0)
  /\ producer \in Writing => 1 <= writtenFrames /\ writtenFrames <= left
  /\ decodedFrameCount > 0 \/ producer = "wrote" => hasAudio
  /\ readyCalls = 0 /\ producer \notin Writing => Buffered < PrebufferTarget

(* The prebuffer target is met before the ring is full. *)
LEMMA TargetFits == PrebufferTarget \in 1 .. Capacity
  BY DEF PrebufferTarget

(* The stream starts empty. *)
LEMMA InitAccounts ==
  ASSUME Init
  PROVE  Numbers /\ Control /\ Accounts
<1>1. accepted = 0 /\ delivered = 0
  BY DEF Init, StreamInit, Ring!FifoInit
<1>2. Numbers
  BY <1>1 DEF Init, StreamInit, Numbers
<1>3. Control
  BY DEF Init, StreamInit, Control
<1>4. Accounts
  BY <1>1, TargetFits DEF Init, StreamInit, Accounts, Writing, Buffered
<1> QED
  BY <1>2, <1>3, <1>4

(* Steps that write, count or take nothing. *)
Idles ==
  /\ UNCHANGED <<accepted, delivered, producedFrames, writtenFrames, decodedFrameCount>>
  /\ (producer \notin Writing /\ producer' \notin Writing) \/ UNCHANGED <<producer, left>>
  /\ hasAudio' = hasAudio
  /\ readyCalls' \in {readyCalls, 1}
  /\ left' \in Nat

(* They keep the accounts. *)
LEMMA IdleSteps ==
  ASSUME Numbers, Control, Accounts, Idles, spaceGeneration' \in Nat, waitedGeneration' \in Nat
  PROVE  Numbers' /\ Accounts'
<1>1. Numbers'
  BY DEF Numbers, Idles
<1>2. Accounts'
  <2>1. /\ producer' \in Writing <=> producer \in Writing
        /\ producer' = "count" <=> producer = "count"
        /\ producer' = "wrote" <=> producer = "wrote"
        /\ producer \in Writing => left' = left
    BY DEF Idles, Writing
  <2>2. readyCalls' = 0 => readyCalls = 0
    BY DEF Idles
  <2>3. hasAudio' = hasAudio
    BY DEF Idles
  <2>4. producer' \in Writing \ {"count"} <=> producer \in Writing \ {"count"}
    BY <2>1
  <2>5. UNCHANGED <<accepted, delivered, producedFrames, writtenFrames, decodedFrameCount>>
    BY DEF Idles
  <2>6. Buffered' = Buffered
    BY <2>5 DEF Buffered
  <2> QED
    BY <2>1, <2>2, <2>3, <2>4, <2>5, <2>6 DEF Accounts
<1> QED
  BY <1>1, <1>2

(* The decoder's steps but for those that move frames. *)
QuietDecoder ==
  \/ Enter \/ Register \/ Io \/ Configure \/ ReadPacket \/ Flush
  \/ WriteDone \/ WriteCancelled \/ WriteNone \/ Finish \/ MarkEndOfStream \/ Leave
  \/ ((WaitTest \/ WaitLoad \/ WaitStop \/ WaitRecheck \/ WaitSleep) /\ UNCHANGED decoderVars)

QuietOthers ==
  /\ \/ RenderStart \/ RenderBump \/ RenderNotify \/ RenderShort \/ RenderUnderrun
     \/ GuiCalls \/ GuiSteps
  /\ UNCHANGED decoderVars

(* Both are such steps. *)
LEMMA QuietDecoderIdles ==
  ASSUME Numbers, Control, QuietDecoder
  PROVE  Idles /\ spaceGeneration' \in Nat /\ waitedGeneration' \in Nat /\ Control'
<1> USE DEF streamVars, ring, atomics, producerVars, deviceVars, guiVars, decoderVars
<1>1. ASSUME UNCHANGED streamVars, UNCHANGED <<decodedFrameCount>>, readyCalls' \in {readyCalls, 1},
             left' \in Nat, producer \notin Writing
      PROVE  Idles /\ spaceGeneration' \in Nat /\ waitedGeneration' \in Nat
  BY <1>1 DEF Idles, Numbers
<1>2. phase # "write" => producer \notin Writing /\ producer = "decoding"
  BY DEF Control, Writing
<1>3. CASE Enter \/ Io \/ Configure
  BY <1>1, <1>2, <1>3 DEF Enter, Io, Configure, Return, Control, Numbers
<1>4. CASE ReadPacket
  <2>2. left' = left \/ left' \in 0 .. MaxChunk
    BY <1>4 DEF ReadPacket, Convert
  <2>1. left' \in Nat
    BY <2>2 DEF Numbers
  <2> QED
    BY <1>1, <1>2, <1>4, <2>1 DEF ReadPacket, Control
<1>5. CASE Flush
  <2>2. left' = left \/ left' \in 0 .. MaxChunk
    BY <1>5 DEF Flush, Convert
  <2>1. left' \in Nat
    BY <2>2 DEF Numbers
  <2> QED
    BY <1>1, <1>2, <1>5, <2>1 DEF Flush, Control
<1>6. CASE Register
  BY <1>2, <1>6 DEF Register, Goes, Idles, Control, Numbers
<1>7. CASE WriteDone
  BY <1>1, <1>7 DEF WriteDone, Decoding, Control, Numbers, Writing
<1>8. CASE WriteCancelled \/ WriteNone
  BY <1>8 DEF WriteCancelled, WriteNone, Decoding, Return, Idles, Control, Numbers, Writing
<1>9. CASE Finish
  BY <1>1, <1>2, <1>9 DEF Finish, Return, Control, Numbers
<1>10. CASE MarkEndOfStream \/ Leave
  BY <1>2, <1>10 DEF MarkEndOfStream, Leave, Goes, Return, Idles, Control, Numbers
<1>11. CASE (WaitTest \/ WaitLoad \/ WaitStop \/ WaitRecheck \/ WaitSleep) /\ UNCHANGED decoderVars
  BY <1>11 DEF WaitTest, WaitLoad, WaitStop, WaitRecheck, WaitSleep, ProducerGoes, Idles, Control,
    Numbers, Writing
<1> QED
  BY <1>3, <1>4, <1>5, <1>6, <1>7, <1>8, <1>9, <1>10, <1>11 DEF QuietDecoder

(* So are those of the device and of the player, the read apart. *)
LEMMA QuietOthersIdle ==
  ASSUME Numbers, Control, QuietOthers
  PROVE  Idles /\ spaceGeneration' \in Nat /\ waitedGeneration' \in Nat /\ Control'
<1> USE DEF streamVars, ring, atomics, producerVars, deviceVars, guiVars, decoderVars
<1>1. CASE RenderStart \/ RenderShort
  BY <1>1 DEF QuietOthers, RenderStart, RenderShort, DeviceGoes, Idles, Control, Numbers
<1>2. CASE RenderBump \/ RenderUnderrun
  BY <1>2 DEF QuietOthers, RenderBump, RenderUnderrun, DeviceGoes, Idles, Control, Numbers
<1>3. CASE RenderNotify
  BY <1>3 DEF QuietOthers, RenderNotify, Wakened, Idles, Control, Numbers, Writing
<1>4. CASE GuiCalls
  BY <1>4 DEF QuietOthers, GuiCalls, PlayCall, PollCall, Pause, CancelDecode, GuiGoes,
    OtherThreads,
    Idles, Control, Numbers
<1>5. CASE EndTest \/ WriteIndexLoad \/ ReadIndexLoad
  BY <1>5 DEF QuietOthers, EndTest, WriteIndexLoad, ReadIndexLoad, GuiGoes, OtherThreads, Idles,
    Control,
    Numbers
<1>7. CASE PlayStore
  BY <1>7 DEF QuietOthers, PlayStore, OtherThreads, Idles, Control, Numbers
<1>8. CASE InterruptBump
  <2>1. spaceGeneration' = spaceGeneration + 1
    BY <1>8, Zenon DEF InterruptBump
  <2>2. /\ UNCHANGED <<producedFrames, hasAudio, stopRequested, accepted, delivered>>
        /\ UNCHANGED <<producer, writtenFrames, waitedGeneration>>
    BY <1>8, Zenon DEF InterruptBump, OtherThreads
  <2>3. UNCHANGED <<phase, left, decodedFrameCount, readyCalls>>
    BY Zenon DEF QuietOthers
  <2>4. spaceGeneration' \in Nat /\ waitedGeneration' \in Nat
    BY <2>1, <2>2 DEF Numbers
  <2>5. Idles
    BY <2>2, <2>3 DEF Idles, Numbers
  <2>6. Control'
    BY <2>2, <2>3 DEF Control
  <2> QED
    BY <2>4, <2>5, <2>6
<1>6. CASE InterruptNotify
  BY <1>6 DEF QuietOthers, InterruptNotify, GuiGoes, Wakened, Idles, Control, Numbers, Writing
<1> QED
  BY <1>1, <1>2, <1>3, <1>4, <1>5, <1>6, <1>7, <1>8 DEF QuietOthers, GuiSteps

(* The step that moves frames into the ring, those that count them, and the one that    *)
(* takes them out.                                                                 *)
LEMMA MovingSteps ==
  ASSUME Numbers, Control, Accounts,
         \/ WriteCall \/ WriteReturn
         \/ (WriteCount \/ WriteFlag) /\ UNCHANGED decoderVars
         \/ RenderRead /\ UNCHANGED decoderVars
  PROVE  Numbers' /\ Control' /\ Accounts'
<1> USE DEF decoderVars, ring, atomics, producerVars, guiVars
<1>1. CASE WriteCall
  <2>1. PICK n \in Int :
          /\ 1 <= n /\ n <= left /\ Buffered + n <= Capacity
          /\ accepted' = accepted + n /\ delivered' = delivered /\ writtenFrames' = n
    BY <1>1 DEF WriteCall, WriteSome, Writable, Buffered, Numbers, Ring!Accept, Ring!Buffered
  <2>2. /\ producer = "decoding" /\ producer' = "count" /\ hasAudio' = hasAudio
        /\ UNCHANGED <<phase, left, decodedFrameCount, readyCalls, producedFrames,
                       spaceGeneration, waitedGeneration, stopRequested>>
    BY <1>1 DEF WriteCall, WriteSome, ProducerGoes
  <2>3. Numbers'
    BY <2>1, <2>2 DEF Numbers
  <2>4. Control'
    BY <1>1, <2>2 DEF WriteCall, Control
  <2>5. Accounts'
    BY <2>1, <2>2 DEF Accounts, Numbers, Writing, Buffered
  <2> QED
    BY <2>3, <2>4, <2>5
<1>2. CASE WriteReturn
  <2>1. /\ producer = "wrote" /\ producer' = "decoding" /\ hasAudio' = hasAudio
        /\ left' = left - writtenFrames
        /\ decodedFrameCount' = decodedFrameCount + writtenFrames
        /\ UNCHANGED <<accepted, delivered, writtenFrames, phase, producedFrames,
                       spaceGeneration, waitedGeneration, stopRequested>>
    BY <1>2 DEF WriteReturn
  <2>2. readyCalls' = IF readyCalls = 0 /\ Buffered >= PrebufferTarget THEN 1 ELSE readyCalls
    BY <1>2 DEF WriteReturn
  <2>3. Numbers'
    BY <2>1, <2>2 DEF Numbers, Accounts, Writing
  <2>4. Control'
    BY <2>1 DEF Control
  <2>5. Buffered' = Buffered /\ Buffered \in Int /\ PrebufferTarget \in Int
    BY <2>1, TargetFits DEF Buffered, Numbers
  <2>6. readyCalls' = 0 => Buffered' < PrebufferTarget
    BY <2>2, <2>5 DEF Numbers
  <2>7. hasAudio'
    BY <2>1 DEF Accounts
  <2>8. /\ accepted' = decodedFrameCount' /\ producedFrames' = decodedFrameCount'
        /\ delivered' <= accepted' /\ accepted' <= delivered' + Capacity
    BY <2>1 DEF Accounts, Numbers, Writing
  <2> QED
    BY <2>1, <2>3, <2>4, <2>6, <2>7, <2>8 DEF Accounts, Writing
<1>3. CASE WriteCount /\ UNCHANGED decoderVars
  BY <1>3 DEF WriteCount, ProducerGoes, Numbers, Control, Accounts, Writing, Buffered
<1>4. CASE WriteFlag /\ UNCHANGED decoderVars
  BY <1>4 DEF WriteFlag, ProducerGoes, Numbers, Control, Accounts, Writing, Buffered
<1>5. CASE RenderRead /\ UNCHANGED decoderVars
  <2>1. PICK n \in Nat : n <= Buffered /\ delivered' = delivered + n /\ accepted' = accepted
    BY <1>5 DEF RenderRead, Buffered, Numbers, Accounts, Ring!Take, Ring!Buffered
  <2>2. /\ hasAudio' = hasAudio
        /\ UNCHANGED <<producer, writtenFrames, phase, left, decodedFrameCount, readyCalls,
                       producedFrames, spaceGeneration, waitedGeneration, stopRequested>>
    BY <1>5 DEF RenderRead
  <2>3. Numbers'
    BY <2>1, <2>2 DEF Numbers
  <2>4. Control'
    BY <2>2 DEF Control
  <2>5. /\ delivered' <= accepted' /\ accepted' <= delivered' + Capacity
        /\ Buffered' <= Buffered /\ Buffered' \in Int /\ Buffered \in Int
    BY <2>1 DEF Buffered, Numbers, Accounts
  <2>6. readyCalls' = 0 /\ producer' \notin Writing => Buffered' < PrebufferTarget
    BY <2>2, <2>5, TargetFits DEF Accounts
  <2> QED
    BY <2>1, <2>2, <2>3, <2>4, <2>5, <2>6 DEF Accounts
<1> QED
  BY <1>1, <1>2, <1>3, <1>4, <1>5

(* Every step keeps the accounts. *)
LEMMA AccountsStep ==
  ASSUME Numbers, Control, Accounts, [Next]_vars
  PROVE  Numbers' /\ Control' /\ Accounts'
<1>1. CASE UNCHANGED vars
  <2>1. Idles /\ spaceGeneration' \in Nat /\ waitedGeneration' \in Nat /\ Control'
    BY <1>1 DEF vars, streamVars, ring, atomics, producerVars, guiVars, decoderVars, Idles,
      Numbers,
      Control
  <2> QED
    BY <2>1, IdleSteps
<1>2. CASE QuietDecoder
  BY <1>2, QuietDecoderIdles, IdleSteps
<1>3. CASE QuietOthers
  BY <1>3, QuietOthersIdle, IdleSteps
<1>4. CASE \/ WriteCall \/ WriteReturn
           \/ (WriteCount \/ WriteFlag) /\ UNCHANGED decoderVars
           \/ RenderRead /\ UNCHANGED decoderVars
  BY <1>4, MovingSteps
<1> QED
  BY <1>1, <1>2, <1>3, <1>4 DEF Next, DecoderSteps, ProducerSteps, DeviceSteps, QuietDecoder,
    QuietOthers

-----------------------------------------------------------------------------
(* The variables that are not numbers, and the two numbers nothing else depends on. *)

Phases == {"enter", "register", "open", "probe", "configure", "seek", "read", "write",
           "flush codec", "flush resampler", "finish", "mark end", "leave", "done"}

DecoderTags ==
  /\ phase \in Phases
  /\ resume \in {"enter", "read", "flush resampler", "finish"}
  /\ result \in {"none", "success", "error", "cancelled"}

ProducerTags ==
  producer \in {"decoding", "count", "flag", "wrote", "test", "load", "stop?",
                "recheck", "wait", "asleep", "stopped"}

DeviceTags == device \in {"idle", "read", "bump", "notify", "short", "underrun"}

GuiTags ==
  /\ gui \in {"idle", "end?", "write index", "read index", "start",
              "callback bump", "callback notify", "bump", "notify"}
  /\ guiCall \in {"play", "poll"}

Tags == DecoderTags /\ ProducerTags /\ DeviceTags /\ GuiTags

Flags ==
  /\ hasAudio \in BOOLEAN /\ playing \in BOOLEAN /\ endOfStream \in BOOLEAN
  /\ renderedShort \in BOOLEAN
  /\ sawFinished \in BOOLEAN /\ stopRequested \in BOOLEAN /\ stopWakeup \in BOOLEAN

Loose == seenWriteFrame \in Nat /\ underrunCount \in 0 .. MaxUnderruns

(* Together they are the type invariant. *)
LEMMA PartsAreTypes ==
  ASSUME Numbers, Tags, Flags, Loose
  PROVE  TypeOK
<1> USE DEF Tags, DecoderTags, ProducerTags, DeviceTags, GuiTags
<1>1. StreamTypeOK
  BY DEF StreamTypeOK, Numbers, Flags, Loose
<1> QED
  BY <1>1 DEF TypeOK, Numbers, Phases

(* Every step keeps where the decoder is, *)
LEMMA DecoderTagsStep ==
  ASSUME DecoderTags, [Next]_vars
  PROVE  DecoderTags'
<1> USE DEF streamVars, ring, atomics, producerVars, deviceVars, guiVars, decoderVars,
            DecoderTags, Phases
<1>1. CASE Enter \/ Register \/ Io \/ Configure
  BY <1>1 DEF Enter, Register, Io, Configure, Goes, Return, Cancelled
<1>2. CASE ReadPacket \/ Flush
  BY <1>2 DEF ReadPacket, Flush, Convert, Return, Cancelled
<1>3. CASE WriteDone \/ WriteCancelled \/ WriteCall \/ WriteNone \/ WriteReturn
  BY <1>3 DEF WriteDone, WriteCancelled, WriteCall, WriteSome, WriteNone, WriteReturn, Return
<1>4. CASE Finish \/ MarkEndOfStream \/ Leave
  BY <1>4 DEF Finish, MarkEndOfStream, Leave, Goes, Return
<1>5. CASE ProducerSteps /\ UNCHANGED decoderVars
  BY <1>5 DEF ProducerSteps, WriteCount, WriteFlag, WaitTest, WaitLoad, WaitStop, WaitRecheck,
    WaitSleep
<1>6. CASE DeviceSteps /\ UNCHANGED decoderVars
  BY <1>6 DEF DeviceSteps, RenderStart, RenderRead, RenderBump, RenderNotify, RenderShort,
    RenderUnderrun
<1>7. CASE GuiCalls /\ UNCHANGED decoderVars
  BY <1>7 DEF GuiCalls, PlayCall, PollCall, Pause, CancelDecode, OtherThreads
<1>8. CASE GuiSteps /\ UNCHANGED decoderVars
  BY <1>8 DEF GuiSteps, EndTest, WriteIndexLoad, ReadIndexLoad, PlayStore, InterruptBump,
    InterruptNotify, OtherThreads
<1>9. CASE UNCHANGED vars
  BY <1>9 DEF vars
<1> QED
  BY <1>1, <1>2, <1>3, <1>4, <1>5, <1>6, <1>7, <1>8, <1>9 DEF Next, DecoderSteps

(* where it is inside the stream's operations, *)
LEMMA ProducerTagsStep ==
  ASSUME ProducerTags, [Next]_vars
  PROVE  ProducerTags'
<1> USE DEF streamVars, ring, atomics, producerVars, deviceVars, guiVars, decoderVars, ProducerTags
<1>1. CASE Enter \/ Register \/ Io \/ Configure \/ ReadPacket \/ Flush
  BY <1>1 DEF Enter, Register, Io, Configure, ReadPacket, Flush
<1>2. CASE WriteDone \/ WriteCancelled \/ WriteCall \/ WriteNone \/ WriteReturn
  BY <1>2 DEF WriteDone, WriteCancelled, WriteCall, WriteSome, WriteNone, WriteReturn,
    ProducerGoes
<1>3. CASE Finish \/ MarkEndOfStream \/ Leave
  BY <1>3 DEF Finish, MarkEndOfStream, Leave
<1>4. CASE ProducerSteps
  BY <1>4 DEF ProducerSteps, WriteCount, WriteFlag, WaitTest, WaitLoad, WaitStop, WaitRecheck,
    WaitSleep, ProducerGoes
<1>5. CASE DeviceSteps
  BY <1>5 DEF DeviceSteps, RenderStart, RenderRead, RenderBump, RenderNotify, RenderShort,
    RenderUnderrun, DeviceGoes, Wakened
<1>6. CASE GuiCalls
  BY <1>6 DEF GuiCalls, PlayCall, PollCall, Pause, CancelDecode, GuiGoes, OtherThreads
<1>7. CASE GuiSteps
  BY <1>7 DEF GuiSteps, EndTest, WriteIndexLoad, ReadIndexLoad, PlayStore, InterruptBump,
    InterruptNotify, GuiGoes, NotFinished, OtherThreads, Wakened
<1>8. CASE UNCHANGED vars
  BY <1>8 DEF vars
<1> QED
  BY <1>1, <1>2, <1>3, <1>4, <1>5, <1>6, <1>7, <1>8 DEF Next, DecoderSteps

(* where the device is, *)
LEMMA DeviceTagsStep ==
  ASSUME DeviceTags, [Next]_vars
  PROVE  DeviceTags'
<1> USE DEF streamVars, ring, atomics, producerVars, deviceVars, guiVars, decoderVars, DeviceTags
<1>1. CASE Enter \/ Register \/ Io \/ Configure \/ ReadPacket \/ Flush
  BY <1>1 DEF Enter, Register, Io, Configure, ReadPacket, Flush
<1>2. CASE WriteDone \/ WriteCancelled \/ WriteCall \/ WriteNone \/ WriteReturn
  BY <1>2 DEF WriteDone, WriteCancelled, WriteCall, WriteSome, WriteNone, WriteReturn,
    ProducerGoes
<1>3. CASE Finish \/ MarkEndOfStream \/ Leave
  BY <1>3 DEF Finish, MarkEndOfStream, Leave
<1>4. CASE ProducerSteps
  BY <1>4 DEF ProducerSteps, WriteCount, WriteFlag, WaitTest, WaitLoad, WaitStop, WaitRecheck,
    WaitSleep, ProducerGoes
<1>5. CASE DeviceSteps
  BY <1>5 DEF DeviceSteps, RenderStart, RenderRead, RenderBump, RenderNotify, RenderShort,
    RenderUnderrun, DeviceGoes, Wakened
<1>6. CASE GuiCalls
  BY <1>6 DEF GuiCalls, PlayCall, PollCall, Pause, CancelDecode, GuiGoes, OtherThreads
<1>7. CASE GuiSteps
  BY <1>7 DEF GuiSteps, EndTest, WriteIndexLoad, ReadIndexLoad, PlayStore, InterruptBump,
    InterruptNotify, GuiGoes, NotFinished, OtherThreads, Wakened
<1>8. CASE UNCHANGED vars
  BY <1>8 DEF vars
<1> QED
  BY <1>1, <1>2, <1>3, <1>4, <1>5, <1>6, <1>7, <1>8 DEF Next, DecoderSteps

(* where the user's thread is, *)
LEMMA GuiTagsStep ==
  ASSUME GuiTags, [Next]_vars
  PROVE  GuiTags'
<1> USE DEF streamVars, ring, atomics, producerVars, deviceVars, guiVars, decoderVars, GuiTags
<1>1. CASE Enter \/ Register \/ Io \/ Configure \/ ReadPacket \/ Flush
  BY <1>1 DEF Enter, Register, Io, Configure, ReadPacket, Flush
<1>2. CASE WriteDone \/ WriteCancelled \/ WriteCall \/ WriteNone \/ WriteReturn
  BY <1>2 DEF WriteDone, WriteCancelled, WriteCall, WriteSome, WriteNone, WriteReturn,
    ProducerGoes
<1>3. CASE Finish \/ MarkEndOfStream \/ Leave
  BY <1>3 DEF Finish, MarkEndOfStream, Leave
<1>4. CASE ProducerSteps
  BY <1>4 DEF ProducerSteps, WriteCount, WriteFlag, WaitTest, WaitLoad, WaitStop, WaitRecheck,
    WaitSleep, ProducerGoes
<1>5. CASE DeviceSteps
  BY <1>5 DEF DeviceSteps, RenderStart, RenderRead, RenderBump, RenderNotify, RenderShort,
    RenderUnderrun, DeviceGoes, Wakened
<1>6. CASE GuiCalls
  BY <1>6 DEF GuiCalls, PlayCall, PollCall, Pause, CancelDecode, GuiGoes, OtherThreads
<1>7. CASE GuiSteps
  BY <1>7 DEF GuiSteps, EndTest, WriteIndexLoad, ReadIndexLoad, PlayStore, InterruptBump,
    InterruptNotify, GuiGoes, NotFinished, OtherThreads, Wakened
<1>8. CASE UNCHANGED vars
  BY <1>8 DEF vars
<1> QED
  BY <1>1, <1>2, <1>3, <1>4, <1>5, <1>6, <1>7, <1>8 DEF Next, DecoderSteps

(* the flags, *)
LEMMA FlagsStep ==
  ASSUME Flags, [Next]_vars
  PROVE  Flags'
<1> USE DEF streamVars, ring, atomics, producerVars, deviceVars, guiVars, decoderVars, Flags
<1>1. CASE Enter
  BY <1>1, Zenon DEF Enter
<1>2. CASE Register
  BY <1>2, Zenon DEF Register, Goes
<1>3. CASE Io
  BY <1>3, Zenon DEF Io, Return, Cancelled
<1>4. CASE Configure
  BY <1>4, Zenon DEF Configure, Return
<1>5. CASE ReadPacket
  BY <1>5, Zenon DEF ReadPacket, Convert, Return, Cancelled
<1>6. CASE Flush
  BY <1>6, Zenon DEF Flush, Convert, Return
<1>7. CASE WriteDone \/ WriteCancelled \/ WriteNone
  BY <1>7, Zenon DEF WriteDone, WriteCancelled, WriteNone, Return
<1>8. CASE WriteCall
  BY <1>8, Zenon DEF WriteCall, WriteSome, ProducerGoes
<1>9. CASE WriteReturn
  BY <1>9, Zenon DEF WriteReturn
<1>10. CASE Finish
  BY <1>10, Zenon DEF Finish, Return
<1>11. CASE MarkEndOfStream \/ Leave
  BY <1>11, Zenon DEF MarkEndOfStream, Leave, Goes, Return
<1>12. CASE (WriteCount \/ WriteFlag) /\ UNCHANGED decoderVars
  BY <1>12, Zenon DEF WriteCount, WriteFlag, ProducerGoes
<1>13. CASE (WaitTest \/ WaitLoad \/ WaitStop \/ WaitRecheck \/ WaitSleep) /\ UNCHANGED decoderVars
  BY <1>13, Zenon DEF WaitTest, WaitLoad, WaitStop, WaitRecheck, WaitSleep, ProducerGoes
<1>14. CASE (RenderStart \/ RenderShort) /\ UNCHANGED decoderVars
  BY <1>14, Zenon DEF RenderStart, RenderShort, DeviceGoes
<1>15. CASE RenderRead /\ UNCHANGED decoderVars
  <2>1. renderedShort' \in BOOLEAN
    BY <1>15 DEF RenderRead
  <2> QED
    BY <1>15, <2>1, Zenon DEF RenderRead
<1>16. CASE (RenderBump \/ RenderUnderrun) /\ UNCHANGED decoderVars
  BY <1>16, Zenon DEF RenderBump, RenderUnderrun, DeviceGoes
<1>17. CASE RenderNotify /\ UNCHANGED decoderVars
  BY <1>17, Zenon DEF RenderNotify, Wakened
<1>18. CASE GuiCalls /\ UNCHANGED decoderVars
  BY <1>18, Zenon DEF GuiCalls, PlayCall, PollCall, Pause, CancelDecode, GuiGoes, OtherThreads
<1>19. CASE (EndTest \/ WriteIndexLoad \/ ReadIndexLoad) /\ UNCHANGED decoderVars
  BY <1>19, Zenon DEF EndTest, WriteIndexLoad, ReadIndexLoad, GuiGoes, NotFinished, OtherThreads
<1>20. CASE (PlayStore \/ InterruptBump \/ InterruptNotify) /\ UNCHANGED decoderVars
  BY <1>20, Zenon DEF PlayStore, InterruptBump, InterruptNotify, GuiGoes, Wakened, OtherThreads
<1>21. CASE UNCHANGED vars
  BY <1>21, Zenon DEF vars
<1> QED
  BY <1>1, <1>2, <1>3, <1>4, <1>5, <1>6, <1>7, <1>8, <1>9, <1>10, <1>11, <1>12, <1>13, <1>14,
    <1>15, <1>16, <1>17, <1>18, <1>19, <1>20, <1>21
    DEF Next, DecoderSteps, ProducerSteps, DeviceSteps, GuiSteps

(* and the two loose numbers. *)
LEMMA LooseStep ==
  ASSUME Numbers, Loose, [Next]_vars
  PROVE  Loose'
<1> USE DEF streamVars, ring, atomics, producerVars, deviceVars, guiVars, decoderVars,
            Loose, Numbers
<1>1. CASE Enter \/ Register \/ Io \/ Configure
  BY <1>1 DEF Enter, Register, Io, Configure, Goes, Return, Cancelled
<1>2. CASE ReadPacket \/ Flush
  BY <1>2 DEF ReadPacket, Flush, Convert, Return, Cancelled
<1>3. CASE WriteDone \/ WriteCancelled \/ WriteCall \/ WriteNone \/ WriteReturn
  BY <1>3 DEF WriteDone, WriteCancelled, WriteCall, WriteSome, WriteNone, WriteReturn, Return
<1>4. CASE Finish \/ MarkEndOfStream \/ Leave
  BY <1>4 DEF Finish, MarkEndOfStream, Leave, Goes, Return
<1>5. CASE ProducerSteps /\ UNCHANGED decoderVars
  BY <1>5 DEF ProducerSteps, WriteCount, WriteFlag, WaitTest, WaitLoad, WaitStop, WaitRecheck,
    WaitSleep
<1>6. CASE DeviceSteps /\ UNCHANGED decoderVars
  BY <1>6 DEF DeviceSteps, RenderStart, RenderRead, RenderBump, RenderNotify, RenderShort,
    RenderUnderrun
<1>7. CASE GuiCalls /\ UNCHANGED decoderVars
  BY <1>7 DEF GuiCalls, PlayCall, PollCall, Pause, CancelDecode, OtherThreads
<1>8. CASE GuiSteps /\ UNCHANGED decoderVars
  BY <1>8 DEF GuiSteps, EndTest, WriteIndexLoad, ReadIndexLoad, PlayStore, InterruptBump,
    InterruptNotify, OtherThreads
<1>9. CASE UNCHANGED vars
  BY <1>9 DEF vars
<1> QED
  BY <1>1, <1>2, <1>3, <1>4, <1>5, <1>6, <1>7, <1>8, <1>9 DEF Next, DecoderSteps

-----------------------------------------------------------------------------
(* How the decode ends. *)

Final == {"leave", "done"}

(* There is no outcome before the way out, the stream ends with a success and only with *)
(* one, and the player was told it may start by then.                              *)
Ends ==
  /\ phase \notin Final => result = "none" /\ ~endOfStream
  /\ endOfStream <=> result = "success"
  /\ phase = "mark end" \/ endOfStream => readyCalls = 1 /\ decodedFrameCount > 0
  /\ result = "cancelled" => stopRequested

(* A step that goes on decoding, and one that returns without success. *)
GoesOn ==
  /\ phase \notin Final /\ phase' \notin Final \cup {"mark end"}
  /\ UNCHANGED <<result, endOfStream, stopRequested>>

GivesUp ==
  /\ phase \notin Final /\ phase' \in Final
  /\ result' \in {"error", "cancelled"} /\ (result' = "cancelled" => stopRequested)
  /\ UNCHANGED <<endOfStream, stopRequested>>

KeepsEnd ==
  /\ UNCHANGED <<phase, result, endOfStream, decodedFrameCount, readyCalls>>
  /\ stopRequested => stopRequested'

(* These steps agree with how the decode ends. *)
LEMMA EndsLocally ==
  ASSUME Ends, GoesOn \/ GivesUp \/ KeepsEnd
  PROVE  Ends'
<1>1. CASE GoesOn
  BY <1>1, Zenon DEF GoesOn, Ends, Final
<1>2. CASE GivesUp
  BY <1>2 DEF GivesUp, Ends, Final
<1>3. CASE KeepsEnd
  BY <1>3 DEF KeepsEnd, Ends
<1> QED
  BY <1>1, <1>2, <1>3

(* Nobody but the decoder ends a decode; the player may only ask for a stop. *)
LEMMA OthersKeepEnd ==
  ASSUME \/ (ProducerSteps \/ DeviceSteps \/ GuiCalls \/ GuiSteps) /\ UNCHANGED decoderVars
         \/ WriteCall \/ WriteNone \/ UNCHANGED vars
  PROVE  KeepsEnd
<1> USE DEF KeepsEnd, decoderVars, atomics, guiVars, streamVars
<1>1. CASE ProducerSteps /\ UNCHANGED decoderVars
  BY <1>1 DEF ProducerSteps, WriteCount, WriteFlag, WaitTest, WaitLoad, WaitStop, WaitRecheck,
    WaitSleep
<1>2. CASE DeviceSteps /\ UNCHANGED decoderVars
  BY <1>2 DEF DeviceSteps, RenderStart, RenderRead, RenderBump, RenderNotify, RenderShort,
    RenderUnderrun
<1>3. CASE GuiCalls /\ UNCHANGED decoderVars
  <2>1. CASE PlayCall \/ PollCall \/ Pause
    <3>1. UNCHANGED <<endOfStream, stopRequested>>
      BY <2>1 DEF PlayCall, PollCall, Pause
    <3> QED
      BY <1>3, <3>1
  <2>2. CASE CancelDecode
    BY <1>3, <2>2, Zenon DEF CancelDecode
  <2> QED
    BY <1>3, <2>1, <2>2 DEF GuiCalls
<1>4. CASE GuiSteps /\ UNCHANGED decoderVars
  <2>1. CASE EndTest \/ WriteIndexLoad \/ ReadIndexLoad
    <3>1. UNCHANGED <<endOfStream, stopRequested>>
      BY <2>1 DEF EndTest, WriteIndexLoad, ReadIndexLoad
    <3> QED
      BY <1>4, <3>1
  <2>2. CASE PlayStore \/ InterruptBump \/ InterruptNotify
    <3>1. UNCHANGED <<endOfStream, stopRequested>>
      BY <2>2 DEF PlayStore, InterruptBump, InterruptNotify
    <3> QED
      BY <1>4, <3>1
  <2> QED
    BY <1>4, <2>1, <2>2 DEF GuiSteps
<1>5. CASE WriteCall \/ WriteNone
  BY <1>5 DEF WriteCall, WriteSome, WriteNone
<1>6. CASE UNCHANGED vars
  BY <1>6 DEF vars
<1> QED
  BY <1>1, <1>2, <1>3, <1>4, <1>5, <1>6

(* Every step agrees with how the decode ends. *)
LEMMA EndsStep ==
  ASSUME Numbers, Control, DecoderTags, Ends, [Next]_vars
  PROVE  Ends'
<1> USE DEF atomics, guiVars, streamVars
<1>1. CASE Enter \/ Register \/ Io \/ Configure
  <2>1. GoesOn \/ GivesUp
    BY <1>1 DEF Enter, Register, Io, Configure, Goes, Return, Cancelled, GoesOn, GivesUp, Final
  <2> QED
    BY <2>1, EndsLocally
<1>2. CASE ReadPacket \/ Flush
  <2>1. GoesOn \/ GivesUp
    BY <1>2 DEF ReadPacket, Flush, Convert, Return, Cancelled, GoesOn, GivesUp, Final
  <2> QED
    BY <2>1, EndsLocally
<1>3. CASE WriteDone
  <2>1. phase' = resume /\ phase = "write" /\ UNCHANGED <<result, endOfStream, stopRequested>>
    BY <1>3 DEF WriteDone
  <2>2. QED
    BY <2>1, EndsLocally DEF GoesOn, Final, DecoderTags
<1>4. CASE WriteCancelled
  BY <1>4, EndsLocally DEF WriteCancelled, Return, GivesUp, Final, Control
<1>5. CASE WriteReturn
  BY <1>5, EndsLocally DEF WriteReturn, GoesOn, Final
<1>6. CASE Finish
  <2>1. CASE decodedFrameCount = 0
    BY <1>6, <2>1, EndsLocally DEF Finish, Return, GivesUp, Final
  <2>2. CASE decodedFrameCount # 0
    <3>3. /\ decodedFrameCount' = decodedFrameCount
          /\ readyCalls' = IF readyCalls = 0 THEN 1 ELSE readyCalls
      BY <1>6, <2>2, Zenon DEF Finish
    <3>1. decodedFrameCount' > 0 /\ readyCalls' = 1
      BY <2>2, <3>3 DEF Numbers
    <3>2. /\ phase = "finish" /\ phase' = "mark end"
          /\ UNCHANGED <<result, endOfStream, stopRequested>>
      BY <1>6, <2>2 DEF Finish
    <3> QED
      BY <3>1, <3>2 DEF Ends, Final
  <2> QED
    BY <2>1, <2>2
<1>7. CASE MarkEndOfStream
  <2>1. phase = "mark end" /\ phase' = "leave" /\ result' = "success" /\ endOfStream' = TRUE
    BY <1>7 DEF MarkEndOfStream, Return
  <2>2. UNCHANGED <<readyCalls, decodedFrameCount>>
    BY <1>7 DEF MarkEndOfStream
  <2> QED
    BY <2>1, <2>2 DEF Ends, Final
<1>8. CASE Leave
  BY <1>8 DEF Leave, Goes, Ends, Final
<1>9. ASSUME \/ (ProducerSteps \/ DeviceSteps \/ GuiCalls \/ GuiSteps) /\ UNCHANGED decoderVars
             \/ WriteCall \/ WriteNone \/ UNCHANGED vars
      PROVE  Ends'
  BY <1>9, OthersKeepEnd, EndsLocally
<1> QED
  BY <1>1, <1>2, <1>3, <1>4, <1>5, <1>6, <1>7, <1>8, <1>9 DEF Next, DecoderSteps

-----------------------------------------------------------------------------
(* What isFinished() has told the player. *)

(* An end of stream that was seen fixes the write index, and an answer of "finished"    *)
(* stays true.                                                                     *)
Seen ==
  /\ gui \in {"write index", "read index"} => endOfStream
  /\ gui = "read index" => seenWriteFrame = accepted
  /\ sawFinished => endOfStream /\ delivered = accepted

(* Steps that neither read nor write what isFinished() reads. *)
Unseen ==
  /\ UNCHANGED <<accepted, delivered, seenWriteFrame, sawFinished>>
  /\ gui' = gui \/ gui' \notin {"write index", "read index"}
  /\ endOfStream' \in {endOfStream, TRUE}

(* They change nothing of what was seen. *)
LEMMA UnseenSteps ==
  ASSUME Seen, Unseen
  PROVE  Seen'
<1>1. endOfStream => endOfStream'
  BY DEF Unseen
<1>2. /\ UNCHANGED <<accepted, delivered, seenWriteFrame, sawFinished>>
      /\ gui' = gui \/ gui' \notin {"write index", "read index"}
  BY DEF Unseen
<1> QED
  BY <1>1, <1>2 DEF Seen

(* Every step keeps what the player was told true. *)
LEMMA SeenStep ==
  ASSUME Numbers, Ends, Seen, [Next]_vars
  PROVE  Seen'
<1> USE DEF streamVars, ring, atomics, producerVars, deviceVars, guiVars, decoderVars
<1>1. CASE Enter \/ Register \/ Io \/ Configure \/ ReadPacket \/ Flush
  <2>1. Unseen
    BY <1>1 DEF Enter, Register, Io, Configure, ReadPacket, Flush, Unseen
  <2> QED
    BY <2>1, UnseenSteps
<1>2. CASE WriteDone \/ WriteCancelled \/ WriteNone \/ WriteReturn \/ Finish
  <2>1. Unseen
    BY <1>2 DEF WriteDone, WriteCancelled, WriteNone, WriteReturn, Finish, Unseen
  <2> QED
    BY <2>1, UnseenSteps
<1>3. CASE MarkEndOfStream \/ Leave
  <2>1. Unseen
    BY <1>3 DEF MarkEndOfStream, Leave, Unseen
  <2> QED
    BY <2>1, UnseenSteps
<1>4. CASE WriteCall
  <2>1. ~endOfStream /\ endOfStream' = endOfStream /\ UNCHANGED <<gui, sawFinished>>
    BY <1>4 DEF WriteCall, WriteSome, Ends, Final
  <2> QED
    BY <2>1 DEF Seen
<1>5. CASE ProducerSteps /\ UNCHANGED decoderVars
  <2>1. Unseen
    BY <1>5 DEF ProducerSteps, WriteCount, WriteFlag, WaitTest, WaitLoad, WaitStop, WaitRecheck,
      WaitSleep, Unseen
  <2> QED
    BY <2>1, UnseenSteps
<1>6. CASE RenderStart \/ RenderBump \/ RenderNotify \/ RenderShort \/ RenderUnderrun
  <2>1. Unseen
    BY <1>6 DEF RenderStart, RenderBump, RenderNotify, RenderShort, RenderUnderrun, Unseen
  <2> QED
    BY <2>1, UnseenSteps
<1>7. CASE RenderRead
  <2>1. PICK n \in Int : /\ 0 <= n \/ n = Buffered
                         /\ n <= Buffered
                         /\ delivered' = delivered + n
    BY <1>7 DEF RenderRead, Buffered, Numbers, Ring!Take, Ring!Buffered
  <2>2. delivered = accepted => delivered' = delivered
    BY <2>1 DEF Buffered, Numbers
  <2>3. UNCHANGED <<accepted, seenWriteFrame, sawFinished, gui, endOfStream>>
    BY <1>7 DEF RenderRead, Ring!Take
  <2> QED
    BY <2>2, <2>3 DEF Seen
<1>8. CASE GuiCalls
  <2>1. Unseen
    BY <1>8 DEF GuiCalls, PlayCall, PollCall, Pause, CancelDecode, GuiGoes, OtherThreads, Unseen
  <2> QED
    BY <2>1, UnseenSteps
<1>9. CASE EndTest
  <2>1. UNCHANGED <<accepted, delivered, seenWriteFrame, sawFinished, endOfStream>>
    BY <1>9 DEF EndTest, OtherThreads
  <2>2. (gui' = "write index" /\ endOfStream) \/ gui' \notin {"write index", "read index"}
    BY <1>9 DEF EndTest, NotFinished
  <2> QED
    BY <2>1, <2>2 DEF Seen
<1>10. CASE WriteIndexLoad
  <2>1. /\ UNCHANGED <<accepted, delivered, sawFinished, endOfStream>>
        /\ gui = "write index" /\ seenWriteFrame' = accepted
    BY <1>10 DEF WriteIndexLoad, GuiGoes, OtherThreads
  <2> QED
    BY <2>1 DEF Seen
<1>11. CASE ReadIndexLoad
  <2>1. /\ UNCHANGED <<accepted, delivered, endOfStream>>
        /\ gui = "read index" /\ gui' \notin {"write index", "read index"}
        /\ sawFinished' => sawFinished \/ seenWriteFrame = delivered
    BY <1>11 DEF ReadIndexLoad, NotFinished, OtherThreads
  <2> QED
    BY <2>1 DEF Seen
<1>12. CASE PlayStore \/ InterruptBump \/ InterruptNotify
  <2>1. Unseen
    BY <1>12 DEF PlayStore, InterruptBump, InterruptNotify, GuiGoes, OtherThreads, Unseen
  <2> QED
    BY <2>1, UnseenSteps
<1>13. CASE UNCHANGED vars
  <2>1. Unseen
    BY <1>13 DEF vars, Unseen
  <2> QED
    BY <2>1, UnseenSteps
<1> QED
  BY <1>1, <1>2, <1>3, <1>4, <1>5, <1>6, <1>7, <1>8, <1>9, <1>10, <1>11, <1>12, <1>13
    DEF Next, DecoderSteps, DeviceSteps, GuiSteps

-----------------------------------------------------------------------------
(* The wake-ups of a decoder that waits for space. *)

Waiting == {"stop?", "recheck", "wait", "asleep"}

(* The generation loaded is one that was: a bump is always a change. *)
Loaded == producer \in Waiting => waitedGeneration <= spaceGeneration

(* After the tests that justify sleeping, a stop or some space has changed the generation,*)
(* or is about to.                                                                  *)
StopBumps ==
  stopRequested /\ producer \in {"recheck", "wait", "asleep"} =>
    \/ spaceGeneration # waitedGeneration
    \/ gui \in {"callback bump", "callback notify", "bump"}

SpaceBumps ==
  Writable > 0 /\ producer \in {"wait", "asleep"} =>
    spaceGeneration # waitedGeneration \/ device = "bump"

(* Whoever changed the generation notifies, unless it has. *)
BumpNotifies ==
  producer = "asleep" /\ spaceGeneration # waitedGeneration =>
    device = "notify" \/ gui \in {"callback notify", "notify"}

(* The ring was full, so the player was told. *)
ReadyFirst == producer \in {"wait", "asleep"} => readyCalls = 1 /\ hasAudio

Wakeups == Loaded /\ StopBumps /\ SpaceBumps /\ BumpNotifies /\ ReadyFirst

(* A decoder that does not wait needs no wake-up. *)
LEMMA AwakeNow ==
  ASSUME producer' \notin Waiting
  PROVE  Wakeups'
  BY DEF Wakeups, Loaded, StopBumps, SpaceBumps, BumpNotifies, ReadyFirst, Waiting

(* Steps that are none of its business. *)
Aside ==
  /\ UNCHANGED <<accepted, delivered, producer, waitedGeneration, spaceGeneration,
                 stopRequested, readyCalls, hasAudio>>
  /\ device' = device \/ device \notin {"bump", "notify"}
  /\ gui' = gui \/ gui \notin {"callback bump", "callback notify", "bump", "notify"}

(* They change nothing for the decoder that waits. *)
LEMMA AsideSteps ==
  ASSUME Wakeups, Aside
  PROVE  Wakeups'
<1>1. Writable' = Writable
  BY DEF Aside, Writable, Buffered
<1>2. Loaded' /\ ReadyFirst'
  BY DEF Wakeups, Aside, Loaded, ReadyFirst
<1>3. StopBumps'
  BY DEF Wakeups, Aside, StopBumps
<1>4. SpaceBumps'
  BY <1>1 DEF Wakeups, Aside, SpaceBumps
<1>5. BumpNotifies'
  BY DEF Wakeups, Aside, BumpNotifies
<1> QED
  BY <1>2, <1>3, <1>4, <1>5 DEF Wakeups

(* The decoder's own steps. *)
LEMMA DecoderWakeups ==
  ASSUME Numbers, Control, Accounts, Wakeups, DecoderSteps
  PROVE  Wakeups'
<1> USE DEF streamVars, ring, atomics, producerVars, deviceVars, guiVars, decoderVars
<1>1. CASE Enter \/ Register \/ Io \/ Configure \/ ReadPacket \/ Flush
  <2>1. producer' = producer /\ phase # "write"
    BY <1>1 DEF Enter, Register, Io, Configure, ReadPacket, Flush, Goes
  <2> QED
    BY <2>1, AwakeNow DEF Control, Waiting
<1>2. CASE WriteDone \/ WriteCancelled \/ WriteNone \/ WriteReturn \/ WriteCall
  <2>1. producer' \in {"decoding", "test", "count"}
    BY <1>2 DEF WriteDone, WriteCancelled, WriteNone, WriteReturn, WriteCall, WriteSome,
      ProducerGoes,
      Decoding
  <2> QED
    BY <2>1, AwakeNow DEF Waiting
<1>3. CASE Finish \/ MarkEndOfStream \/ Leave
  <2>1. producer' = producer /\ phase # "write"
    BY <1>3 DEF Finish, MarkEndOfStream, Leave, Goes
  <2> QED
    BY <2>1, AwakeNow DEF Control, Waiting
<1>4. CASE WriteCount \/ WriteFlag \/ WaitTest
  <2>1. producer' \in {"flag", "wrote", "load", "stopped", "decoding"}
    BY <1>4 DEF WriteCount, WriteFlag, WaitTest, ProducerGoes
  <2> QED
    BY <2>1, AwakeNow DEF Waiting
<1>5. CASE WaitLoad
  <2>1. /\ producer' = "stop?"
        /\ waitedGeneration' = spaceGeneration /\ spaceGeneration' = spaceGeneration
    BY <1>5 DEF WaitLoad, ProducerGoes
  <2>2. Loaded'
    BY <2>1 DEF Loaded, Numbers
  <2> QED
    BY <2>1, <2>2 DEF Wakeups, StopBumps, SpaceBumps, BumpNotifies, ReadyFirst
<1>6. CASE WaitStop
  <2>1. producer = "stop?" /\ UNCHANGED <<spaceGeneration, waitedGeneration, stopRequested>>
    BY <1>6 DEF WaitStop
  <2>2. CASE stopRequested
    BY <1>6, <2>2, AwakeNow DEF WaitStop, Waiting
  <2>3. CASE ~stopRequested
    <3>1. producer' = "recheck"
      BY <1>6, <2>3 DEF WaitStop
    <3> QED
      BY <2>1, <2>3, <3>1 DEF Wakeups, Loaded, StopBumps, SpaceBumps, BumpNotifies, ReadyFirst,
        Waiting
  <2> QED
    BY <2>1, <2>2, <2>3
<1>7. CASE WaitRecheck /\ UNCHANGED decoderVars
  <2>1. CASE Writable > 0
    BY <1>7, <2>1, AwakeNow DEF WaitRecheck, Waiting
  <2>2. CASE ~(Writable > 0)
    <3>1. /\ producer = "recheck" /\ producer' = "wait"
          /\ UNCHANGED <<accepted, delivered, spaceGeneration, waitedGeneration, stopRequested, gui,
                         readyCalls, hasAudio>>
      BY <1>7, <2>2 DEF WaitRecheck
    <3>2. Writable' = Writable
      BY <3>1 DEF Writable, Buffered
    <3>3. Buffered >= PrebufferTarget /\ accepted > 0
      BY <2>2, TargetFits DEF Writable, Buffered, Numbers
    <3>4. readyCalls = 1
      <4>1. producer \notin Writing /\ Buffered \in Int
        BY <3>1 DEF Writing, Buffered, Numbers
      <4>2. readyCalls # 0
        BY <3>3, <4>1, TargetFits DEF Accounts
      <4> QED
        BY <4>2 DEF Numbers
    <3>5. decodedFrameCount > 0
      <4>1. accepted = decodedFrameCount
        BY <3>1 DEF Accounts, Writing, Numbers
      <4> QED
        BY <3>3, <4>1
    <3>6. ReadyFirst'
      BY <3>1, <3>4, <3>5 DEF ReadyFirst, Accounts
    <3>7. SpaceBumps'
      BY <2>2, <3>2 DEF SpaceBumps
    <3> QED
      BY <3>1, <3>6, <3>7 DEF Wakeups, Loaded, StopBumps, BumpNotifies, Waiting
  <2> QED
    BY <2>1, <2>2
<1>8. CASE WaitSleep /\ UNCHANGED decoderVars
  <2>1. CASE spaceGeneration = waitedGeneration
    <3>1. /\ producer = "wait" /\ producer' = "asleep"
          /\ UNCHANGED <<accepted, delivered, spaceGeneration, waitedGeneration, stopRequested, gui,
                         device, readyCalls, hasAudio>>
      BY <1>8, <2>1 DEF WaitSleep
    <3>2. Writable' = Writable
      BY <3>1 DEF Writable, Buffered
    <3>3. SpaceBumps'
      BY <3>1, <3>2 DEF Wakeups, SpaceBumps
    <3> QED
      BY <2>1, <3>1, <3>3 DEF Wakeups, Loaded, StopBumps, BumpNotifies, ReadyFirst, Waiting
  <2>2. CASE spaceGeneration # waitedGeneration
    BY <1>8, <2>2, AwakeNow DEF WaitSleep, Waiting
  <2> QED
    BY <2>1, <2>2
<1> QED
  BY <1>1, <1>2, <1>3, <1>4, <1>5, <1>6, <1>7, <1>8 DEF DecoderSteps, ProducerSteps

(* A bump is a change for whoever loaded the generation, and its notification follows. *)
Bumping ==
  /\ spaceGeneration' = spaceGeneration + 1
  /\ UNCHANGED <<producer, waitedGeneration, readyCalls, hasAudio>>
  /\ device' = "notify" \/ gui' \in {"callback notify", "notify"}

(* It wakes whoever sleeps, or keeps it from sleeping. *)
LEMMA BumpSteps ==
  ASSUME Numbers, Wakeups, Bumping
  PROVE  Wakeups'
<1>1. /\ spaceGeneration' = spaceGeneration + 1
      /\ UNCHANGED <<producer, waitedGeneration>>
  BY DEF Bumping
<1>2. spaceGeneration \in Nat /\ waitedGeneration \in Nat
  BY DEF Numbers
<1>3. producer' \in Waiting => waitedGeneration' < spaceGeneration'
  BY <1>1, <1>2 DEF Wakeups, Loaded
<1>4. spaceGeneration' \in Nat /\ waitedGeneration' \in Nat
  BY <1>1, <1>2
<1>5. Loaded' /\ (producer' \in Waiting => spaceGeneration' # waitedGeneration')
  BY <1>3, <1>4 DEF Loaded
<1>6. StopBumps' /\ SpaceBumps'
  BY <1>5 DEF StopBumps, SpaceBumps, Waiting
<1>7. BumpNotifies'
  BY DEF Bumping, BumpNotifies
<1>8. ReadyFirst'
  BY DEF Bumping, Wakeups, ReadyFirst
<1> QED
  BY <1>5, <1>6, <1>7, <1>8 DEF Wakeups

(* A notification has its sleeper compare again. *)
Notifying ==
  /\ producer' = Wakened
  /\ UNCHANGED <<accepted, delivered, waitedGeneration, spaceGeneration, stopRequested,
                 readyCalls, hasAudio>>
  /\ device' = device \/ device # "bump"
  /\ gui' = gui \/ (gui = "callback notify" /\ gui' = "bump") \/ gui = "notify"

(* Nobody sleeps then. *)
LEMMA NotifySteps ==
  ASSUME Wakeups, Notifying
  PROVE  Wakeups'
<1>1. Writable' = Writable
  BY DEF Notifying, Writable, Buffered
<1>2. producer' # "asleep" /\ (producer' = producer \/ (producer = "asleep" /\ producer' = "wait"))
  <2>1. producer' = Wakened
    BY DEF Notifying
  <2>2. CASE producer = "asleep"
    BY <2>1, <2>2 DEF Wakened
  <2>3. CASE producer # "asleep"
    BY <2>1, <2>3 DEF Wakened
  <2> QED
    BY <2>2, <2>3
<1>3. Loaded' /\ ReadyFirst'
  BY <1>2 DEF Notifying, Wakeups, Loaded, ReadyFirst, Waiting
<1>4. UNCHANGED <<waitedGeneration, spaceGeneration, stopRequested>>
  BY DEF Notifying
<1>5. gui' = gui \/ (gui = "callback notify" /\ gui' = "bump") \/ gui = "notify"
  BY DEF Notifying
<1>6. StopBumps'
  BY <1>2, <1>4, <1>5 DEF Wakeups, StopBumps
<1>7. SpaceBumps'
  BY <1>1, <1>2 DEF Notifying, Wakeups, SpaceBumps
<1>8. BumpNotifies'
  BY <1>2 DEF BumpNotifies
<1> QED
  BY <1>3, <1>6, <1>7, <1>8 DEF Wakeups

(* The device's and the player's steps. *)
LEMMA OtherWakeups ==
  ASSUME Numbers, Wakeups,
         \/ (DeviceSteps \/ GuiCalls \/ GuiSteps) /\ UNCHANGED decoderVars
         \/ UNCHANGED vars
  PROVE  Wakeups'
<1> USE DEF streamVars, ring, atomics, producerVars, deviceVars, guiVars, decoderVars
<1>1. CASE (RenderStart \/ RenderShort \/ RenderUnderrun) /\ UNCHANGED decoderVars
  <2>1. Aside
    BY <1>1 DEF RenderStart, RenderShort, RenderUnderrun, DeviceGoes, Aside
  <2> QED
    BY <2>1, AsideSteps
<1>2. CASE RenderRead /\ UNCHANGED decoderVars
  <2>1. PICK n \in Int : /\ n <= Buffered /\ delivered' = delivered + n
                         /\ device' = IF n > 0 THEN "bump" ELSE "short"
                         /\ n >= 0 \/ n = Buffered
    BY <1>2 DEF RenderRead, Buffered, Numbers, Ring!Take, Ring!Buffered
  <2>2. /\ UNCHANGED <<accepted, producer, waitedGeneration, spaceGeneration, stopRequested,
                       readyCalls, hasAudio, gui>>
        /\ device = "read"
    BY <1>2 DEF RenderRead, Ring!Take
  <2>3. SpaceBumps'
    <3>1. CASE n > 0
      BY <2>1, <3>1 DEF SpaceBumps
    <3>2. CASE ~(n > 0)
      <4>1. Writable' > 0 => Writable > 0
        BY <2>1, <2>2, <3>2 DEF Writable, Buffered, Numbers
      <4> QED
        BY <2>2, <4>1 DEF Wakeups, SpaceBumps
    <3> QED
      BY <3>1, <3>2
  <2>4. Loaded' /\ StopBumps' /\ ReadyFirst'
    BY <2>2 DEF Wakeups, Loaded, StopBumps, ReadyFirst
  <2>5. BumpNotifies'
    BY <2>2 DEF Wakeups, BumpNotifies
  <2> QED
    BY <2>3, <2>4, <2>5 DEF Wakeups
<1>3. CASE RenderBump /\ UNCHANGED decoderVars
  <2>1. /\ spaceGeneration' = spaceGeneration + 1 /\ device' = "notify"
        /\ UNCHANGED <<producer, waitedGeneration, readyCalls, hasAudio>>
    BY <1>3 DEF RenderBump, DeviceGoes
  <2> QED
    BY <2>1, BumpSteps DEF Bumping
<1>4. CASE RenderNotify /\ UNCHANGED decoderVars
  <2>1. /\ producer' = Wakened
        /\ UNCHANGED <<accepted, delivered, waitedGeneration, spaceGeneration, stopRequested,
                       readyCalls, hasAudio>>
        /\ gui' = gui
    BY <1>4 DEF RenderNotify
  <2>3. device # "bump"
    BY <1>4 DEF RenderNotify
  <2>2. Notifying
    BY <2>1, <2>3 DEF Notifying
  <2> QED
    BY <2>2, NotifySteps
<1>5. CASE (PlayCall \/ PollCall \/ Pause) /\ UNCHANGED decoderVars
  <2>1. Aside
    BY <1>5 DEF PlayCall, PollCall, Pause, GuiGoes, OtherThreads, Aside
  <2> QED
    BY <2>1, AsideSteps
<1>6. CASE CancelDecode /\ UNCHANGED decoderVars
  <2>1. /\ UNCHANGED <<accepted, delivered, producer, waitedGeneration, spaceGeneration, readyCalls,
                       hasAudio, device>>
        /\ gui = "idle" /\ gui' \in {"callback bump", "bump"}
    BY <1>6 DEF CancelDecode, OtherThreads
  <2>2. Writable' = Writable
    BY <2>1 DEF Writable, Buffered
  <2>3. Loaded' /\ ReadyFirst'
    BY <2>1 DEF Wakeups, Loaded, ReadyFirst
  <2>4. StopBumps'
    BY <2>1 DEF StopBumps
  <2>5. SpaceBumps'
    BY <2>1, <2>2 DEF Wakeups, SpaceBumps
  <2>6. BumpNotifies'
    BY <2>1 DEF Wakeups, BumpNotifies
  <2> QED
    BY <2>3, <2>4, <2>5, <2>6 DEF Wakeups
<1>7. CASE (EndTest \/ WriteIndexLoad \/ ReadIndexLoad \/ PlayStore) /\ UNCHANGED decoderVars
  <2>1. Aside
    BY <1>7 DEF EndTest, WriteIndexLoad, ReadIndexLoad, PlayStore, GuiGoes, OtherThreads, Aside
  <2> QED
    BY <2>1, AsideSteps
<1>8. CASE InterruptBump /\ UNCHANGED decoderVars
  <2>1. spaceGeneration' = spaceGeneration + 1 /\ gui' \in {"callback notify", "notify"}
    BY <1>8, Zenon DEF InterruptBump, GuiGoes
  <2>2. UNCHANGED <<producer, waitedGeneration, readyCalls, hasAudio>>
    BY <1>8, Zenon DEF InterruptBump, OtherThreads
  <2> QED
    BY <2>1, <2>2, BumpSteps DEF Bumping
<1>9. CASE InterruptNotify /\ UNCHANGED decoderVars
  <2>1. /\ producer' = Wakened
        /\ UNCHANGED <<accepted, delivered, waitedGeneration, spaceGeneration, stopRequested,
                       readyCalls, hasAudio, device>>
    BY <1>9 DEF InterruptNotify
  <2>2. (gui = "callback notify" /\ gui' = "bump") \/ gui = "notify"
    BY <1>9 DEF InterruptNotify, GuiGoes
  <2> QED
    BY <2>1, <2>2, NotifySteps DEF Notifying
<1>10. CASE UNCHANGED vars
  <2>1. Aside
    BY <1>10 DEF vars, Aside
  <2> QED
    BY <2>1, AsideSteps
<1> QED
  BY <1>1, <1>2, <1>3, <1>4, <1>5, <1>6, <1>7, <1>8, <1>9, <1>10 DEF DeviceSteps, GuiCalls,
    GuiSteps

-----------------------------------------------------------------------------
(* The inductive invariant. *)

DecodeInv ==
  /\ Numbers /\ Tags /\ Flags /\ Loose
  /\ Control /\ Accounts /\ Ends /\ Seen /\ Wakeups

(* The invariant holds when streamInput() is entered, ... *)
LEMMA InitInv ==
  ASSUME Init
  PROVE  DecodeInv
<1>1. accepted = 0 /\ delivered = 0
  BY DEF Init, StreamInit, Ring!FifoInit
<1>2. Tags /\ Loose
  BY DEF Init, StreamInit, Tags, DecoderTags, ProducerTags, DeviceTags, GuiTags, Phases, Loose
<1>3. Flags
  BY DEF Init, StreamInit, Flags
<1>4. Ends
  BY DEF Init, StreamInit, Ends, Final
<1>5. Seen
  BY DEF Init, StreamInit, Seen
<1>6. Wakeups
  BY DEF Init, StreamInit, Wakeups, Loaded, StopBumps, SpaceBumps, BumpNotifies, ReadyFirst,
    Waiting
<1> QED
  BY <1>2, <1>3, <1>4, <1>5, <1>6, InitAccounts DEF DecodeInv

(* ... every step keeps it, ... *)
LEMMA InvStep ==
  ASSUME DecodeInv, [Next]_vars
  PROVE  DecodeInv'
<1>1. Numbers' /\ Control' /\ Accounts'
  BY AccountsStep DEF DecodeInv
<1>2. Tags' /\ Flags' /\ Loose'
  BY DecoderTagsStep, ProducerTagsStep, DeviceTagsStep, GuiTagsStep, FlagsStep, LooseStep
    DEF DecodeInv, Tags
<1>3. Ends' /\ Seen'
  BY EndsStep, SeenStep DEF DecodeInv, Tags
<1>4. Wakeups'
  BY DecoderWakeups, OtherWakeups DEF DecodeInv, Next
<1> QED
  BY <1>1, <1>2, <1>3, <1>4 DEF DecodeInv

(* ... so it always holds. *)
LEMMA DecodeInvAlways == Spec => []DecodeInv
  BY InitInv, InvStep, PTL DEF Spec

(* Every variable has its type: the counters are naturals, the player is told once. *)
THEOREM DecoderTyped == Spec => []TypeOK
<1>1. DecodeInv => TypeOK
  BY PartsAreTypes DEF DecodeInv
<1> QED
  BY <1>1, DecodeInvAlways, PTL

(* A decoder asleep in waitForWritableFrames() although there is space, or although it    *)
(* was asked to stop, has a notification coming (PcmStream.cpp:22-41, 53-57): with any    *)
(* ring, any packet and any prebuffer, in any interleaving of the three threads.        *)
THEOREM NoWakeupIsLost == Spec => []NoLostWakeup
<1>1. DecodeInv => NoLostWakeup
  BY DEF DecodeInv, Wakeups, StopBumps, SpaceBumps, BumpNotifies, NoLostWakeup
<1> QED
  BY <1>1, DecodeInvAlways, PTL

(* A stream ends exactly when its decode succeeds, with every frame written and counted;  *)
(* once the player has seen it finished all of it has been heard; and a decoder that      *)
(* waits has told the player to start (FFmpegDecoder.cpp:439-469, 671-702).             *)
THEOREM OutcomeIsTheStreams == Spec => []OutcomeMatchesStream
<1>1. ASSUME DecodeInv
      PROVE  OutcomeMatchesStream
  <2>1. endOfStream => phase \in Final /\ readyCalls = 1 /\ decodedFrameCount > 0
    BY <1>1 DEF DecodeInv, Ends
  <2>2. endOfStream => producer = "decoding"
    BY <1>1, <2>1 DEF DecodeInv, Control, Final
  <2>3. endOfStream => accepted = decodedFrameCount /\ producedFrames = decodedFrameCount
    BY <1>1, <2>2 DEF DecodeInv, Accounts, Numbers, Writing
  <2>4. FinishedIsFinal
    BY <1>1, <2>1, <2>3 DEF DecodeInv, Seen, FinishedIsFinal, Final
  <2>5. ReadyBeforeWaiting
    BY <1>1, <2>1 DEF DecodeInv, Wakeups, ReadyFirst, Accounts, ReadyBeforeWaiting
  <2>6. (endOfStream <=> result = "success") /\ (result = "cancelled" => stopRequested)
    BY <1>1 DEF DecodeInv, Ends
  <2> QED
    BY <2>1, <2>3, <2>4, <2>5, <2>6 DEF OutcomeMatchesStream
<1> QED
  BY <1>1, DecodeInvAlways, PTL
=============================================================================
