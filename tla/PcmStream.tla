----------------------------- MODULE PcmStream -----------------------------
(***************************************************************************)
(* One decoded audio stream (src/audio/PcmStream) and the three threads     *)
(* that share it: the decoder thread produces, the audio device renders,    *)
(* the GUI thread plays, pauses, polls and cancels.  Each atomic access is   *)
(* a step; the ring underneath is the FIFO of PcmFifo that SpscRing         *)
(* implements, so write() and read() take effect in one step.  What the     *)
(* device hears of a read is PcmFifo's business and left out here.          *)
(*                                                                         *)
(* This module holds the stream's state and operations; what the decoder     *)
(* thread does between its calls is StreamDecoder.                          *)
(***************************************************************************)
EXTENDS Integers

CONSTANTS Capacity,     \* m_ringBuffer.capacityFrames()
          MaxOffer,     \* bound: frames offered to one write()
          MaxRequest,   \* bound: frames requested by one render()
          MaxFrames,    \* bound: frames ever produced
          MaxUnderruns  \* bound: where the underrun counter saturates

(* The ring's constructor refuses a capacity of zero. *)
ASSUME CapacityAssumption == Capacity \in Nat \ {0}
ASSUME BoundsAssumption ==
  MaxOffer \in Nat /\ MaxRequest \in Nat /\ MaxFrames \in Nat /\ MaxUnderruns \in Nat

VARIABLES
  accepted, delivered,  \* frames written to and read from m_ringBuffer
  producedFrames,   \* m_producedFrames
  hasAudio,         \* m_hasAudio
  playing,          \* m_playing
  endOfStream,      \* m_endOfStream
  spaceGeneration,  \* m_spaceGeneration, bumped whenever space may have appeared
  underrunCount,    \* m_underrunCount
  producer,         \* where the decoder thread is inside the stream's operations
  writtenFrames,    \* frames accepted by the write() in progress
  waitedGeneration, \* generation loaded by waitForWritableFrames()
  device,           \* where the device thread is inside render()
  renderedShort,    \* render() got fewer frames than requested
  gui,              \* where the GUI thread is
  guiCall,          \* whether isFinished() is called by play() or by the poll
  seenWriteFrame,   \* its load of the ring's write index in isFinished()
  sawFinished,      \* isFinished() has returned true to the GUI (history)
  stopRequested,    \* the decoder's stop_source has been triggered
  stopWakeup        \* streamInput()'s stop_callback is registered

ring == <<accepted, delivered>>
atomics == <<producedFrames, hasAudio, playing, endOfStream, spaceGeneration,
             underrunCount>>
producerVars == <<producer, writtenFrames, waitedGeneration>>
deviceVars == <<device, renderedShort>>
guiVars == <<gui, guiCall, seenWriteFrame, sawFinished, stopRequested>>
streamVars == <<ring, atomics, producerVars, deviceVars, guiVars, stopWakeup>>

Ring == INSTANCE PcmFifo WITH heard <- <<>>
Buffered == accepted - delivered

StreamInit ==
  /\ Ring!FifoInit
  /\ producedFrames = 0
  /\ hasAudio = FALSE
  /\ playing = FALSE
  /\ endOfStream = FALSE
  /\ spaceGeneration = 0
  /\ underrunCount = 0
  /\ producer = "decoding" /\ writtenFrames = 0 /\ waitedGeneration = 0
  /\ device = "idle" /\ renderedShort = FALSE
  /\ gui = "idle" /\ guiCall = "poll" /\ seenWriteFrame = 0
  /\ sawFinished = FALSE
  /\ stopRequested = FALSE
  /\ stopWakeup = FALSE

(* writableFrames() as the producer sees it: its own index is exact. *)
Writable == Capacity - Buffered

-----------------------------------------------------------------------------
(* The decoder thread. *)

ProducerGoes(from, to) == producer = from /\ producer' = to

(* write() of `offered' frames: the ring accepts what fits ... *)
WriteSome(offered) ==
  /\ ProducerGoes("decoding", "count")
  /\ offered > 0 /\ Writable > 0
  /\ LET n == IF offered <= Writable THEN offered ELSE Writable
     IN  Ring!Accept(n) /\ writtenFrames' = n
  /\ UNCHANGED <<atomics, waitedGeneration, deviceVars, guiVars, stopWakeup>>

(* ... and the frames are accounted for; write() then returns to decoding. *)
WriteCount ==
  /\ ProducerGoes("count", "flag")
  /\ producedFrames' = producedFrames + writtenFrames
  /\ UNCHANGED <<ring, hasAudio, playing, endOfStream, spaceGeneration,
                 underrunCount, writtenFrames, waitedGeneration, deviceVars, guiVars,
                 stopWakeup>>

WriteFlag ==
  /\ ProducerGoes("flag", "wrote")
  /\ hasAudio' = TRUE
  /\ UNCHANGED <<ring, producedFrames, playing, endOfStream, spaceGeneration,
                 underrunCount, writtenFrames, waitedGeneration, deviceVars, guiVars,
                 stopWakeup>>

(* waitForWritableFrames(): the loop's condition, ... *)
WaitTest ==
  /\ producer = "test"
  /\ producer' = IF Writable = 0 THEN "load"
                 ELSE IF stopRequested THEN "stopped" ELSE "decoding"
  /\ UNCHANGED <<ring, atomics, writtenFrames, waitedGeneration, deviceVars,
                 guiVars, stopWakeup>>

(* ... the generation, loaded before the tests that justify sleeping, ... *)
WaitLoad ==
  /\ ProducerGoes("load", "stop?")
  /\ waitedGeneration' = spaceGeneration
  /\ UNCHANGED <<ring, atomics, writtenFrames, deviceVars, guiVars, stopWakeup>>

\* mutant of WaitStop: the loop does not look at the stop token.
WaitStopUnseen ==
  /\ ProducerGoes("stop?", "recheck")
  /\ UNCHANGED <<ring, atomics, writtenFrames, waitedGeneration, deviceVars,
                 guiVars, stopWakeup>>

WaitStop ==
  /\ producer = "stop?"
  /\ producer' = IF stopRequested THEN "stopped" ELSE "recheck"
  /\ UNCHANGED <<ring, atomics, writtenFrames, waitedGeneration, deviceVars,
                 guiVars, stopWakeup>>

WaitRecheck ==
  /\ producer = "recheck"
  /\ producer' = IF Writable > 0 THEN "decoding" ELSE "wait"
  /\ UNCHANGED <<ring, atomics, writtenFrames, waitedGeneration, deviceVars,
                 guiVars, stopWakeup>>

\* mutant of WaitSleep: a wait that does not compare the generation.
WaitSleepAlways ==
  /\ producer = "wait"
  /\ producer' = "asleep"
  /\ UNCHANGED <<ring, atomics, writtenFrames, waitedGeneration, deviceVars,
                 guiVars, stopWakeup>>

(* ... and atomic::wait, which sleeps only while the value is unchanged.    *)
WaitSleep ==
  /\ producer = "wait"
  /\ producer' = IF spaceGeneration = waitedGeneration THEN "asleep" ELSE "test"
  /\ UNCHANGED <<ring, atomics, writtenFrames, waitedGeneration, deviceVars,
                 guiVars, stopWakeup>>

(* notify_one() and notify_all(): a sleeper compares again. *)
Wakened == IF producer = "asleep" THEN "wait" ELSE producer

-----------------------------------------------------------------------------
(* The device thread: render(). *)

DeviceGoes(from, to) == device = from /\ device' = to

(* A paused stream renders silence, which changes nothing.                  *)
RenderStart ==
  /\ DeviceGoes("idle", "read")
  /\ playing
  /\ UNCHANGED <<ring, atomics, producerVars, renderedShort, guiVars,
                 stopWakeup>>

RenderRead ==
  /\ device = "read"
  /\ \E requested \in 1 .. MaxRequest :
       LET n == IF requested <= Buffered THEN requested ELSE Buffered
       IN  /\ Ring!Take(n)
           /\ renderedShort' = (n < requested)
           /\ device' = IF n > 0 THEN "bump" ELSE "short"
  /\ UNCHANGED <<atomics, producerVars, guiVars, stopWakeup>>

RenderBump ==
  /\ DeviceGoes("bump", "notify")
  /\ spaceGeneration' = spaceGeneration + 1
  /\ UNCHANGED <<ring, producedFrames, hasAudio, playing, endOfStream,
                 underrunCount, producerVars, renderedShort, guiVars, stopWakeup>>

\* mutant of RenderNotify: render() bumps the generation and notifies nobody.
RenderNotifyNobody ==
  /\ device = "notify"
  /\ device' = IF renderedShort THEN "short" ELSE "idle"
  /\ UNCHANGED <<ring, atomics, producer, writtenFrames, waitedGeneration,
                 renderedShort, guiVars, stopWakeup>>

RenderNotify ==
  /\ device = "notify"
  /\ device' = IF renderedShort THEN "short" ELSE "idle"
  /\ producer' = Wakened
  /\ UNCHANGED <<ring, atomics, writtenFrames, waitedGeneration,
                 renderedShort, guiVars, stopWakeup>>

(* An underrun is a short render before the end of the stream. *)
RenderShort ==
  /\ device = "short"
  /\ device' = IF endOfStream THEN "idle" ELSE "underrun"
  /\ UNCHANGED <<ring, atomics, producerVars, renderedShort, guiVars,
                 stopWakeup>>

RenderUnderrun ==
  /\ DeviceGoes("underrun", "idle")
  /\ underrunCount' = IF underrunCount < MaxUnderruns THEN underrunCount + 1
                                                       ELSE underrunCount
  /\ UNCHANGED <<ring, producedFrames, hasAudio, playing, endOfStream,
                 spaceGeneration, producerVars, renderedShort, guiVars, stopWakeup>>

-----------------------------------------------------------------------------
(* The GUI thread: play(), pause(), the position timer's isFinished() and    *)
(* cancelDecode().  The device is taken to run all the time: MiniaudioOutput *)
(* stops it around pause() and clear(), which only takes interleavings away.  *)

GuiGoes(from, to) == gui = from /\ gui' = to

OtherThreads == UNCHANGED <<ring, producerVars, deviceVars, stopWakeup>>

(* play() goes on only when the stream has audio ... *)
PlayCall ==
  /\ GuiGoes("idle", "end?")
  /\ hasAudio
  /\ guiCall' = "play"
  /\ OtherThreads /\ UNCHANGED <<atomics, seenWriteFrame, sawFinished,
                                 stopRequested>>

PollCall ==
  /\ GuiGoes("idle", "end?")
  /\ guiCall' = "poll"
  /\ OtherThreads /\ UNCHANGED <<atomics, seenWriteFrame, sawFinished,
                                 stopRequested>>

(* ... and isFinished() is false: the end of stream is read before the two  *)
(* ring indices, so an end that is seen fixes the write index read next.    *)
NotFinished == IF guiCall = "play" THEN "start" ELSE "idle"

EndTest ==
  /\ gui = "end?"
  /\ gui' = IF endOfStream THEN "write index" ELSE NotFinished
  /\ OtherThreads
  /\ UNCHANGED <<atomics, guiCall, seenWriteFrame, sawFinished, stopRequested>>

WriteIndexLoad ==
  /\ GuiGoes("write index", "read index")
  /\ seenWriteFrame' = accepted
  /\ OtherThreads /\ UNCHANGED <<atomics, guiCall, sawFinished, stopRequested>>

ReadIndexLoad ==
  /\ gui = "read index"
  /\ IF seenWriteFrame = delivered
     THEN gui' = "idle" /\ sawFinished' = TRUE
     ELSE gui' = NotFinished /\ UNCHANGED sawFinished
  /\ OtherThreads /\ UNCHANGED <<atomics, guiCall, seenWriteFrame, stopRequested>>

PlayStore ==
  /\ GuiGoes("start", "idle")
  /\ playing' = TRUE
  /\ OtherThreads
  /\ UNCHANGED <<producedFrames, hasAudio, endOfStream, spaceGeneration,
                 underrunCount,
                 guiCall, seenWriteFrame, sawFinished, stopRequested>>

Pause ==
  /\ gui = "idle"
  /\ playing' = FALSE
  /\ OtherThreads
  /\ UNCHANGED <<producedFrames, hasAudio, endOfStream, spaceGeneration, underrunCount,
                 guiVars>>

(* cancelDecode(): request_stop() sets the flag and runs the stop_callback,  *)
(* if the decoder has registered it, then the GUI thread interrupts the wait  *)
(* itself: each is one interruptProducerWait().                             *)
CancelDecode ==
  /\ gui = "idle"
  /\ ~stopRequested
  /\ stopRequested' = TRUE
  /\ gui' = IF stopWakeup THEN "callback bump" ELSE "bump"
  /\ OtherThreads /\ UNCHANGED <<atomics, guiCall, seenWriteFrame, sawFinished>>

InterruptBump ==
  /\ GuiGoes("callback bump", "callback notify") \/ GuiGoes("bump", "notify")
  /\ spaceGeneration' = spaceGeneration + 1
  /\ OtherThreads
  /\ UNCHANGED <<producedFrames, hasAudio, playing, endOfStream, underrunCount,
                 guiCall, seenWriteFrame, sawFinished, stopRequested>>

InterruptNotify ==
  /\ GuiGoes("callback notify", "bump") \/ GuiGoes("notify", "idle")
  /\ producer' = Wakened
  /\ UNCHANGED <<ring, atomics, writtenFrames, waitedGeneration, deviceVars,
                 guiCall, seenWriteFrame, sawFinished, stopRequested, stopWakeup>>

-----------------------------------------------------------------------------
ProducerSteps ==
  \/ WriteCount \/ WriteFlag
  \/ WaitTest \/ WaitLoad \/ WaitStop \/ WaitRecheck \/ WaitSleep

DeviceSteps ==
  \/ RenderStart \/ RenderRead \/ RenderBump \/ RenderNotify
  \/ RenderShort \/ RenderUnderrun

GuiSteps ==
  EndTest \/ WriteIndexLoad \/ ReadIndexLoad \/ PlayStore \/ InterruptBump \/ InterruptNotify

GuiCalls == PlayCall \/ PollCall \/ Pause \/ CancelDecode

StreamTypeOK ==
  /\ accepted \in Nat /\ delivered \in Nat
  /\ producedFrames \in Nat
  /\ hasAudio \in BOOLEAN /\ playing \in BOOLEAN /\ endOfStream \in BOOLEAN
  /\ spaceGeneration \in Nat
  /\ underrunCount \in 0 .. MaxUnderruns
  /\ producer \in {"decoding", "count", "flag", "wrote", "test", "load", "stop?",
                   "recheck", "wait", "asleep", "stopped"}
  /\ writtenFrames \in Nat /\ waitedGeneration \in Nat
  /\ device \in {"idle", "read", "bump", "notify", "short", "underrun"}
  /\ renderedShort \in BOOLEAN
  /\ gui \in {"idle", "end?", "write index", "read index", "start",
              "callback bump", "callback notify", "bump", "notify"}
  /\ guiCall \in {"play", "poll"}
  /\ seenWriteFrame \in Nat
  /\ sawFinished \in BOOLEAN /\ stopRequested \in BOOLEAN /\ stopWakeup \in BOOLEAN
=============================================================================
