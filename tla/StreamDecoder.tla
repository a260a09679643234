--------------------------- MODULE StreamDecoder ---------------------------
(***************************************************************************)
(* The decoder thread, FFmpegDecoder::streamInput() (src/audio/             *)
(* FFmpegDecoder.cpp), producing into a PcmStream: open, probe, configure   *)
(* and seek, then read, decode and write until the input ends, fails or is   *)
(* cancelled.  FFmpeg itself is external: a call to it may succeed, fail, or *)
(* be interrupted by the deadline or the stop request, which is a failure.   *)
(***************************************************************************)
EXTENDS PcmStream

CONSTANTS MaxChunk,    \* bound: frames one packet converts to
          Prebuffer    \* options.prebufferDuration, in frames

ASSUME ChunkAssumption == MaxChunk \in Nat /\ Prebuffer \in Nat

VARIABLES
  phase,              \* where streamInput() is
  resume,             \* the phase that follows the writeSamples() in progress
  left,               \* frames of the converted span not written yet
  decodedFrameCount,
  readyCalls,         \* times the ready callback has been called
  result              \* the outcome streamInput() returns

decoderVars == <<phase, resume, left, decodedFrameCount, readyCalls, result>>
vars == <<streamVars, decoderVars>>

(* At least a frame, at most half the ring (or the ring of a single frame). *)
PrebufferTarget ==
  LET half == IF Capacity \div 2 >= 1 THEN Capacity \div 2 ELSE 1
      requested == IF Prebuffer >= 1 THEN Prebuffer ELSE 1
  IN  IF requested <= half THEN requested ELSE half

Init ==
  /\ StreamInit
  /\ phase = "enter"
  /\ resume = "enter"
  /\ left = 0
  /\ decodedFrameCount = 0
  /\ readyCalls = 0
  /\ result = "none"

Decoding == producer = "decoding"

Goes(from, to) == phase = from /\ phase' = to

(* Return statements: the outcome, and the way out. *)
Return(outcome) == phase' = "leave" /\ result' = outcome
Cancelled == IF stopRequested THEN "cancelled" ELSE "error"

-----------------------------------------------------------------------------
(* A cancelled job does nothing at all. *)
Enter ==
  /\ phase = "enter"
  /\ IF stopRequested THEN phase' = "done" /\ result' = "cancelled"
     ELSE phase' = "register" /\ UNCHANGED result
  /\ UNCHANGED <<streamVars, resume, left, decodedFrameCount, readyCalls>>

(* stop_callback's constructor runs the callback at once when the stop has  *)
(* already been requested.                                                 *)
Register ==
  /\ Goes("register", "open")
  /\ stopWakeup' = TRUE
  /\ spaceGeneration' = IF stopRequested THEN spaceGeneration + 1 ELSE spaceGeneration
  /\ UNCHANGED <<ring, producedFrames, hasAudio, playing, endOfStream, underrunCount,
                 producerVars, deviceVars, guiVars,
                 resume, left, decodedFrameCount, readyCalls, result>>

(* avformat_open_input, avformat_find_stream_info and avformat_seek_file    *)
(* report a cancellation when the stop was requested.                      *)
Io ==
  /\ phase \in {"open", "probe", "seek"}
  /\ \/ /\ phase' = CASE phase = "open" -> "probe"
                      [] phase = "probe" -> "configure"
                      [] phase = "seek" -> "read"
        /\ UNCHANGED result
     \/ Return(Cancelled)
  /\ UNCHANGED <<streamVars, resume, left, decodedFrameCount, readyCalls>>

(* Stream selection, decoder and resampler set-up: any failure is an error. *)
(* A start position of zero skips the seek.                                *)
Configure ==
  /\ phase = "configure"
  /\ \/ phase' \in {"seek", "read"} /\ UNCHANGED result
     \/ Return("error")
  /\ UNCHANGED <<streamVars, resume, left, decodedFrameCount, readyCalls>>

(* writeSamples() of n frames that a packet or a flush converted to. *)
Convert(n, next) ==
  /\ decodedFrameCount + n <= MaxFrames
  /\ phase' = "write"
  /\ resume' = next
  /\ left' = n
  /\ UNCHANGED result

(* av_read_frame and what its packet decodes to; the loop ends at the end   *)
(* of the input.                                                           *)
ReadPacket ==
  /\ phase = "read"
  /\ \/ IF stopRequested
        THEN Return("cancelled") /\ UNCHANGED <<resume, left>>
        ELSE \E n \in 0 .. MaxChunk : Convert(n, "read")
     \/ Return(Cancelled) /\ UNCHANGED <<resume, left>>
     \/ Return("error") /\ UNCHANGED <<resume, left>>   \* the codec's own errors
     \/ phase' = "flush codec" /\ UNCHANGED <<resume, left, result>>
  /\ UNCHANGED <<streamVars, decodedFrameCount, readyCalls>>

(* The frames the codec, then the resampler, held back. *)
Flush ==
  /\ phase \in {"flush codec", "flush resampler"}
  /\ LET next == IF phase = "flush codec" THEN "flush resampler" ELSE "finish"
     IN  \/ IF stopRequested /\ phase = "flush codec"
            THEN Return("cancelled") /\ UNCHANGED <<resume, left>>
            ELSE \E n \in 0 .. MaxChunk : Convert(n, next)
         \/ Return("error") /\ UNCHANGED <<resume, left>>
  /\ UNCHANGED <<streamVars, decodedFrameCount, readyCalls>>

-----------------------------------------------------------------------------
(* writeSamples(): write what fits, wait when nothing does. *)

WriteDone ==
  /\ phase = "write" /\ Decoding /\ left = 0
  /\ phase' = resume
  /\ UNCHANGED <<streamVars, resume, left, decodedFrameCount, readyCalls, result>>

WriteCancelled ==
  /\ phase = "write"
  /\ producer = "stopped" \/ (Decoding /\ left > 0 /\ stopRequested)
  /\ Return("cancelled")
  /\ producer' = "decoding"
  /\ UNCHANGED <<ring, atomics, writtenFrames, waitedGeneration, deviceVars, guiVars,
                 stopWakeup, resume, left, decodedFrameCount, readyCalls>>

WriteCall ==
  /\ phase = "write" /\ left > 0 /\ ~stopRequested
  /\ WriteSome(left)
  /\ UNCHANGED decoderVars

(* write() found no space: waitForWritableFrames(). *)
WriteNone ==
  /\ phase = "write" /\ Decoding /\ left > 0 /\ ~stopRequested
  /\ Writable = 0
  /\ producer' = "test"
  /\ UNCHANGED <<ring, atomics, writtenFrames, waitedGeneration, deviceVars, guiVars,
                 stopWakeup, decoderVars>>

\* mutant of WriteReturn: the frames offered are counted, not those written.
WriteReturnOffered ==
  /\ phase = "write" /\ producer = "wrote"
  /\ producer' = "decoding"
  /\ left' = left - writtenFrames
  /\ decodedFrameCount' = decodedFrameCount + left
  /\ readyCalls' = IF readyCalls = 0 /\ Buffered >= PrebufferTarget THEN 1 ELSE readyCalls
  /\ UNCHANGED <<ring, atomics, writtenFrames, waitedGeneration, deviceVars, guiVars,
                 stopWakeup, phase, resume, result>>

\* mutant of WriteReturn: the ready callback is called after every write.
WriteReturnAlwaysReady ==
  /\ phase = "write" /\ producer = "wrote"
  /\ producer' = "decoding"
  /\ left' = left - writtenFrames
  /\ decodedFrameCount' = decodedFrameCount + writtenFrames
  /\ readyCalls' = readyCalls + 1
  /\ UNCHANGED <<ring, atomics, writtenFrames, waitedGeneration, deviceVars, guiVars,
                 stopWakeup, phase, resume, result>>

(* After every write: enough is buffered, so the player may start. *)
WriteReturn ==
  /\ phase = "write" /\ producer = "wrote"
  /\ producer' = "decoding"
  /\ left' = left - writtenFrames
  /\ decodedFrameCount' = decodedFrameCount + writtenFrames
  /\ readyCalls' = IF readyCalls = 0 /\ Buffered >= PrebufferTarget THEN 1 ELSE readyCalls
  /\ UNCHANGED <<ring, atomics, writtenFrames, waitedGeneration, deviceVars, guiVars,
                 stopWakeup, phase, resume, result>>

-----------------------------------------------------------------------------
(* The input is exhausted: an input without samples is an error; a short    *)
(* one is ready only now.                                                  *)
Finish ==
  /\ phase = "finish"
  /\ IF decodedFrameCount = 0
     THEN Return("error") /\ UNCHANGED readyCalls
     ELSE /\ phase' = "mark end"
          /\ readyCalls' = IF readyCalls = 0 THEN 1 ELSE readyCalls
          /\ UNCHANGED result
  /\ UNCHANGED <<streamVars, resume, left, decodedFrameCount>>

MarkEndOfStream ==
  /\ phase = "mark end"
  /\ endOfStream' = TRUE
  /\ Return("success")
  /\ UNCHANGED <<ring, producedFrames, hasAudio, playing, spaceGeneration,
                 underrunCount, producerVars, deviceVars, guiVars, stopWakeup,
                 resume, left, decodedFrameCount, readyCalls>>

(* The locals are destroyed; ~stop_callback waits for a callback that runs. *)
Leave ==
  /\ Goes("leave", "done")
  /\ gui \notin {"callback bump", "callback notify"}
  /\ stopWakeup' = FALSE
  /\ UNCHANGED <<ring, atomics, producerVars, deviceVars, guiVars,
                 resume, left, decodedFrameCount, readyCalls, result>>

DecoderSteps ==
  \/ Enter \/ Register \/ Io \/ Configure \/ ReadPacket \/ Flush
  \/ WriteDone \/ WriteCancelled \/ WriteCall \/ WriteNone \/ WriteReturn
  \/ Finish \/ MarkEndOfStream \/ Leave
  \/ (ProducerSteps /\ UNCHANGED decoderVars)

Next ==
  \/ DecoderSteps
  \/ DeviceSteps /\ UNCHANGED decoderVars
  \/ GuiCalls /\ UNCHANGED decoderVars
  \/ GuiSteps /\ UNCHANGED decoderVars

(* The decoder thread and, while the device runs, its callback are scheduled *)
(* again and again, and the GUI thread finishes the call it is in; what the   *)
(* user does next is up to the user.                                        *)
Fairness ==
  /\ WF_vars(DecoderSteps)
  /\ WF_vars(DeviceSteps /\ UNCHANGED decoderVars)
  /\ WF_vars(GuiSteps /\ UNCHANGED decoderVars)

Spec == Init /\ [][Next]_vars /\ Fairness

-----------------------------------------------------------------------------
TypeOK ==
  /\ StreamTypeOK
  /\ phase \in {"enter", "register", "open", "probe", "configure", "seek", "read",
                "write", "flush codec", "flush resampler", "finish", "mark end",
                "leave", "done"}
  /\ resume \in {"enter", "read", "flush resampler", "finish"}
  /\ left \in Nat /\ decodedFrameCount \in Nat /\ readyCalls \in 0 .. 1
  /\ result \in {"none", "success", "error", "cancelled"}

(* No lost wake-up: a decoder thread asleep in waitForWritableFrames()      *)
(* although there is space, or although it was asked to stop, always has a   *)
(* notification coming (PcmStream.cpp:22-41, 53-57).                        *)
NoLostWakeup ==
  producer = "asleep" /\ (Writable > 0 \/ stopRequested) =>
    \/ device \in {"bump", "notify"}
    \/ gui \in {"callback bump", "callback notify", "bump", "notify"}

(* Once isFinished() has told the GUI that the stream is over, it is over:  *)
(* everything the decoder produced has been heard and nothing will follow    *)
(* (PcmStream.cpp:113-116).                                                *)
FinishedIsFinal ==
  sawFinished =>
    endOfStream /\ phase \in {"leave", "done"} /\ delivered = decodedFrameCount

(* The player is told it may start before the decoder ever has to wait for  *)
(* it to: a paused stream with a full ring can always be played             *)
(* (FFmpegDecoder.cpp:439-469, 671-674).                                   *)
ReadyBeforeWaiting ==
  producer \in {"wait", "asleep"} \/ endOfStream => readyCalls = 1 /\ hasAudio

(* The stream ends exactly when decoding succeeds, with every frame written: *)
(* a failed or cancelled decode never looks like a finished track, a finished *)
(* one is finished for good, and a paused one can always be played.          *)
OutcomeMatchesStream ==
  /\ FinishedIsFinal /\ ReadyBeforeWaiting
  /\ endOfStream <=> result = "success"
  /\ endOfStream =>
       decodedFrameCount > 0 /\ accepted = decodedFrameCount
         /\ producedFrames = decodedFrameCount
  /\ result = "cancelled" => stopRequested

(* A requested stop ends the decode, wherever the thread is: waiting for    *)
(* space in a paused stream, in an FFmpeg call, or between two writes.      *)
StopEndsDecode == stopRequested ~> phase = "done"

(* A decoder that waits for space is not left waiting while the device plays: *)
(* neither side ever waits for the other.                                   *)
PlayingNeverStalls == producer = "asleep" ~> producer # "asleep" \/ ~playing
=============================================================================
