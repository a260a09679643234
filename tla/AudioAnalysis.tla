--------------------------- MODULE AudioAnalysis ---------------------------
(***************************************************************************)
(* AudioAnalysisEngine (src/src/audio): the device callback submits frames to a *)
(* bounded queue, the user's thread asks for a reset, and a worker consumes the  *)
(* queue in hops and publishes a spectrum of the last two.  The queue is the     *)
(* lock-free ring of SpscRing, of which SpscRingProofs shows that it is a FIFO.   *)
(*                                                                         *)
(* A frame is tagged with the number of resets asked for before it was         *)
(* submitted; nothing else of it matters here.  A spectrum has the tag of its    *)
(* oldest frame, and a level that decays.  Times are counted in worker polls.  *)
(***************************************************************************)
EXTENDS Naturals, Sequences

CONSTANTS
  Hop,                       \* analysisHopSize; the window is two hops
  QueueFrames,               \* analysisQueueFrames
  DecayInterval, InactiveAfter,
  Levels,                    \* steps until a level is no longer visible
  MaxSubmissions, MaxResets  \* bounds: what the callback and the user do

ASSUME AnalysisAssumption ==
  /\ {Hop, QueueFrames, DecayInterval, InactiveAfter} \subseteq Nat \ {0}
  /\ {Levels, MaxSubmissions, MaxResets} \subseteq Nat

VARIABLES
  analysisQueue,        \* queue: the tags of its frames
  submissions,          \* what the callback has submitted so far
  resetGeneration,
  requestedGeneration, observedGeneration,   \* the worker's two copies of it
  workerAt,             \* "check" the generation, "drain", "input" or "decay"
  window,               \* monoWindow up to collectedSamples, as tags
  processedInput, publishedAudio,            \* of the worker
  lastFrame,            \* the worker's: active, level
  currentFrame,         \* published: active, level, oldest
  sinceInput, sincePublish                   \* polls, up to the interval that matters

workerVars == <<requestedGeneration, observedGeneration, workerAt, window,
                processedInput, publishedAudio, lastFrame, currentFrame,
                sinceInput, sincePublish>>
analysisVars == <<analysisQueue, submissions, resetGeneration, workerVars>>

Silence(oldest) == [active |-> FALSE, level |-> 0, oldest |-> oldest]

AnalysisInit ==
  /\ analysisQueue = <<>> /\ submissions = 0
  /\ resetGeneration = 0 /\ requestedGeneration = 0 /\ observedGeneration = 0
  /\ workerAt = "check"
  /\ window = <<>>
  /\ processedInput = FALSE /\ publishedAudio = FALSE
  /\ lastFrame = [active |-> FALSE, level |-> 0]
  /\ currentFrame = [active |-> TRUE, level |-> 0, oldest |-> 0]  \* initialFrame()
  /\ sinceInput = 0 /\ sincePublish = 0

Lesser(a, b) == IF a < b THEN a ELSE b

(* submitInterleaved(), on the device thread: what does not fit is dropped. *)
SubmitInterleaved(n) ==
  /\ submissions < MaxSubmissions
  /\ submissions' = submissions + 1
  /\ analysisQueue' = analysisQueue \o
       [i \in 1..Lesser(n, QueueFrames - Len(analysisQueue)) |-> resetGeneration]
  /\ UNCHANGED <<resetGeneration, workerVars>>

(* reset(), on the user's thread *)
ResetAnalysis ==
  /\ resetGeneration < MaxResets
  /\ resetGeneration' = resetGeneration + 1
  /\ UNCHANGED <<analysisQueue, submissions, workerVars>>

-----------------------------------------------------------------------------
(* The worker. *)

CheckGeneration ==
  /\ workerAt = "check"
  /\ requestedGeneration' = resetGeneration
  /\ workerAt' = IF resetGeneration # observedGeneration THEN "drain" ELSE "input"
  /\ processedInput' = FALSE
  /\ UNCHANGED <<analysisQueue, submissions, resetGeneration, observedGeneration, window,
                 publishedAudio, lastFrame, currentFrame, sinceInput, sincePublish>>

(* One read of the loop that empties the queue; the callback may go on filling it. *)
DiscardQueued ==
  /\ workerAt = "drain" /\ analysisQueue # <<>>
  /\ analysisQueue' = SubSeq(analysisQueue, Lesser(Hop, Len(analysisQueue)) + 1,
                             Len(analysisQueue))
  /\ UNCHANGED <<submissions, resetGeneration, workerVars>>

(* The rest of a reset, once the queue was seen empty. *)
FinishResetKeepingWindow ==                           \* mutant of FinishReset
  /\ workerAt = "drain" /\ analysisQueue = <<>>
  /\ lastFrame' = [active |-> FALSE, level |-> 0]
  /\ currentFrame' = Silence(requestedGeneration)
  /\ publishedAudio' = FALSE
  /\ sinceInput' = 0 /\ sincePublish' = 0
  /\ observedGeneration' = requestedGeneration
  /\ workerAt' = "input"
  /\ UNCHANGED <<analysisQueue, submissions, resetGeneration, requestedGeneration,
                 processedInput, window>>

FinishReset ==
  /\ workerAt = "drain" /\ analysisQueue = <<>>
  /\ window' = <<>>
  /\ lastFrame' = [active |-> FALSE, level |-> 0]
  /\ currentFrame' = Silence(requestedGeneration)
  /\ publishedAudio' = FALSE
  /\ sinceInput' = 0 /\ sincePublish' = 0
  /\ observedGeneration' = requestedGeneration
  /\ workerAt' = "input"
  /\ UNCHANGED <<analysisQueue, submissions, resetGeneration, requestedGeneration,
                 processedInput>>

(* One hop of the input loop: a full window moves by a hop, and a window that is *)
(* full again is analysed and published at any level.                       *)
Collected ==
  (IF Len(window) = 2 * Hop THEN SubSeq(window, Hop + 1, 2 * Hop) ELSE window)
    \o SubSeq(analysisQueue, 1, Hop)

ConsumeHop ==
  /\ workerAt = "input" /\ Len(analysisQueue) >= Hop
  /\ analysisQueue' = SubSeq(analysisQueue, Hop + 1, Len(analysisQueue))
  /\ window' = Collected
  /\ processedInput' = TRUE
  /\ sinceInput' = 0
  /\ IF Len(Collected) = 2 * Hop
     THEN \E level \in 0..Levels :
            /\ lastFrame' = [active |-> TRUE, level |-> level]
            /\ currentFrame' = [active |-> TRUE, level |-> level, oldest |-> Collected[1]]
            /\ publishedAudio' = TRUE
            /\ sincePublish' = 0
     ELSE UNCHANGED <<lastFrame, currentFrame, publishedAudio, sincePublish>>
  /\ UNCHANGED <<submissions, resetGeneration, requestedGeneration, observedGeneration,
                 workerAt>>

InputExhausted ==
  /\ workerAt = "input" /\ Len(analysisQueue) < Hop
  /\ workerAt' = "decay"
  /\ UNCHANGED <<analysisQueue, submissions, resetGeneration, requestedGeneration,
                 observedGeneration, window, processedInput, publishedAudio, lastFrame,
                 currentFrame, sinceInput, sincePublish>>

(* Without input a published spectrum decays, and the worker sleeps a poll. *)
Later(clock, limit) == Lesser(clock + 1, limit)

Decay ==
  LET faded == [active |-> sinceInput < InactiveAfter,
                level |-> IF lastFrame.level = 0 THEN 0 ELSE lastFrame.level - 1]
      due == ~processedInput /\ publishedAudio /\ sincePublish >= DecayInterval
      shown == faded.level > 0 \/ lastFrame.active \/ faded.active
  IN  /\ workerAt = "decay"
      /\ workerAt' = "check"
      /\ lastFrame' = IF due THEN faded ELSE lastFrame
      /\ currentFrame' =
           IF due /\ shown THEN [active |-> faded.active, level |-> faded.level,
                                 oldest |-> currentFrame.oldest]
           ELSE currentFrame
      /\ publishedAudio' = (publishedAudio /\ (due => shown))
      /\ sinceInput' = Later(sinceInput, InactiveAfter)
      /\ sincePublish' = IF due /\ shown THEN 1 ELSE Later(sincePublish, DecayInterval)
      /\ UNCHANGED <<analysisQueue, submissions, resetGeneration, requestedGeneration,
                     observedGeneration, window, processedInput>>

AnalysisNext ==
  \/ \E n \in 1..(Hop + 1) : SubmitInterleaved(n)
  \/ ResetAnalysis
  \/ CheckGeneration
  \/ DiscardQueued
  \/ FinishReset
  \/ ConsumeHop
  \/ InputExhausted
  \/ Decay

AnalysisSpec == AnalysisInit /\ [][AnalysisNext]_analysisVars

-----------------------------------------------------------------------------
(* Every variable of the analysis stays in its domain. *)
AnalysisTypeOK ==
  /\ analysisQueue \in Seq(Nat) /\ Len(analysisQueue) <= QueueFrames
  /\ window \in Seq(Nat) /\ Len(window) \in {0, Hop, 2 * Hop}
  /\ {resetGeneration, requestedGeneration, observedGeneration, submissions,
      sinceInput, sincePublish, lastFrame.level} \subseteq Nat
  /\ workerAt \in {"check", "drain", "input", "decay"}
  /\ currentFrame \in [active : BOOLEAN, level : Nat, oldest : Nat]

(* A spectrum published after the worker honoured a reset has no frame of before  *)
(* that reset in it: neither the queue nor the window keeps one, although the     *)
(* callback submits and the user resets again while the worker empties them.   *)
NoStaleSpectrum == currentFrame.oldest >= observedGeneration
=============================================================================
