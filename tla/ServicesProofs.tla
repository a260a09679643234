--------------------------- MODULE ServicesProofs ---------------------------
(*****************************************************************************)
(* The queue, the spectrum, the window, the library on display, the radio, the*)
(* extensions and the playlists, for instances of any size; and the services*)
(* together.                                                                *)
(*****************************************************************************)
EXTENDS MCServices, ProviderProofs

-----------------------------------------------------------------------------
(* PlaybackQueue: the index names an entry whenever there is one, and a removal leaves
   the entry that plays alone *)

(* What RemoveAt() leaves: everything before the entry, and everything behind it    *)
(* one place nearer.                                                          *)
LEMMA Removal ==
  ASSUME NEW S, NEW s \in Seq(S), NEW i \in 1..Len(s)
  PROVE  /\ RemoveAt(s, i) \in Seq(S)
         /\ Len(RemoveAt(s, i)) = Len(s) - 1
         /\ \A j \in 1..Len(s) - 1 :
              RemoveAt(s, i)[j] = IF j < i THEN s[j] ELSE s[j + 1]
<1> DEFINE before == SubSeq(s, 1, i - 1)
           behind == SubSeq(s, i + 1, Len(s))
<1>1. Len(s) \in Nat /\ i \in Nat /\ 1 <= i /\ i <= Len(s)
  BY LenProperties
<1>2. /\ before \in Seq(S) /\ Len(before) = i - 1
      /\ \A j \in 1..i - 1 : before[j] = s[j]
  <2>1. \A j \in 1..i - 1 : s[j] \in S
    BY <1>1, ElementOfSeq
  <2>2. /\ before \in Seq(S) /\ Len(before) = IF 1 <= i - 1 THEN i - 1 - 1 + 1 ELSE 0
        /\ \A j \in 1..i - 1 - 1 + 1 : before[j] = s[1 + j - 1]
    BY <1>1, <2>1, SubSeqProperties
  <2> HIDE DEF before
  <2> QED
    BY <1>1, <2>2
<1>3. /\ behind \in Seq(S) /\ Len(behind) = Len(s) - i
      /\ \A j \in 1..Len(s) - i : behind[j] = s[i + j]
  <2>1. \A j \in i + 1..Len(s) : s[j] \in S
    BY <1>1, ElementOfSeq
  <2>2. /\ behind \in Seq(S)
        /\ Len(behind) = IF i + 1 <= Len(s) THEN Len(s) - (i + 1) + 1 ELSE 0
        /\ \A j \in 1..Len(s) - (i + 1) + 1 : behind[j] = s[i + 1 + j - 1]
    BY <1>1, <2>1, SubSeqProperties
  <2> HIDE DEF behind
  <2> QED
    BY <1>1, <2>2
<1>4. RemoveAt(s, i) = before \o behind
  BY DEF RemoveAt
<1> HIDE DEF before, behind
<1>5. /\ before \o behind \in Seq(S)
      /\ Len(before \o behind) = Len(before) + Len(behind)
      /\ \A j \in 1..Len(before) + Len(behind) :
           (before \o behind)[j] =
             IF j <= Len(before) THEN before[j] ELSE behind[j - Len(before)]
  BY <1>2, <1>3, ConcatProperties
<1>6. ASSUME NEW j \in 1..Len(s) - 1
      PROVE  (before \o behind)[j] = IF j < i THEN s[j] ELSE s[j + 1]
  <2>1. CASE j < i
    <3>1. j \in 1..i - 1 /\ j <= Len(before) /\ j \in 1..Len(before) + Len(behind)
      BY <1>1, <1>2, <1>3, <2>1
    <3>2. (before \o behind)[j] = before[j]
      BY <1>5, <3>1
    <3>3. before[j] = s[j]
      BY <1>2, <3>1
    <3> QED
      BY <2>1, <3>2, <3>3
  <2>2. CASE j >= i
    <3>1. (before \o behind)[j] = behind[j - (i - 1)]
      BY <1>1, <1>2, <1>3, <1>5, <2>2
    <3>2. j - (i - 1) \in 1..Len(s) - i
      BY <1>1, <2>2
    <3>3. behind[j - (i - 1)] = s[i + (j - (i - 1))]
      BY <1>3, <3>2
    <3>4. i + (j - (i - 1)) = j + 1
      BY <1>1
    <3> QED
      BY <1>1, <2>2, <3>1, <3>3, <3>4
  <2>3. j < i \/ j >= i
    BY <1>1
  <2> QED
    BY <2>1, <2>2, <2>3, Zenon
<1> QED
  BY <1>1, <1>2, <1>3, <1>4, <1>5, <1>6

(* next() and previous() stay within the queue. *)
LEMMA SkipRange ==
  ASSUME NEW n \in Nat, NEW c \in 1..n, NEW mode \in RepeatModes
  PROVE  NextIndex(n, c, mode) \in 1..n /\ PreviousIndex(n, c, mode) \in 1..n
<1>1. NextIndex(n, c, mode) \in 1..n
  <2>1. CASE mode = "one"
    BY <2>1 DEF NextIndex
  <2>2. CASE mode # "one" /\ c < n
    BY <2>2 DEF NextIndex
  <2>3. CASE mode = "all" /\ c = n
    BY <2>3 DEF NextIndex
  <2>4. CASE mode = "off" /\ c = n
    BY <2>4 DEF NextIndex
  <2> QED
    BY <2>1, <2>2, <2>3, <2>4 DEF RepeatModes
<1>2. PreviousIndex(n, c, mode) \in 1..n
  <2>1. CASE mode = "one"
    BY <2>1 DEF PreviousIndex
  <2>2. CASE mode # "one" /\ c > 1
    BY <2>2 DEF PreviousIndex
  <2>3. CASE mode = "all" /\ c = 1
    BY <2>3 DEF PreviousIndex
  <2>4. CASE mode = "off" /\ c = 1
    BY <2>4 DEF PreviousIndex
  <2> QED
    BY <2>1, <2>2, <2>3, <2>4 DEF RepeatModes
<1> QED
  BY <1>1, <1>2

-----------------------------------------------------------------------------
(* A removal, seen from a queue whose index is right. *)
LEMMA RemovalKeeps ==
  ASSUME QueueTypeOK, NEW i \in 1..Len(queued), RemoveEntry(i)
  PROVE  /\ QueueTypeOK'
         /\ queued' # <<>> =>
              queued'[currentIndex'] =
                IF i # currentIndex THEN queued[currentIndex]
                ELSE IF i < Len(queued) THEN queued[i + 1] ELSE queued[i - 1]
<1> DEFINE n == Len(queued)
<1>1. queued \in Seq(Entries) /\ n \in Nat /\ i \in 1..n /\ n > 0 /\ repeatMode \in RepeatModes
  BY LenProperties DEF QueueTypeOK
<1>2. queued # <<>>
  BY <1>1, EmptySeq
<1>3. currentIndex \in 1..n
  BY <1>1, <1>2 DEF QueueTypeOK
<1>4. /\ queued' \in Seq(Entries) /\ Len(queued') = n - 1
      /\ \A j \in 1..n - 1 : queued'[j] = IF j < i THEN queued[j] ELSE queued[j + 1]
  BY <1>1, Removal DEF RemoveEntry
<1>5. currentIndex' = IndexAfterRemoval(n, i, currentIndex) /\ repeatMode' = repeatMode
  BY DEF RemoveEntry
<1> HIDE DEF n
<1>6. CASE n = 1
  <2>1. currentIndex' = 0 /\ queued' = <<>>
    BY <1>1, <1>4, <1>5, <1>6, EmptySeq DEF IndexAfterRemoval
  <2> QED
    BY <1>1, <1>4, <1>5, <1>6, <2>1 DEF QueueTypeOK
<1>7. CASE n > 1
  <2>1. /\ currentIndex' \in 1..n - 1
        /\ currentIndex > i => currentIndex' = currentIndex - 1
        /\ currentIndex < i => currentIndex' = currentIndex
        /\ currentIndex = i /\ i < n => currentIndex' = i
        /\ currentIndex = i /\ i = n => currentIndex' = i - 1
    <3>1. n \in Nat /\ i \in 1..n /\ currentIndex \in 1..n /\ n > 1
      BY <1>1, <1>3, <1>7
    <3>2. CASE currentIndex > i
      BY <1>5, <3>1, <3>2 DEF IndexAfterRemoval
    <3>3. CASE currentIndex = i /\ currentIndex > n - 1
      BY <1>5, <3>1, <3>3 DEF IndexAfterRemoval
    <3>4. CASE currentIndex <= i /\ ~(currentIndex = i /\ currentIndex > n - 1)
      BY <1>5, <3>1, <3>4 DEF IndexAfterRemoval
    <3> QED
      BY <3>1, <3>2, <3>3, <3>4
  <2>2. queued' # <<>>
    BY <1>1, <1>4, <1>7, EmptySeq
  <2>3. QueueTypeOK'
    BY <1>1, <1>4, <1>5, <1>7, <2>1, <2>2 DEF QueueTypeOK
  <2>4. queued'[currentIndex'] =
          IF currentIndex' < i THEN queued[currentIndex'] ELSE queued[currentIndex' + 1]
    BY <1>4, <2>1
  <2>5. queued'[currentIndex'] =
          IF i # currentIndex THEN queued[currentIndex]
          ELSE IF i < n THEN queued[i + 1] ELSE queued[i - 1]
    <3>1. CASE currentIndex > i
      <4>1. currentIndex' + 1 = currentIndex /\ ~(currentIndex' < i)
        BY <1>1, <1>3, <2>1, <3>1
      <4> QED
        BY <1>1, <1>3, <2>4, <3>1, <4>1
    <3>2. CASE currentIndex < i
      BY <1>1, <1>3, <2>1, <2>4, <3>2
    <3>3. CASE currentIndex = i
      BY <1>1, <1>3, <2>1, <2>4, <3>3
    <3> QED
      BY <1>1, <1>3, <3>1, <3>2, <3>3
  <2> QED
    BY <2>3, <2>5 DEF n
<1> QED
  BY <1>1, <1>6, <1>7

LEMMA EnqueueKeeps ==
  ASSUME QueueTypeOK, NEW e \in Entries, Enqueue(e)
  PROVE  QueueTypeOK'
<1>1. queued \in Seq(Entries) /\ Len(queued) \in Nat
  BY LenProperties DEF QueueTypeOK
<1>2. queued' = Append(queued, e)
  BY DEF Enqueue
<1>3. queued' \in Seq(Entries) /\ Len(queued') = Len(queued) + 1
  BY <1>1, <1>2
<1>4. queued' # <<>>
  BY <1>1, <1>3, EmptySeq
<1>5. currentIndex' \in 1..Len(queued')
  BY <1>1, <1>3 DEF QueueTypeOK, Enqueue
<1> QED
  BY <1>3, <1>4, <1>5 DEF QueueTypeOK, Enqueue

LEMMA SkipKeeps ==
  ASSUME QueueTypeOK, SkipNext \/ SkipPrevious
  PROVE  QueueTypeOK'
<1>1. queued \in Seq(Entries) /\ Len(queued) \in Nat /\ repeatMode \in RepeatModes
  BY LenProperties DEF QueueTypeOK
<1>2. UNCHANGED <<queued, repeatMode>>
  BY DEF SkipNext, SkipPrevious, Skip
<1>3. CASE currentIndex = 0
  <2>1. currentIndex' = currentIndex
    <3>1. /\ NextIndex(Len(queued), currentIndex, repeatMode) = currentIndex
          /\ PreviousIndex(Len(queued), currentIndex, repeatMode) = currentIndex
      BY <1>3 DEF NextIndex, PreviousIndex
    <3> QED
      BY <3>1 DEF SkipNext, SkipPrevious, Skip
  <2> QED
    BY <1>2, <2>1 DEF QueueTypeOK
<1>4. CASE currentIndex # 0
  <2>1. currentIndex \in 1..Len(queued)
    BY <1>1, <1>4 DEF QueueTypeOK
  <2>2. currentIndex' \in 1..Len(queued)
    BY <1>1, <2>1, SkipRange DEF SkipNext, SkipPrevious, Skip
  <2> QED
    BY <1>1, <1>2, <1>4, <2>2 DEF QueueTypeOK
<1> QED
  BY <1>3, <1>4

(* Every step keeps the index right. *)
LEMMA QueueKeeps == QueueTypeOK /\ [QueueNext]_queueVars => QueueTypeOK'
<1> SUFFICES ASSUME QueueTypeOK, [QueueNext]_queueVars PROVE QueueTypeOK'
  OBVIOUS
<1>1. ASSUME NEW i \in 1..Len(queued), SelectEntry(i) PROVE QueueTypeOK'
  <2>1. Len(queued) \in Nat /\ queued # <<>>
    BY <1>1, EmptySeq, LenProperties DEF QueueTypeOK
  <2> QED
    BY <1>1, <2>1 DEF QueueTypeOK, SelectEntry
<1>2. CASE ClearQueue
  <2>1. queued' \in Seq(Entries) /\ Len(queued') = 0
    BY <1>2, EmptySeq DEF ClearQueue
  <2> QED
    BY <1>2, <2>1 DEF QueueTypeOK, ClearQueue
<1>3. CASE SetRepeatMode
  BY <1>3 DEF QueueTypeOK, SetRepeatMode
<1>4. CASE UNCHANGED queueVars
  BY <1>4 DEF QueueTypeOK, queueVars
<1> QED
  BY <1>1, <1>2, <1>3, <1>4, EnqueueKeeps, RemovalKeeps, SkipKeeps DEF QueueNext

(* The index names an entry exactly while there is one (PlaybackQueue::current()),  *)
(* for any sequence of calls.                                                 *)
THEOREM QueueTyped == QueueSpec => []QueueTypeOK
<1>1. QueueInit => QueueTypeOK
  BY EmptySeq DEF QueueInit, QueueTypeOK, RepeatModes
<1> QED
  BY <1>1, QueueKeeps, PTL DEF QueueSpec

(* remove() never changes what plays while another entry is removed, and hands over *)
(* to the successor or to the new last entry otherwise.                         *)
THEOREM RemovalKeepsCurrent == QueueSpec => CurrentSurvives
<1> DEFINE Survives ==
      \A i \in 1..Len(queued) :
        RemoveEntry(i) /\ queued' # <<>> =>
          queued'[currentIndex'] =
            IF i # currentIndex THEN queued[currentIndex]
            ELSE IF i < Len(queued) THEN queued[i + 1] ELSE queued[i - 1]
<1>1. QueueTypeOK /\ [QueueNext]_queueVars => [Survives]_queueVars
  BY RemovalKeeps
<1> QED
  BY <1>1, QueueTyped, PTL DEF QueueSpec, CurrentSurvives

-----------------------------------------------------------------------------
(* AudioAnalysis: a published spectrum is never of before the last reset that the worker
   has honoured, however the callback, the user and the worker interleave *)

(* The generations worth hearing: those of frames submitted after the reset. *)
Fresh == {tag \in Nat : tag >= observedGeneration}

(* Why the published spectrum is fresh: so are the window it is made of and the   *)
(* queue that feeds the window, because a reset is only finished (and the bar      *)
(* raised) when both are empty, and what is submitted later has a later tag.      *)
AnalysisInv ==
  /\ analysisQueue \in Seq(Fresh) /\ Len(analysisQueue) <= QueueFrames
  /\ window \in Seq(Fresh) /\ Len(window) \in {0, Hop, 2 * Hop}
  /\ resetGeneration \in Nat /\ requestedGeneration \in Nat /\ observedGeneration \in Nat
  /\ submissions \in Nat /\ sinceInput \in Nat /\ sincePublish \in Nat
  /\ observedGeneration <= requestedGeneration /\ requestedGeneration <= resetGeneration
  /\ workerAt \in {"check", "drain", "input", "decay"}
  /\ lastFrame \in [active : BOOLEAN, level : Nat]
  /\ currentFrame \in [active : BOOLEAN, level : Nat, oldest : Fresh]

USE AnalysisAssumption

(* A part of a sequence is one of the same elements. *)
LEMMA PartOf ==
  ASSUME NEW S, NEW s \in Seq(S), NEW m \in Nat \ {0}, NEW n \in Nat, n <= Len(s)
  PROVE  /\ SubSeq(s, m, n) \in Seq(S)
         /\ Len(SubSeq(s, m, n)) = IF m <= n THEN n - m + 1 ELSE 0
<1>1. \A i \in m..n : s[i] \in S
  BY ElementOfSeq, LenProperties
<1> QED
  BY <1>1, SubSeqProperties

(* So are n copies of an element. *)
LEMMA Copies ==
  ASSUME NEW S, NEW e \in S, NEW n \in Nat
  PROVE  [i \in 1..n |-> e] \in Seq(S) /\ Len([i \in 1..n |-> e]) = n
<1>1. [i \in 1..n |-> e] \in Seq(S)
  BY SeqDef
<1>2. DOMAIN [i \in 1..n |-> e] = 1..n
  OBVIOUS
<1> QED
  BY <1>1, <1>2, LenProperties

(* The first state is fresh: nothing was submitted. *)
LEMMA AnalysisInitHolds == AnalysisInit => AnalysisInv
  BY DEF AnalysisInit, AnalysisInv, Fresh

(* The invariant is what the model promises, and more. *)
LEMMA AnalysisInvImplies == AnalysisInv => AnalysisTypeOK /\ NoStaleSpectrum
<1> SUFFICES ASSUME AnalysisInv PROVE AnalysisTypeOK /\ NoStaleSpectrum
  OBVIOUS
<1>1. Fresh \subseteq Nat
  BY DEF Fresh
<1>2. analysisQueue \in Seq(Nat) /\ window \in Seq(Nat)
  BY <1>1, SeqMonotonic DEF AnalysisInv
<1>3. currentFrame.oldest \in Fresh /\ currentFrame \in [active : BOOLEAN, level : Nat, oldest : Nat]
  BY <1>1 DEF AnalysisInv
<1>4. currentFrame.oldest >= observedGeneration
  BY <1>3 DEF Fresh
<1>5. lastFrame.level \in Nat
  BY DEF AnalysisInv
<1> QED
  BY <1>2, <1>3, <1>4, <1>5 DEF AnalysisInv, AnalysisTypeOK, NoStaleSpectrum

-----------------------------------------------------------------------------
(* The steps. *)

(* What is submitted carries the newest generation, which is at least the bar. *)
LEMMA SubmitKeeps ==
  ASSUME AnalysisInv, NEW n \in Nat, SubmitInterleaved(n)
  PROVE  AnalysisInv'
<1> DEFINE fits == Lesser(n, QueueFrames - Len(analysisQueue))
           more == [i \in 1..fits |-> resetGeneration]
<1>1. Len(analysisQueue) \in Nat /\ fits \in Nat /\ Len(analysisQueue) + fits <= QueueFrames
  BY LenProperties DEF AnalysisInv, Lesser
<1>2. resetGeneration \in Fresh
  BY DEF AnalysisInv, Fresh
<1> HIDE DEF fits
<1>3. more \in Seq(Fresh) /\ Len(more) = fits
  BY <1>1, <1>2, Copies
<1>4. analysisQueue' = analysisQueue \o more
  BY DEF SubmitInterleaved, fits
<1> HIDE DEF more
<1>5. analysisQueue' \in Seq(Fresh) /\ Len(analysisQueue') <= QueueFrames
  BY <1>1, <1>3, <1>4, ConcatProperties DEF AnalysisInv
<1>6. Fresh' = Fresh
  BY DEF SubmitInterleaved, workerVars, Fresh
<1>7. submissions' \in Nat
  BY DEF AnalysisInv, SubmitInterleaved
<1>8. UNCHANGED <<resetGeneration, workerVars>>
  BY DEF SubmitInterleaved
<1> QED
  BY <1>5, <1>6, <1>7, <1>8 DEF AnalysisInv, workerVars

LEMMA ResetKeeps ==
  ASSUME AnalysisInv, ResetAnalysis
  PROVE  AnalysisInv'
<1>1. Fresh' = Fresh
  BY DEF ResetAnalysis, workerVars, Fresh
<1> QED
  BY <1>1 DEF AnalysisInv, ResetAnalysis, workerVars

LEMMA CheckKeeps ==
  ASSUME AnalysisInv, CheckGeneration
  PROVE  AnalysisInv'
<1>1. Fresh' = Fresh
  BY DEF CheckGeneration, Fresh
<1> QED
  BY <1>1 DEF AnalysisInv, CheckGeneration

LEMMA DiscardKeeps ==
  ASSUME AnalysisInv, DiscardQueued
  PROVE  AnalysisInv'
<1>1. Fresh' = Fresh
  BY DEF DiscardQueued, workerVars, Fresh
<1> DEFINE first == Lesser(Hop, Len(analysisQueue)) + 1
<1>2. Len(analysisQueue) \in Nat /\ first \in Nat \ {0}
  <2>1. Len(analysisQueue) \in Nat
    BY LenProperties DEF AnalysisInv
  <2>2. Hop \in Nat
    OBVIOUS
  <2>3. Lesser(Hop, Len(analysisQueue)) \in Nat
    BY <2>1, <2>2 DEF Lesser
  <2> QED
    BY <2>1, <2>3
<1> HIDE DEF first
<1>3. /\ SubSeq(analysisQueue, first, Len(analysisQueue)) \in Seq(Fresh)
      /\ Len(SubSeq(analysisQueue, first, Len(analysisQueue))) <= Len(analysisQueue)
  BY <1>2, PartOf DEF AnalysisInv
<1>4. analysisQueue' \in Seq(Fresh) /\ Len(analysisQueue') <= QueueFrames
  BY <1>2, <1>3 DEF AnalysisInv, DiscardQueued, first
<1> QED
  BY <1>1, <1>4 DEF AnalysisInv, DiscardQueued, workerVars

(* The bar rises to the requested generation; queue and window are empty then. *)
LEMMA FinishKeeps ==
  ASSUME AnalysisInv, FinishReset
  PROVE  AnalysisInv'
<1>1. analysisQueue' = <<>> /\ window' = <<>> /\ observedGeneration' = requestedGeneration
  BY DEF FinishReset
<1>2. requestedGeneration \in Fresh'
  BY <1>1 DEF AnalysisInv, Fresh
<1>3. currentFrame' \in [active : BOOLEAN, level : Nat, oldest : Fresh']
  BY <1>2 DEF FinishReset, Silence
<1>4. analysisQueue' \in Seq(Fresh') /\ window' \in Seq(Fresh')
      /\ Len(analysisQueue') = 0 /\ Len(window') = 0
  BY <1>1, EmptySeq
<1> QED
  BY <1>1, <1>3, <1>4 DEF AnalysisInv, FinishReset

LEMMA ConsumeKeeps ==
  ASSUME AnalysisInv, ConsumeHop
  PROVE  AnalysisInv'
<1>1. Fresh' = Fresh
  BY DEF ConsumeHop, Fresh
<1>2. /\ Hop \in Nat /\ Hop > 0 /\ Len(window) \in Nat
      /\ Len(analysisQueue) \in Nat /\ Hop <= Len(analysisQueue)
  BY LenProperties DEF AnalysisInv, ConsumeHop
<1>3. /\ SubSeq(analysisQueue, 1, Hop) \in Seq(Fresh)
      /\ Len(SubSeq(analysisQueue, 1, Hop)) = Hop
  BY <1>2, PartOf DEF AnalysisInv
<1>4. /\ analysisQueue' \in Seq(Fresh)
      /\ Len(analysisQueue') <= QueueFrames
  <2> DEFINE rest == SubSeq(analysisQueue, Hop + 1, Len(analysisQueue))
  <2>1. Hop + 1 \in Nat \ {0}
    BY <1>2
  <2>2. rest \in Seq(Fresh) /\ Len(rest) <= Len(analysisQueue)
    BY <1>2, <2>1, PartOf DEF AnalysisInv
  <2>3. analysisQueue' = rest
    BY DEF ConsumeHop
  <2> HIDE DEF rest
  <2> QED
    BY <1>2, <2>2, <2>3 DEF AnalysisInv
<1> DEFINE kept == IF Len(window) = 2 * Hop THEN SubSeq(window, Hop + 1, 2 * Hop) ELSE window
<1>5. kept \in Seq(Fresh) /\ Len(kept) \in {0, Hop}
  <2>1. CASE Len(window) = 2 * Hop
    <3>1. Hop + 1 \in Nat \ {0} /\ 2 * Hop \in Nat /\ 2 * Hop <= Len(window)
          /\ Hop + 1 <= 2 * Hop /\ 2 * Hop - (Hop + 1) + 1 = Hop
      BY <2>1, <1>2
    <3>2. window \in Seq(Fresh)
      BY DEF AnalysisInv
    <3>3. /\ SubSeq(window, Hop + 1, 2 * Hop) \in Seq(Fresh)
          /\ Len(SubSeq(window, Hop + 1, 2 * Hop)) = Hop
      BY <3>1, <3>2, PartOf
    <3> QED
      BY <2>1, <3>3
  <2>2. CASE Len(window) # 2 * Hop
    BY <2>2 DEF AnalysisInv
  <2> QED
    BY <2>1, <2>2
<1> HIDE DEF kept
<1>6. Collected \in Seq(Fresh) /\ Len(Collected) \in {Hop, 2 * Hop}
  <2>1. Collected = kept \o SubSeq(analysisQueue, 1, Hop)
    BY DEF Collected, kept
  <2>2. Collected \in Seq(Fresh) /\ Len(Collected) = Len(kept) + Hop
    BY <1>3, <1>5, <2>1, ConcatProperties
  <2> QED
    BY <1>2, <1>5, <2>2
<1>7. currentFrame' \in [active : BOOLEAN, level : Nat, oldest : Fresh]
      /\ lastFrame' \in [active : BOOLEAN, level : Nat]
      /\ sincePublish' \in Nat
  <2>1. CASE Len(Collected) = 2 * Hop
    <3>1. Collected[1] \in Fresh
      BY <2>1, <1>2, <1>6, ElementOfSeq
    <3>2. PICK level \in 0..Levels :
            /\ lastFrame' = [active |-> TRUE, level |-> level]
            /\ currentFrame' = [active |-> TRUE, level |-> level, oldest |-> Collected[1]]
      BY <2>1 DEF ConsumeHop
    <3>3. sincePublish' = 0 /\ level \in Nat
      BY <2>1 DEF ConsumeHop
    <3> HIDE DEF Collected
    <3> QED
      BY <3>1, <3>2, <3>3
  <2>2. CASE Len(Collected) # 2 * Hop
    BY <2>2 DEF ConsumeHop, AnalysisInv
  <2> QED
    BY <2>1, <2>2
<1>8. window' \in Seq(Fresh) /\ Len(window') \in {0, Hop, 2 * Hop}
  BY <1>6 DEF ConsumeHop
<1> QED
  BY <1>1, <1>4, <1>7, <1>8 DEF AnalysisInv, ConsumeHop

LEMMA ExhaustedKeeps ==
  ASSUME AnalysisInv, InputExhausted
  PROVE  AnalysisInv'
<1>1. Fresh' = Fresh
  BY DEF InputExhausted, Fresh
<1> QED
  BY <1>1 DEF AnalysisInv, InputExhausted

(* A decaying spectrum keeps its oldest frame. *)
LEMMA DecayKeeps ==
  ASSUME AnalysisInv, Decay
  PROVE  AnalysisInv'
<1>1. Fresh' = Fresh
  BY DEF Decay, Fresh
<1> DEFINE faded == [active |-> sinceInput < InactiveAfter,
                     level |-> IF lastFrame.level = 0 THEN 0 ELSE lastFrame.level - 1]
           shown == [active |-> faded.active, level |-> faded.level,
                     oldest |-> currentFrame.oldest]
<1>2. lastFrame.level \in Nat /\ currentFrame.oldest \in Fresh
  BY DEF AnalysisInv
<1>3. (IF lastFrame.level = 0 THEN 0 ELSE lastFrame.level - 1) \in Nat
  BY <1>2
<1>4. faded \in [active : BOOLEAN, level : Nat]
  BY <1>3
<1>5. shown \in [active : BOOLEAN, level : Nat, oldest : Fresh]
  BY <1>2, <1>3
<1>6. lastFrame' \in {lastFrame, faded} /\ currentFrame' \in {currentFrame, shown}
  BY DEF Decay
<1> HIDE DEF faded, shown
<1>7. lastFrame' \in [active : BOOLEAN, level : Nat]
      /\ currentFrame' \in [active : BOOLEAN, level : Nat, oldest : Fresh]
  BY <1>4, <1>5, <1>6 DEF AnalysisInv
<1>8. sinceInput' \in Nat /\ sincePublish' \in Nat
  BY DEF Decay, Later, Lesser, AnalysisInv
<1>9. UNCHANGED <<analysisQueue, submissions, resetGeneration, requestedGeneration,
                  observedGeneration, window>> /\ workerAt' = "check"
  BY DEF Decay
<1> QED
  BY <1>1, <1>7, <1>8, <1>9 DEF AnalysisInv

(* Every step of the engine keeps the invariant. *)
LEMMA AnalysisNextKeeps == AnalysisInv /\ [AnalysisNext]_analysisVars => AnalysisInv'
<1> SUFFICES ASSUME AnalysisInv, [AnalysisNext]_analysisVars PROVE AnalysisInv'
  OBVIOUS
<1>1. ASSUME NEW n \in 1..(Hop + 1), SubmitInterleaved(n) PROVE AnalysisInv'
  BY <1>1, SubmitKeeps
<1>2. CASE UNCHANGED analysisVars
  <2>1. Fresh' = Fresh
    BY <1>2 DEF analysisVars, workerVars, Fresh
  <2> QED
    BY <1>2, <2>1 DEF AnalysisInv, analysisVars, workerVars
<1> QED
  BY <1>1, <1>2, ResetKeeps, CheckKeeps, DiscardKeeps, FinishKeeps, ConsumeKeeps,
     ExhaustedKeeps, DecayKeeps DEF AnalysisNext

(* The types, and with them that the queue and the window stay within their       *)
(* buffers (AudioAnalysisEngine::Impl).                                         *)
THEOREM AnalysisTyped == AnalysisSpec => []AnalysisTypeOK
<1>1. AnalysisSpec => []AnalysisInv
  BY AnalysisInitHolds, AnalysisNextKeeps, PTL DEF AnalysisSpec
<1> QED
  BY <1>1, AnalysisInvImplies, PTL

(* No spectrum of before a reset is published after the worker honoured the reset  *)
(* (AudioAnalysisEngine::Impl::run()), whatever overlaps it.                      *)
THEOREM SpectrumIsFresh == AnalysisSpec => []NoStaleSpectrum
<1>1. AnalysisSpec => []AnalysisInv
  BY AnalysisInitHolds, AnalysisNextKeeps, PTL DEF AnalysisSpec
<1> QED
  BY <1>1, AnalysisInvImplies, PTL

HIDE AnalysisAssumption

-----------------------------------------------------------------------------
(* WindowPresentation: the window lies on the screen in either mode, and a restart
   brings back what was recorded *)

Geometries == [at : Int, len : Nat \ {0}]

(* The members, and how the persisted keys follow them: a key is there once the     *)
(* member was recorded, and a normal geometry that load() has refused was not        *)
(* plausible.  Without the second half nothing would say what a restart brings back. *)
WindowInv ==
  /\ presentation \in [mode : {"normal", "mini"}, normal : Geometries, hasNormal : BOOLEAN,
                       mini : Int, hasMini : BOOLEAN]
  /\ windowSettings \in [current : {TRUE}, mode : {"normal", "mini"},
                         normal : {{}} \cup {{g} : g \in Geometries},
                         mini : {{}} \cup {{at} : at \in Int}]
  /\ windowSettings.mode = presentation.mode
  /\ windowSettings.mini = IF presentation.hasMini THEN {presentation.mini} ELSE {}
  /\ ~presentation.hasMini => presentation.mini = 0
  /\ presentation.hasNormal => windowSettings.normal = {presentation.normal}
  /\ ~presentation.hasNormal =>
       /\ presentation.normal = Defaults.normal
       /\ \A g \in windowSettings.normal : ~IsPlausible(g)
  /\ screen \in Screens

USE WindowAssumption

(* Every screen and every window the user leaves is a geometry. *)
LEMMA DomainsTyped ==
  /\ Windows \subseteq Geometries /\ Screens \subseteq Geometries
  BY DEF Geometries

(* clampGeometry() yields a geometry within the area it is given. *)
LEMMA ClampInside ==
  ASSUME NEW g \in Geometries, NEW minimum \in Nat \ {0}, NEW area \in Geometries
  PROVE  /\ ClampGeometry(g, minimum, area) \in Geometries
         /\ Inside(ClampGeometry(g, minimum, area), area)
  BY DEF ClampGeometry, Inside, Geometry, Geometries, Clamp, Smaller

(* centered() yields a geometry. *)
LEMMA CenteredTyped ==
  ASSUME NEW size \in Nat \ {0}, NEW area \in Geometries
  PROVE  Centered(size, area) \in Geometries
  BY DEF Centered, Geometry, Geometries, Smaller

-----------------------------------------------------------------------------
(* What the invariant promises. *)

(* A restart finds what was recorded last, unless it was implausible. *)
LEMMA RestoresRecorded ==
  ASSUME WindowInv
  PROVE  /\ Loaded(windowSettings) \in
              [mode : {"normal", "mini"}, normal : Geometries, hasNormal : BOOLEAN,
               mini : Int, hasMini : BOOLEAN]
         /\ Loaded(windowSettings).mode = presentation.mode
         /\ Loaded(windowSettings).mini = presentation.mini
         /\ Loaded(windowSettings).hasMini = presentation.hasMini
         /\ Loaded(windowSettings).hasNormal =
              (presentation.hasNormal /\ IsPlausible(presentation.normal))
         /\ Loaded(windowSettings).normal =
              IF presentation.hasNormal /\ IsPlausible(presentation.normal)
              THEN presentation.normal ELSE Defaults.normal
<1> DEFINE kept == {g \in windowSettings.normal : IsPlausible(g)}
<1>1. windowSettings.current /\ windowSettings.mode = presentation.mode
      /\ presentation.mode \in {"normal", "mini"}
  BY DEF WindowInv
<1>2. kept = IF presentation.hasNormal /\ IsPlausible(presentation.normal)
             THEN {presentation.normal} ELSE {}
  <2>1. CASE presentation.hasNormal
    BY <2>1 DEF WindowInv
  <2>2. CASE ~presentation.hasNormal
    BY <2>2 DEF WindowInv
  <2> QED
    BY <2>1, <2>2
<1>3. presentation.normal \in Geometries /\ Defaults.normal \in Geometries
      /\ presentation.mini \in Int /\ presentation.hasMini \in BOOLEAN
      /\ presentation.hasNormal \in BOOLEAN
  BY DEF WindowInv, Defaults, Geometry, Geometries
<1>4. (kept = {}) = ~(presentation.hasNormal /\ IsPlausible(presentation.normal))
  BY <1>2
<1>5. kept # {} => (CHOOSE g \in kept : TRUE) = presentation.normal
  BY <1>2
<1>6. (windowSettings.mini = {}) = ~presentation.hasMini
      /\ (presentation.hasMini => (CHOOSE p \in windowSettings.mini : TRUE) = presentation.mini)
      /\ (~presentation.hasMini => presentation.mini = 0)
  BY <1>3 DEF WindowInv
<1>7. Loaded(windowSettings) =
        [mode |-> windowSettings.mode,
         normal |-> IF kept = {} THEN Defaults.normal ELSE CHOOSE g \in kept : TRUE,
         hasNormal |-> kept # {},
         mini |-> IF windowSettings.mini = {} THEN 0
                  ELSE CHOOSE p \in windowSettings.mini : TRUE,
         hasMini |-> windowSettings.mini # {}]
  BY <1>1 DEF Loaded
<1> DEFINE normal == IF kept = {} THEN Defaults.normal ELSE CHOOSE g \in kept : TRUE
           mini == IF windowSettings.mini = {} THEN 0
                   ELSE CHOOSE p \in windowSettings.mini : TRUE
<1>8. /\ normal = IF presentation.hasNormal /\ IsPlausible(presentation.normal)
                  THEN presentation.normal ELSE Defaults.normal
      /\ mini = presentation.mini
  BY <1>3, <1>4, <1>5, <1>6
<1>9. normal \in Geometries /\ mini \in Int
  BY <1>3, <1>8
<1> HIDE DEF kept, normal, mini
<1>10. Loaded(windowSettings) =
         [mode |-> windowSettings.mode, normal |-> normal, hasNormal |-> kept # {},
          mini |-> mini, hasMini |-> windowSettings.mini # {}]
  BY <1>7 DEF normal, mini
<1>11. /\ Loaded(windowSettings).mode = presentation.mode
       /\ Loaded(windowSettings).mini = presentation.mini
       /\ Loaded(windowSettings).normal = normal
       /\ Loaded(windowSettings).hasMini = (windowSettings.mini # {})
       /\ Loaded(windowSettings).hasNormal = (kept # {})
  BY <1>1, <1>8, <1>10
<1>12. Loaded(windowSettings) \in
         [mode : {"normal", "mini"}, normal : Geometries, hasNormal : BOOLEAN,
          mini : Int, hasMini : BOOLEAN]
  BY <1>1, <1>9, <1>10
<1> QED
  BY <1>3, <1>4, <1>6, <1>8, <1>11, <1>12

LEMMA WindowInvImplies == WindowInv => WindowTypeOK /\ WindowOnScreen
<1> SUFFICES ASSUME WindowInv PROVE WindowTypeOK /\ WindowOnScreen
  OBVIOUS
<1>1. screen \in Geometries /\ presentation.normal \in Geometries /\ presentation.mini \in Int
  BY DomainsTyped DEF WindowInv
<1>2. Inside(NormalGeometryFor(presentation, screen), screen)
  <2>1. Centered(DefaultNormal, screen) \in Geometries
    BY <1>1, CenteredTyped
  <2> QED
    BY <1>1, <2>1, ClampInside DEF NormalGeometryFor
<1>3. Inside(MiniPlayerGeometryFor(presentation, screen), screen)
  <2>1. Centered(MiniSize, screen) \in Geometries
    BY <1>1, CenteredTyped
  <2>2. Geometry(presentation.mini, MiniSize) \in Geometries
    BY <1>1 DEF Geometry, Geometries
  <2> QED
    BY <1>1, <2>1, <2>2, ClampInside DEF MiniPlayerGeometryFor
<1>4. IsPlausible(presentation.normal) =>
        Loaded(windowSettings).normal = presentation.normal
  BY RestoresRecorded DEF WindowInv
<1>5. Cardinality(windowSettings.normal) <= 1 /\ Cardinality(windowSettings.mini) <= 1
  <2>1. \A x : Cardinality({x}) = 1
    BY FS_Singleton
  <2>2. Cardinality({}) = 0
    BY FS_EmptySet
  <2>3. windowSettings.normal = {} \/ \E g : windowSettings.normal = {g}
    BY DEF WindowInv
  <2>4. windowSettings.mini = {} \/ \E at : windowSettings.mini = {at}
    BY DEF WindowInv
  <2>5. Cardinality(windowSettings.normal) \in {0, 1}
    BY <2>1, <2>2, <2>3
  <2>6. Cardinality(windowSettings.mini) \in {0, 1}
    BY <2>1, <2>2, <2>4
  <2> QED
    BY <2>5, <2>6
<1>6. WindowTypeOK
  <2>1. presentation.mode \in {"normal", "mini"} /\ windowSettings.current /\ screen \in Screens
    BY DEF WindowInv
  <2>2. presentation.normal.len > 0
    BY <1>1 DEF Geometries
  <2> QED
    BY <1>5, <2>1, <2>2 DEF WindowTypeOK
<1> QED
  BY <1>2, <1>3, <1>4, <1>6, RestoresRecorded DEF WindowOnScreen

-----------------------------------------------------------------------------
(* The steps. *)

(* What record... and enter... persist: a presentation whose members are as they were *)
(* or newly recorded.                                                           *)
LEMMA PersistKeeps ==
  ASSUME WindowInv, NEW p, Persist(p),
         p \in [mode : {"normal", "mini"}, normal : Geometries, hasNormal : BOOLEAN,
                mini : Int, hasMini : BOOLEAN],
         p.hasNormal \/ (p.normal = presentation.normal /\ p.hasNormal = presentation.hasNormal),
         p.hasMini \/ (p.mini = presentation.mini /\ p.hasMini = presentation.hasMini)
  PROVE  WindowInv'
<1> DEFINE normal == IF p.normal = presentation.normal /\ p.hasNormal = presentation.hasNormal
                     THEN windowSettings.normal ELSE {p.normal}
           mini == IF p.mini = presentation.mini /\ p.hasMini = presentation.hasMini
                   THEN windowSettings.mini ELSE {p.mini}
<1>1. presentation' = p /\ screen' = screen
      /\ windowSettings' = [current |-> TRUE, mode |-> p.mode, normal |-> normal, mini |-> mini]
  BY DEF Persist
<1>2. normal \in {{}} \cup {{g} : g \in Geometries}
      /\ mini \in {{}} \cup {{at} : at \in Int}
  BY DEF WindowInv
<1>3. mini = IF p.hasMini THEN {p.mini} ELSE {}
  BY DEF WindowInv
<1>4. ~p.hasMini => p.mini = 0
  BY DEF WindowInv
<1>5. p.hasNormal => normal = {p.normal}
  BY DEF WindowInv
<1>6. ~p.hasNormal => p.normal = Defaults.normal /\ \A g \in normal : ~IsPlausible(g)
  BY DEF WindowInv
<1>7. windowSettings' \in [current : {TRUE}, mode : {"normal", "mini"},
                           normal : {{}} \cup {{g} : g \in Geometries},
                           mini : {{}} \cup {{at} : at \in Int}]
  BY <1>1, <1>2
<1>8. windowSettings'.mode = p.mode /\ windowSettings'.normal = normal
      /\ windowSettings'.mini = mini
  BY <1>1
<1> HIDE DEF normal, mini
<1> QED
  BY <1>1, <1>3, <1>4, <1>5, <1>6, <1>7, <1>8 DEF WindowInv

(* The members recordNormalGeometry() and recordMiniPlayerPosition() leave. *)
LEMMA Recorded ==
  ASSUME WindowInv, NEW g \in Geometries
  PROVE  /\ WithNormal(presentation, g) \in
              [mode : {"normal", "mini"}, normal : Geometries, hasNormal : BOOLEAN,
               mini : Int, hasMini : BOOLEAN]
         /\ WithNormal(presentation, g) = presentation \/ WithNormal(presentation, g).hasNormal
         /\ WithNormal(presentation, g).mini = presentation.mini
         /\ WithNormal(presentation, g).hasMini = presentation.hasMini
<1>1. ClampGeometry(g, MinimumNormal, screen) \in Geometries
  BY ClampInside, DomainsTyped DEF WindowInv
<1> QED
  BY <1>1 DEF WindowInv, WithNormal

LEMMA RecordedMini ==
  ASSUME WindowInv, NEW at \in Int, NEW p,
         p \in [mode : {"normal", "mini"}, normal : Geometries, hasNormal : BOOLEAN,
                mini : Int, hasMini : BOOLEAN]
  PROVE  /\ WithMini(p, at) \in
              [mode : {"normal", "mini"}, normal : Geometries, hasNormal : BOOLEAN,
               mini : Int, hasMini : BOOLEAN]
         /\ WithMini(p, at).hasMini
         /\ WithMini(p, at).normal = p.normal /\ WithMini(p, at).hasNormal = p.hasNormal
<1>1. Geometry(at, MiniSize) \in Geometries
  BY DEF Geometry, Geometries
<1>2. ClampGeometry(Geometry(at, MiniSize), MiniSize, screen).at \in Int
  BY <1>1, ClampInside, DomainsTyped DEF WindowInv, Geometries
<1> QED
  BY <1>2 DEF WithMini

LEMMA EnterKeeps ==
  ASSUME WindowInv, NEW g \in Windows, EnterMiniPlayer(g)
  PROVE  WindowInv'
<1> DEFINE r == WithNormal(presentation, g)
           q == WithMini(r, g.at)
           p == [q EXCEPT !.mode = "mini"]
<1>1. g \in Geometries /\ g.at \in Int
  BY DomainsTyped DEF Geometries
<1>2. /\ r \in [mode : {"normal", "mini"}, normal : Geometries, hasNormal : BOOLEAN,
                mini : Int, hasMini : BOOLEAN]
      /\ r = presentation \/ r.hasNormal
  BY <1>1, Recorded
<1> HIDE DEF r
<1>3. /\ q \in [mode : {"normal", "mini"}, normal : Geometries, hasNormal : BOOLEAN,
                mini : Int, hasMini : BOOLEAN]
      /\ q.hasMini /\ q.normal = r.normal /\ q.hasNormal = r.hasNormal
  BY <1>1, <1>2, RecordedMini
<1> HIDE DEF q
<1>4. /\ p \in [mode : {"normal", "mini"}, normal : Geometries, hasNormal : BOOLEAN,
                mini : Int, hasMini : BOOLEAN]
      /\ p.hasMini /\ p.normal = r.normal /\ p.hasNormal = r.hasNormal
  BY <1>3
<1>5. Persist(p)
  BY DEF EnterMiniPlayer, q, r
<1> HIDE DEF p
<1> QED
  BY <1>2, <1>4, <1>5, PersistKeeps

LEMMA RestoreKeeps ==
  ASSUME WindowInv, RestoreFullPlayer
  PROVE  WindowInv'
<1> DEFINE p == [presentation EXCEPT !.mode = "normal"]
<1>1. /\ p \in [mode : {"normal", "mini"}, normal : Geometries, hasNormal : BOOLEAN,
                mini : Int, hasMini : BOOLEAN]
      /\ p.normal = presentation.normal /\ p.hasNormal = presentation.hasNormal
      /\ p.mini = presentation.mini /\ p.hasMini = presentation.hasMini
  BY DEF WindowInv
<1>2. Persist(p)
  BY DEF RestoreFullPlayer
<1> HIDE DEF p
<1> QED
  BY <1>1, <1>2, PersistKeeps

LEMMA RecordKeeps ==
  ASSUME WindowInv, NEW g \in Windows, RecordNormalGeometry(g)
  PROVE  WindowInv'
<1> DEFINE p == WithNormal(presentation, g)
<1>1. /\ p \in [mode : {"normal", "mini"}, normal : Geometries, hasNormal : BOOLEAN,
                mini : Int, hasMini : BOOLEAN]
      /\ p = presentation \/ p.hasNormal
      /\ p.mini = presentation.mini /\ p.hasMini = presentation.hasMini
  BY Recorded, DomainsTyped
<1>2. Persist(p)
  BY DEF RecordNormalGeometry
<1> HIDE DEF p
<1> QED
  BY <1>1, <1>2, PersistKeeps

LEMMA RecordMiniKeeps ==
  ASSUME WindowInv, NEW g \in Windows, RecordMiniPlayerPosition(g)
  PROVE  WindowInv'
<1> DEFINE p == WithMini(presentation, g.at)
<1>1. g.at \in Int
  BY DomainsTyped DEF Geometries
<1>2. /\ p \in [mode : {"normal", "mini"}, normal : Geometries, hasNormal : BOOLEAN,
                mini : Int, hasMini : BOOLEAN]
      /\ p.hasMini /\ p.normal = presentation.normal /\ p.hasNormal = presentation.hasNormal
  BY <1>1, RecordedMini DEF WindowInv
<1>3. Persist(p)
  BY DEF RecordMiniPlayerPosition
<1> HIDE DEF p
<1> QED
  BY <1>2, <1>3, PersistKeeps

LEMMA DefaultsAgree ==
  /\ Defaults \in [mode : {"normal", "mini"}, normal : Geometries, hasNormal : BOOLEAN,
                   mini : Int, hasMini : BOOLEAN]
  /\ DefaultSettings \in [current : {TRUE}, mode : {"normal", "mini"},
                          normal : {{}} \cup {{g} : g \in Geometries},
                          mini : {{}} \cup {{at} : at \in Int}]
  /\ DefaultSettings.mode = "normal" /\ DefaultSettings.normal = {} /\ DefaultSettings.mini = {}
  /\ Defaults.mode = "normal" /\ Defaults.hasNormal = FALSE /\ Defaults.hasMini = FALSE
  /\ Defaults.mini = 0
<1>1. Defaults \in [mode : {"normal", "mini"}, normal : Geometries, hasNormal : BOOLEAN,
                    mini : Int, hasMini : BOOLEAN]
  BY DEF Defaults, Geometry, Geometries
<1>2. DefaultSettings \in [current : {TRUE}, mode : {"normal", "mini"},
                           normal : {{}} \cup {{g} : g \in Geometries},
                           mini : {{}} \cup {{at} : at \in Int}]
  BY DEF DefaultSettings
<1>3. /\ DefaultSettings.mode = "normal" /\ DefaultSettings.normal = {} /\ DefaultSettings.mini = {}
      /\ Defaults.mode = "normal" /\ Defaults.hasNormal = FALSE /\ Defaults.hasMini = FALSE
      /\ Defaults.mini = 0
  BY DEF Defaults, DefaultSettings
<1> QED
  BY <1>1, <1>2, <1>3

(* load() of any settings of this version leaves members that agree with them. *)
LEMMA LoadAgrees ==
  ASSUME NEW s \in [current : {TRUE}, mode : {"normal", "mini"},
                    normal : {{}} \cup {{g} : g \in Geometries},
                    mini : {{}} \cup {{at} : at \in Int}]
  PROVE  /\ Loaded(s) \in [mode : {"normal", "mini"}, normal : Geometries,
                            hasNormal : BOOLEAN, mini : Int, hasMini : BOOLEAN]
         /\ s.mode = Loaded(s).mode
         /\ s.mini = IF Loaded(s).hasMini THEN {Loaded(s).mini} ELSE {}
         /\ ~Loaded(s).hasMini => Loaded(s).mini = 0
         /\ Loaded(s).hasNormal => s.normal = {Loaded(s).normal}
         /\ ~Loaded(s).hasNormal =>
              /\ Loaded(s).normal = Defaults.normal
              /\ \A g \in s.normal : ~IsPlausible(g)
<1> DEFINE kept == {g \in s.normal : IsPlausible(g)}
           normal == IF kept = {} THEN Defaults.normal ELSE CHOOSE g \in kept : TRUE
           mini == IF s.mini = {} THEN 0 ELSE CHOOSE p \in s.mini : TRUE
<1>1. Loaded(s) = [mode |-> s.mode, normal |-> normal, hasNormal |-> kept # {},
                       mini |-> mini, hasMini |-> s.mini # {}]
  BY DEF Loaded
<1>2. Defaults.normal \in Geometries
  BY DEF Defaults, Geometry, Geometries
<1>3. kept # {} => normal \in Geometries /\ s.normal = {normal}
  <2>1. ASSUME NEW g \in Geometries, s.normal = {g}, kept # {} PROVE normal = g
    BY <2>1
  <2> QED
    BY <2>1
<1>4. kept = {} => normal = Defaults.normal /\ \A g \in s.normal : ~IsPlausible(g)
  OBVIOUS
<1>5. mini \in Int /\ s.mini = (IF s.mini # {} THEN {mini} ELSE {}) /\ (s.mini = {} => mini = 0)
  OBVIOUS
<1> HIDE DEF kept, normal, mini
<1>6. /\ Loaded(s).mode = s.mode /\ Loaded(s).normal = normal
      /\ Loaded(s).hasNormal = (kept # {})
      /\ Loaded(s).mini = mini /\ Loaded(s).hasMini = (s.mini # {})
      /\ s.mode \in {"normal", "mini"}
  BY <1>1
<1>7. Loaded(s) \in [mode : {"normal", "mini"}, normal : Geometries, hasNormal : BOOLEAN,
                         mini : Int, hasMini : BOOLEAN]
  BY <1>1, <1>2, <1>3, <1>4, <1>5, <1>6
<1> QED
  BY <1>3, <1>4, <1>5, <1>6, <1>7

LEMMA WindowRestartKeeps ==
  ASSUME WindowInv, RestartWindow
  PROVE  WindowInv'
<1>1. windowSettings' = windowSettings /\ screen' = screen
      /\ presentation' = Loaded(windowSettings)
  BY DEF WindowInv, RestartWindow, SettingsAfterLoad
<1>2. windowSettings \in [current : {TRUE}, mode : {"normal", "mini"},
                          normal : {{}} \cup {{g} : g \in Geometries},
                          mini : {{}} \cup {{at} : at \in Int}]
      /\ screen \in Screens
  BY DEF WindowInv
<1> QED
  BY <1>1, <1>2, LoadAgrees DEF WindowInv

(* Every step keeps the invariant. *)
LEMMA WindowNextKeeps == WindowInv /\ [WindowNext]_windowVars => WindowInv'
<1> SUFFICES ASSUME WindowInv, [WindowNext]_windowVars PROVE WindowInv'
  OBVIOUS
<1>1. CASE ResetToDefaults
  BY <1>1, DefaultsAgree DEF ResetToDefaults, WindowInv
<1>2. ASSUME NEW area \in Screens, ChangeScreen(area) PROVE WindowInv'
  BY <1>2 DEF ChangeScreen, WindowInv
<1>3. CASE UNCHANGED windowVars
  BY <1>3 DEF windowVars, WindowInv
<1> QED
  BY <1>1, <1>2, <1>3, EnterKeeps, RestoreKeeps, RecordKeeps, RecordMiniKeeps, WindowRestartKeeps
     DEF WindowNext
(* Whatever settings another version or screen has left. *)
LEMMA WindowInitHolds == WindowInit => WindowInv
<1> SUFFICES ASSUME WindowInit PROVE WindowInv
  OBVIOUS
<1>1. PICK current \in BOOLEAN, mode \in {"normal", "mini"},
           normal \in {{}} \cup {{g} : g \in Windows},
           mini \in {{}} \cup {{g.at} : g \in Windows} :
        LET s == [current |-> current, mode |-> mode, normal |-> normal, mini |-> mini]
        IN  presentation = Loaded(s) /\ windowSettings = SettingsAfterLoad(s)
  BY DEF WindowInit
<1> DEFINE s == [current |-> current, mode |-> mode, normal |-> normal, mini |-> mini]
<1>2. screen \in Screens
  BY DEF WindowInit
<1>3. CASE current
  <2>1. normal \in {{}} \cup {{g} : g \in Geometries}
    BY DomainsTyped
  <2>2. mini \in {{}} \cup {{at} : at \in Int}
    BY DomainsTyped DEF Geometries
  <2>3. s \in [current : {TRUE}, mode : {"normal", "mini"},
               normal : {{}} \cup {{g} : g \in Geometries},
               mini : {{}} \cup {{at} : at \in Int}]
    BY <1>3, <2>1, <2>2
  <2>4. presentation = Loaded(s) /\ windowSettings = s
    BY <1>1, <1>3 DEF SettingsAfterLoad
  <2> HIDE DEF s
  <2> QED
    BY <1>2, <2>3, <2>4, LoadAgrees DEF WindowInv
<1>4. CASE ~current
  <2>1. presentation = Defaults /\ windowSettings = DefaultSettings
    BY <1>1, <1>4 DEF SettingsAfterLoad, Loaded
  <2> QED
    BY <1>2, <2>1, DefaultsAgree DEF WindowInv
<1> QED
  BY <1>3, <1>4

(* Every variable of the window stays in its domain, for all sizes and screens. *)
THEOREM WindowTyped == WindowSpec => []WindowTypeOK
<1>1. WindowSpec => []WindowInv
  BY WindowInitHolds, WindowNextKeeps, PTL DEF WindowSpec
<1> QED
  BY <1>1, WindowInvImplies, PTL

(* The window lies on the screen in either mode, and a restart restores what was     *)
(* recorded (WindowPresentationController::clampGeometry(), load()), whatever          *)
(* screens and geometries come one after the other.                                *)
THEOREM WindowStaysOnScreen == WindowSpec => []WindowOnScreen
<1>1. WindowSpec => []WindowInv
  BY WindowInitHolds, WindowNextKeeps, PTL DEF WindowSpec
<1> QED
  BY <1>1, WindowInvImplies, PTL

HIDE WindowAssumption

-----------------------------------------------------------------------------
(* LibraryView: the rows on display are those of the database *)

USE ViewAssumption

(* The scanning flag is only ever set beside a scan, and what ends the scan clears it. *)
ViewInv ==
  /\ viewScanning \in BOOLEAN /\ scanOfFolders \in BOOLEAN /\ rescanPending \in BOOLEAN
  /\ unread \in BOOLEAN /\ unstarted \in BOOLEAN
  /\ storedRows \in Nat /\ storedRows <= MaxVersions
  /\ viewRows \in Nat /\ viewRows <= storedRows
  /\ indexedFolders \in SUBSET Folders
  /\ indexerScan \in {"idle", "running", "finished"}
  /\ LibraryShown

(* The invariant says what the variables range over, and what the view shows. *)
LEMMA ViewInvImplies == ViewInv => ViewTypeOK /\ LibraryShown
  BY DEF ViewInv, ViewTypeOK

(* It holds at the start. *)
LEMMA ViewInitHolds == ViewInit => ViewInv
<1> SUFFICES ASSUME ViewInit PROVE ViewInv
  OBVIOUS
<1>1. /\ viewScanning \in BOOLEAN /\ scanOfFolders \in BOOLEAN /\ rescanPending \in BOOLEAN
      /\ unread \in BOOLEAN /\ unstarted \in BOOLEAN
  BY DEF ViewInit
<1>4. LibraryShown
  BY DEF ViewInit, LibraryShown
<1>2. storedRows = 0 /\ viewRows = 0 /\ MaxVersions \in Nat
  BY DEF ViewInit
<1>3. indexedFolders \in SUBSET Folders /\ indexerScan \in {"idle", "running", "finished"}
  BY DEF ViewInit
<1> QED
  BY <1>1, <1>2, <1>3, <1>4 DEF ViewInv

(* A folder is added, *)
LEMMA AddFolderKeeps ==
  ASSUME ViewInv, NEW f \in Folders, AddFolder(f)
  PROVE  ViewInv'
<1>1. /\ viewScanning' \in BOOLEAN /\ scanOfFolders' \in BOOLEAN
      /\ rescanPending' \in BOOLEAN
  BY DEF ViewInv, AddFolder, StartsScan
<1>2. unread' \in BOOLEAN /\ unstarted' \in BOOLEAN
  BY DEF ViewInv, AddFolder, StartsScan
<1>3. /\ storedRows' \in Nat /\ storedRows' <= MaxVersions
      /\ viewRows' \in Nat /\ viewRows' <= storedRows'
  BY DEF ViewInv, AddFolder, StartsScan
<1>4. indexedFolders' \in SUBSET Folders /\ indexerScan' \in {"idle", "running", "finished"}
  BY DEF ViewInv, AddFolder, StartsScan
<1>5. LibraryShown'
  BY DEF ViewInv, LibraryShown, AddFolder, StartsScan
<1> QED
  BY <1>1, <1>2, <1>3, <1>4, <1>5 DEF ViewInv

(* or removed with its rows, *)
LEMMA RemoveFolderKeeps ==
  ASSUME ViewInv, NEW f \in Folders, RemoveFolder(f)
  PROVE  ViewInv'
<1>1. /\ viewScanning' \in BOOLEAN /\ scanOfFolders' \in BOOLEAN
      /\ rescanPending' \in BOOLEAN
  BY DEF ViewInv, RemoveFolder, StartsScan, Reload
<1>2. unread' \in BOOLEAN /\ unstarted' \in BOOLEAN
  BY DEF ViewInv, RemoveFolder, StartsScan, Reload
<1>3. /\ storedRows' \in Nat /\ storedRows' <= MaxVersions
      /\ viewRows' \in Nat /\ viewRows' <= storedRows'
  BY DEF ViewInv, RemoveFolder, StartsScan, Reload
<1>4. indexedFolders' \in SUBSET Folders /\ indexerScan' \in {"idle", "running", "finished"}
  BY DEF ViewInv, RemoveFolder, StartsScan, Reload
<1>5. LibraryShown'
  BY DEF ViewInv, LibraryShown, RemoveFolder, StartsScan, Reload
<1> QED
  BY <1>1, <1>2, <1>3, <1>4, <1>5 DEF ViewInv

(* or was not there. *)
LEMMA RemoveUnknownFolderKeeps ==
  ASSUME ViewInv, NEW f \in Folders, RemoveUnknownFolder(f)
  PROVE  ViewInv'
<1>1. /\ viewScanning' \in BOOLEAN /\ scanOfFolders' \in BOOLEAN
      /\ rescanPending' \in BOOLEAN
  BY DEF ViewInv, RemoveUnknownFolder, Reload
<1>2. unread' \in BOOLEAN /\ unstarted' \in BOOLEAN
  BY DEF ViewInv, RemoveUnknownFolder, Reload
<1>3. /\ storedRows' \in Nat /\ storedRows' <= MaxVersions
      /\ viewRows' \in Nat /\ viewRows' <= storedRows'
  BY DEF ViewInv, RemoveUnknownFolder, Reload
<1>4. indexedFolders' \in SUBSET Folders /\ indexerScan' \in {"idle", "running", "finished"}
  BY DEF ViewInv, RemoveUnknownFolder, Reload
<1>5. LibraryShown'
  BY DEF ViewInv, LibraryShown, RemoveUnknownFolder, Reload
<1> QED
  BY <1>1, <1>2, <1>3, <1>4, <1>5 DEF ViewInv

(* A scan starts, or is noted for later. *)
LEMMA RescanNowKeeps ==
  ASSUME ViewInv, NEW byUser \in BOOLEAN, RescanNow(byUser)
  PROVE  ViewInv'
<1>1. /\ viewScanning' \in BOOLEAN /\ scanOfFolders' \in BOOLEAN
      /\ rescanPending' \in BOOLEAN
  BY DEF ViewInv, RescanNow, StartsScan
<1>2. unread' \in BOOLEAN /\ unstarted' \in BOOLEAN
  BY DEF ViewInv, RescanNow, StartsScan
<1>3. /\ storedRows' \in Nat /\ storedRows' <= MaxVersions
      /\ viewRows' \in Nat /\ viewRows' <= storedRows'
  BY DEF ViewInv, RescanNow, StartsScan
<1>4. indexedFolders' \in SUBSET Folders /\ indexerScan' \in {"idle", "running", "finished"}
  BY DEF ViewInv, RescanNow, StartsScan
<1>5. LibraryShown'
  BY DEF ViewInv, LibraryShown, RescanNow, StartsScan
<1> QED
  BY <1>1, <1>2, <1>3, <1>4, <1>5 DEF ViewInv

(* The scan ends in its thread. *)
LEMMA ScanFinishesKeeps ==
  ASSUME ViewInv, ScanFinishes
  PROVE  ViewInv'
  BY DEF ViewInv, LibraryShown, ScanFinishes

(* Its result is out of date, *)
LEMMA DiscardScanKeeps ==
  ASSUME ViewInv, DiscardScan
  PROVE  ViewInv'
<1>1. /\ viewScanning' \in BOOLEAN /\ scanOfFolders' \in BOOLEAN
      /\ rescanPending' \in BOOLEAN
  BY DEF ViewInv, DiscardScan
<1>2. unread' \in BOOLEAN /\ unstarted' \in BOOLEAN
  BY DEF ViewInv, DiscardScan
<1>3. /\ storedRows' \in Nat /\ storedRows' <= MaxVersions
      /\ viewRows' \in Nat /\ viewRows' <= storedRows'
  BY DEF ViewInv, DiscardScan
<1>4. indexedFolders' \in SUBSET Folders /\ indexerScan' \in {"idle", "running", "finished"}
  BY DEF ViewInv, DiscardScan
<1>5. LibraryShown'
  BY DEF ViewInv, LibraryShown, DiscardScan
<1> QED
  BY <1>1, <1>2, <1>3, <1>4, <1>5 DEF ViewInv

(* or is applied, and the view reloads. *)
LEMMA ApplyScanKeeps ==
  ASSUME ViewInv, ApplyScan
  PROVE  ViewInv'
<1>1. /\ viewScanning' \in BOOLEAN /\ scanOfFolders' \in BOOLEAN
      /\ rescanPending' \in BOOLEAN
  BY DEF ViewInv, ApplyScan, Reload
<1>2. unread' \in BOOLEAN /\ unstarted' \in BOOLEAN
  BY DEF ViewInv, ApplyScan, Reload
<1>3. /\ storedRows' \in Nat /\ storedRows' <= MaxVersions
      /\ viewRows' \in Nat /\ viewRows' <= storedRows'
  BY DEF ViewInv, ApplyScan, Reload
<1>4. indexedFolders' \in SUBSET Folders /\ indexerScan' \in {"idle", "running", "finished"}
  BY DEF ViewInv, ApplyScan, Reload
<1>5. LibraryShown'
  BY DEF ViewInv, LibraryShown, ApplyScan, Reload
<1> QED
  BY <1>1, <1>2, <1>3, <1>4, <1>5 DEF ViewInv

(* Every step keeps the invariant. *)
LEMMA ViewStepKeeps == ViewInv /\ [ViewNext]_viewVars => ViewInv'
<1> SUFFICES ASSUME ViewInv, [ViewNext]_viewVars PROVE ViewInv'
  OBVIOUS
<1>1. CASE UNCHANGED viewVars
  BY <1>1 DEF viewVars, ViewInv, LibraryShown
<1>2. CASE ViewNext
  BY <1>2, AddFolderKeeps, RemoveFolderKeeps, RemoveUnknownFolderKeeps, RescanNowKeeps,
     ScanFinishesKeeps, DiscardScanKeeps, ApplyScanKeeps DEF ViewNext
<1> QED
  BY <1>1, <1>2

(* The rows on display are those of the database unless the last reload() failed, and *)
(* the interface says that it scans while nothing does only after an addFolder() that *)
(* started no scan (LibraryController.cpp).                                           *)
THEOREM ViewIsCurrent == ViewSpec => [](ViewTypeOK /\ LibraryShown)
<1> QED
  BY ViewInitHolds, ViewStepKeeps, ViewInvImplies, PTL DEF ViewSpec

HIDE ViewAssumption

-----------------------------------------------------------------------------
(* RadioDirectory: the page of stations says that it is loading exactly while one
   lookup, single shot or reply will still answer its last request *)

(* Who asked, and the thunks that ensureMirrors() is given. *)
RequestAskers == [generation : Nat, key : Keys]
FetchThunks == [what : {"fetch"}, generation : Nat, asker : RequestAskers]
Thunks == {ClickThunk} \cup FetchThunks
Replies == [generation : Nat, asker : RequestAskers, mirror : Nat]

(* The two generations of a fetch are current together or stale together, and a   *)
(* current one was asked under the key of the last request: request() advances     *)
(* both, and so does cancel().                                               *)
Honest(t, client, directory, key) ==
  /\ t.generation <= client /\ t.asker.generation <= directory
  /\ t.generation = client <=> t.asker.generation = directory
  /\ t.generation = client => t.asker.key = key

HonestThunks(thunks, client, directory, key) ==
  \A i \in 1..Len(thunks) :
    thunks[i] # ClickThunk => Honest(thunks[i], client, directory, key)

(* The fetches of a list that are current *)
Paths(thunks, client) ==
  {i \in 1..Len(thunks) : thunks[i] # ClickThunk /\ thunks[i].generation = client}

RadioTyped ==
  /\ mirrors \in Nat /\ clientGeneration \in Nat /\ directoryGeneration \in Nat
  /\ pendingClicks \in Nat /\ clicks \in Nat
  /\ dnsLookup \in BOOLEAN /\ staleShown \in BOOLEAN /\ directoryError \in BOOLEAN
  /\ loadingStations \in BOOLEAN
  /\ mirrorWaiters \in Seq(Thunks) /\ mirrorPosts \in Seq(Thunks)
  /\ radioReplies \in SUBSET Replies
  /\ shownOf \in Keys \cup {Nothing} /\ askedFor \in Keys \cup {Nothing}

ShownIsAskedFor ==
  /\ shownOf \in {Nothing, askedFor}
  /\ stationCache = [k \in Keys |-> [of |-> stationCache[k].of, stale |-> stationCache[k].stale]]
  /\ \A k \in Keys : stationCache[k].of \in {Nothing, k} /\ stationCache[k].stale \in BOOLEAN

GenerationsAgree ==
  /\ HonestThunks(mirrorWaiters, clientGeneration, directoryGeneration, askedFor)
  /\ HonestThunks(mirrorPosts, clientGeneration, directoryGeneration, askedFor)
  /\ \A r \in radioReplies : /\ r.generation = clientGeneration
                             /\ Honest(r, clientGeneration, directoryGeneration, askedFor)

(* One path, or none when the page does not load. *)
AtMostOne(S) == \A x, y \in S : x = y
One(waiting, called, replies) ==
  /\ AtMostOne(waiting) /\ AtMostOne(called) /\ AtMostOne(replies)
  /\ waiting = {} \/ called = {}
  /\ waiting = {} \/ replies = {}
  /\ called = {} \/ replies = {}
NoPath(waiting, called, replies) == waiting = {} /\ called = {} /\ replies = {}

OnePath ==
  LET waiting == Paths(mirrorWaiters, clientGeneration)
      called == Paths(mirrorPosts, clientGeneration)
  IN  /\ One(waiting, called, radioReplies)
      /\ loadingStations <=> ~NoPath(waiting, called, radioReplies)

ClicksAreKept ==
  /\ mirrorWaiters # <<>> => dnsLookup
  /\ pendingClicks > 0 => \/ \E i \in 1..Len(mirrorWaiters) : mirrorWaiters[i] = ClickThunk
                          \/ \E i \in 1..Len(mirrorPosts) : mirrorPosts[i] = ClickThunk

StationsSaved ==
  /\ savedStations \in Seq(DirectoryStations \cup ImportedStations)
  /\ \A i, j \in 1..Len(savedStations) :
       savedStations[i].uuid = savedStations[j].uuid =>
         i = j \/ savedStations[i].uuid = Nothing
  /\ imports \in {0, 1}

RadioInv ==
  /\ RadioTyped /\ ShownIsAskedFor /\ GenerationsAgree /\ OnePath /\ ClicksAreKept
  /\ StationsSaved

USE RadioAssumption

-----------------------------------------------------------------------------
(* Facts about thunks and sequences of them *)

(* A thunk is the recording of a click or a fetch. *)
LEMMA FetchesAreNoClicks ==
  ASSUME NEW t \in Thunks
  PROVE  t = ClickThunk \/ (t \in FetchThunks /\ t # ClickThunk /\ t.what = "fetch")
<1>1. ASSUME t \in FetchThunks PROVE t # ClickThunk /\ t.what = "fetch"
  BY <1>1 DEF FetchThunks, ClickThunk
<1> QED
  BY <1>1 DEF Thunks

(* The click has a thunk of its own kind. *)
LEMMA ClickIsNoFetch == ClickThunk \in Thunks /\ ClickThunk.what # "fetch"
  BY DEF Thunks, ClickThunk

(* A fetch carries the generation of the client and its asker. *)
LEMMA FetchIsThunk ==
  ASSUME NEW g \in Nat, NEW a \in RequestAskers
  PROVE  /\ FetchThunk(g, a) \in Thunks /\ FetchThunk(g, a) # ClickThunk
         /\ FetchThunk(g, a).generation = g /\ FetchThunk(g, a).asker = a
<1>1. FetchThunk(g, a) \in FetchThunks
  BY DEF FetchThunk, FetchThunks
<1>2. FetchThunk(g, a).generation = g /\ FetchThunk(g, a).asker = a
  BY DEF FetchThunk
<1>3. FetchThunk(g, a).what = "fetch"
  BY DEF FetchThunk
<1>4. FetchThunk(g, a) # ClickThunk
  BY <1>3, ClickIsNoFetch
<1> QED
  BY <1>1, <1>2, <1>4 DEF Thunks

(* What a thunk or reply holds *)
LEMMA HoldsNumbers ==
  ASSUME NEW t, t \in FetchThunks \/ t \in Replies
  PROVE  /\ t.generation \in Nat /\ t.asker \in RequestAskers
         /\ t.asker.generation \in Nat /\ t.asker.key \in Keys
<1>1. CASE t \in FetchThunks
  BY <1>1 DEF FetchThunks, RequestAskers
<1>2. CASE t \in Replies
  BY <1>2 DEF Replies, RequestAskers
<1> QED
  BY <1>1, <1>2

(* Both generations advance: what was honest stays so, and nothing is current. *)
LEMMA StaleStaysHonest ==
  ASSUME NEW t, t \in FetchThunks \/ t \in Replies,
         NEW c \in Nat, NEW d \in Nat, NEW k, Honest(t, c, d, k),
         NEW cc \in Nat, NEW dd \in Nat, NEW kk, cc > c, dd > d
  PROVE  Honest(t, cc, dd, kk) /\ t.generation # cc
  BY HoldsNumbers DEF Honest

(* When both generations advance, every fetch that waits is stale. *)
LEMMA StaleThunks ==
  ASSUME NEW s \in Seq(Thunks), NEW c \in Nat, NEW d \in Nat, NEW k, HonestThunks(s, c, d, k),
         NEW cc \in Nat, NEW dd \in Nat, NEW kk, cc > c, dd > d
  PROVE  HonestThunks(s, cc, dd, kk) /\ Paths(s, cc) = {}
<1>1. ASSUME NEW i \in 1..Len(s), s[i] # ClickThunk
      PROVE  Honest(s[i], cc, dd, kk) /\ s[i].generation # cc
  <2>1. s[i] \in FetchThunks
    BY <1>1, ElementOfSeq, FetchesAreNoClicks
  <2> QED
    BY <2>1, <1>1, StaleStaysHonest DEF HonestThunks
<1> QED
  BY <1>1 DEF HonestThunks, Paths

(* A thunk more at the end; the first one less. *)
Appended(longer, s, t, c, d, k) ==
  /\ longer \in Seq(Thunks) /\ longer # <<>>
  /\ HonestThunks(longer, c, d, k)
  /\ t = ClickThunk => Paths(longer, c) = Paths(s, c)
  /\ t # ClickThunk /\ t.generation = c /\ Paths(s, c) = {} =>
       Paths(longer, c) = {Len(s) + 1}
  /\ \A i \in 1..Len(s) : i \in 1..Len(longer) /\ longer[i] = s[i]
  /\ Len(s) + 1 \in 1..Len(longer) /\ longer[Len(s) + 1] = t

(* One more thunk at the end of a list of honest ones *)
LEMMA AppendedThunk ==
  ASSUME NEW s \in Seq(Thunks), NEW t \in Thunks,
         NEW c, NEW d, NEW k, HonestThunks(s, c, d, k),
         t # ClickThunk => Honest(t, c, d, k)
  PROVE  Appended(Append(s, t), s, t, c, d, k)
<1>1. /\ Append(s, t) \in Seq(Thunks) /\ Len(Append(s, t)) = Len(s) + 1
      /\ Append(s, t) # <<>>
      /\ \A i \in 1..Len(s) : Append(s, t)[i] = s[i]
      /\ Append(s, t)[Len(s) + 1] = t
  BY AppendProperties
<1>2. Len(s) \in Nat
  BY LenProperties
<1>3. 1..(Len(s) + 1) = 1..Len(s) \cup {Len(s) + 1}
  BY <1>2
<1> QED
  BY <1>1, <1>2, <1>3 DEF HonestThunks, Paths, Appended

(* The rest of a list of honest thunks, and its fetches that are current *)
LEMMA TailThunks ==
  ASSUME NEW s \in Seq(Thunks), s # <<>>,
         NEW c \in Nat, NEW d \in Nat, NEW k, HonestThunks(s, c, d, k)
  PROVE  /\ Head(s) \in Thunks /\ Head(s) = s[1] /\ Tail(s) \in Seq(Thunks)
         /\ 1 \in 1..Len(s)
         /\ HonestThunks(Tail(s), c, d, k)
         /\ Paths(Tail(s), c) = {i \in 1..(Len(s) - 1) : i + 1 \in Paths(s, c)}
         /\ \A i \in 1..Len(s) : i = 1 \/ (i - 1 \in 1..Len(Tail(s)) /\ Tail(s)[i - 1] = s[i])
<1>1. /\ Head(s) \in Thunks /\ Tail(s) \in Seq(Thunks) /\ Len(Tail(s)) = Len(s) - 1
      /\ \A i \in 1..Len(Tail(s)) : Tail(s)[i] = s[i + 1]
  BY HeadTailProperties
<1>2. Len(s) \in Nat \ {0}
  BY EmptySeq
<1>3. Head(s) = s[1]
  OBVIOUS
<1>4. \A i \in 1..(Len(s) - 1) : i + 1 \in 1..Len(s)
  BY <1>2
<1>5. ASSUME NEW i \in 1..Len(s), i # 1
      PROVE  i - 1 \in 1..Len(Tail(s)) /\ Tail(s)[i - 1] = s[i]
  <2>1. i - 1 \in 1..Len(Tail(s)) /\ (i - 1) + 1 = i
    BY <1>1, <1>2, <1>5
  <2> QED
    BY <2>1, <1>1
<1>6. HonestThunks(Tail(s), c, d, k)
  BY <1>1, <1>4 DEF HonestThunks
<1>7. Paths(Tail(s), c) = {i \in 1..(Len(s) - 1) : i + 1 \in Paths(s, c)}
  BY <1>1, <1>4 DEF Paths
<1> QED
  BY <1>1, <1>2, <1>3, <1>5, <1>6, <1>7

-----------------------------------------------------------------------------
(* What an action keeps, when the client and the page keep their generations *)

(* What only the page reads stays right in a step that leaves the page alone, *)
LEMMA PageKeeps ==
  ASSUME RadioInv, UNCHANGED directoryVars
  PROVE  /\ ShownIsAskedFor'
         /\ directoryGeneration' \in Nat /\ loadingStations' \in BOOLEAN
         /\ staleShown' \in BOOLEAN /\ directoryError' \in BOOLEAN
         /\ shownOf' \in Keys \cup {Nothing} /\ askedFor' \in Keys \cup {Nothing}
<1>1. /\ UNCHANGED directoryGeneration /\ UNCHANGED loadingStations /\ UNCHANGED staleShown
      /\ UNCHANGED directoryError /\ UNCHANGED shownOf /\ UNCHANGED askedFor
      /\ UNCHANGED stationCache
  BY DEF directoryVars
<1>2. RadioTyped /\ ShownIsAskedFor
  BY DEF RadioInv
<1>3. ShownIsAskedFor'
  BY <1>1, <1>2 DEF ShownIsAskedFor
<1> QED
  BY <1>1, <1>2, <1>3 DEF RadioTyped

(* and so do the saved stations. *)
LEMMA SavedKeeps ==
  ASSUME RadioInv, UNCHANGED savedVars
  PROVE  StationsSaved'
  BY DEF RadioInv, StationsSaved, savedVars

(* The generations are numbers and both lists of thunks are honest. *)
LEMMA InvNumbers ==
  ASSUME RadioInv
  PROVE  /\ clientGeneration \in Nat /\ directoryGeneration \in Nat
         /\ mirrorWaiters \in Seq(Thunks) /\ mirrorPosts \in Seq(Thunks)
         /\ HonestThunks(mirrorWaiters, clientGeneration, directoryGeneration, askedFor)
         /\ HonestThunks(mirrorPosts, clientGeneration, directoryGeneration, askedFor)
  BY DEF RadioInv, RadioTyped, GenerationsAgree

(* Thunks that are called become replies: the current one, if there is one. *)
LEMMA RunThunksKeep ==
  ASSUME RadioInv, NEW thunks \in Seq(Thunks),
         HonestThunks(thunks, clientGeneration, directoryGeneration, askedFor),
         AtMostOne(Paths(thunks, clientGeneration)),
         Paths(thunks, clientGeneration) = {} \/ radioReplies = {},
         RunThunks(thunks)
  PROVE  /\ radioReplies' \in SUBSET Replies /\ AtMostOne(radioReplies')
         /\ \A r \in radioReplies' :
              /\ r.generation = clientGeneration
              /\ Honest(r, clientGeneration, directoryGeneration, askedFor)
         /\ radioReplies' = {} <=> Paths(thunks, clientGeneration) = {} /\ radioReplies = {}
         /\ pendingClicks' \in Nat /\ UNCHANGED <<clientGeneration, clicks>>
         /\ pendingClicks' > 0 => /\ pendingClicks > 0
                                  /\ \A i \in 1..Len(thunks) : thunks[i] # ClickThunk
<1> DEFINE Chosen == {u \in Range(thunks) : u.what = "fetch" /\ u.generation = clientGeneration}
           Reply(t) == [generation |-> t.generation, asker |-> t.asker, mirror |-> 1]
           Started == {Reply(t) : t \in Chosen}
<1>1. radioReplies' = radioReplies \cup Started
  BY DEF RunThunks
<1>2. Range(thunks) = {thunks[i] : i \in 1..Len(thunks)}
  BY RangeEquality
<1>3. \A i \in 1..Len(thunks) : thunks[i] \in Thunks
  BY ElementOfSeq
<1>4. \A u : u \in Chosen <=> \E i \in Paths(thunks, clientGeneration) : u = thunks[i]
  BY <1>2, <1>3, FetchesAreNoClicks, ClickIsNoFetch DEF Paths
<1>5. ASSUME NEW u \in Chosen
      PROVE  /\ Reply(u) \in Replies /\ Reply(u).generation = clientGeneration
             /\ Honest(Reply(u), clientGeneration, directoryGeneration, askedFor)
  <2>1. PICK i \in Paths(thunks, clientGeneration) : u = thunks[i]
    BY <1>4, <1>5
  <2>2. u \in FetchThunks /\ Honest(u, clientGeneration, directoryGeneration, askedFor)
        /\ u.generation = clientGeneration
    BY <2>1, <1>3, FetchesAreNoClicks DEF Paths, HonestThunks
  <2>3. /\ Reply(u).generation = u.generation /\ Reply(u).asker = u.asker
        /\ Reply(u).mirror = 1
    OBVIOUS
  <2>4. Reply(u) \in Replies
    BY <2>2, HoldsNumbers DEF Replies
  <2> QED
    BY <2>2, <2>3, <2>4 DEF Honest
<1>6. \A u, v \in Chosen : u = v
  BY <1>4 DEF AtMostOne
<1>7. Chosen = {} <=> Paths(thunks, clientGeneration) = {}
  BY <1>4
<1> HIDE DEF Chosen
<1>8. Started = {} <=> Chosen = {}
  OBVIOUS
<1>9. \A r \in Started : \E u \in Chosen : r = Reply(u)
  OBVIOUS
<1> HIDE DEF Started, Reply
<1>10. AtMostOne(Started)
  BY <1>6, <1>9 DEF AtMostOne
<1>11. AtMostOne(radioReplies')
  BY <1>1, <1>7, <1>8, <1>10 DEF RadioInv, OnePath, One, AtMostOne
<1>12. \A r \in Started : /\ r \in Replies /\ r.generation = clientGeneration
                          /\ Honest(r, clientGeneration, directoryGeneration, askedFor)
  BY <1>5, <1>9
<1>13. radioReplies' \in SUBSET Replies
  BY <1>1, <1>12 DEF RadioInv, RadioTyped
<1>14. \A r \in radioReplies' :
         /\ r.generation = clientGeneration
         /\ Honest(r, clientGeneration, directoryGeneration, askedFor)
  BY <1>1, <1>12 DEF RadioInv, GenerationsAgree
<1>15. /\ pendingClicks' = IF ClickThunk \in Range(thunks) THEN 0 ELSE pendingClicks
       /\ UNCHANGED <<clientGeneration, clicks>>
  BY DEF RunThunks
<1>16. pendingClicks \in Nat
  BY DEF RadioInv, RadioTyped
<1> QED
  BY <1>1, <1>2, <1>7, <1>8, <1>11, <1>13, <1>14, <1>15, <1>16

(* The lookup ends: all thunks that waited for the mirrors run or are dropped. *)
LEMMA FinishMirrorLookupKeeps ==
  ASSUME RadioInv, NEW n \in Nat, FinishMirrorLookup(n)
  PROVE  RadioInv'
<1>1. /\ mirrorWaiters' = <<>> /\ mirrorPosts' = mirrorPosts /\ RunThunks(mirrorWaiters)
      /\ UNCHANGED directoryVars /\ UNCHANGED savedVars
      /\ dnsLookup' \in BOOLEAN /\ mirrors' \in Nat
  BY DEF FinishMirrorLookup
<1>2. /\ AtMostOne(Paths(mirrorWaiters, clientGeneration))
      /\ Paths(mirrorWaiters, clientGeneration) = {} \/ radioReplies = {}
  BY DEF RadioInv, OnePath, One
<1>3. /\ radioReplies' \in SUBSET Replies /\ AtMostOne(radioReplies')
      /\ \A r \in radioReplies' :
              /\ r.generation = clientGeneration
              /\ Honest(r, clientGeneration, directoryGeneration, askedFor)
      /\ radioReplies' = {} <=> Paths(mirrorWaiters, clientGeneration) = {} /\ radioReplies = {}
      /\ pendingClicks' \in Nat /\ clientGeneration' = clientGeneration /\ clicks' = clicks
      /\ pendingClicks' > 0 => /\ pendingClicks > 0
                               /\ \A i \in 1..Len(mirrorWaiters) : mirrorWaiters[i] # ClickThunk
  BY <1>1, <1>2, InvNumbers, RunThunksKeep
<1>4. <<>> \in Seq(Thunks) /\ Len(<<>>) = 0 /\ 1..0 = {}
  OBVIOUS
<1>5. UNCHANGED <<directoryGeneration, askedFor, loadingStations>>
  BY <1>1 DEF directoryVars
<1>6. RadioTyped'
  <2>1. clientGeneration' \in Nat /\ clicks' \in Nat /\ mirrorPosts' \in Seq(Thunks)
    BY <1>1, <1>3 DEF RadioInv, RadioTyped
  <2> QED
    BY <1>1, <1>3, <1>4, <2>1, PageKeeps DEF RadioTyped
<1>7. GenerationsAgree'
  <2>1. HonestThunks(mirrorWaiters', clientGeneration', directoryGeneration', askedFor')
    BY <1>1, <1>4 DEF HonestThunks
  <2> QED
    BY <2>1, <1>1, <1>3, <1>5, InvNumbers DEF GenerationsAgree
<1>8. OnePath'
  <2>1. Paths(mirrorWaiters', clientGeneration') = {}
    BY <1>1, <1>4 DEF Paths
  <2>2. Paths(mirrorPosts', clientGeneration') = Paths(mirrorPosts, clientGeneration)
    BY <1>1, <1>3
  <2>3. One({}, Paths(mirrorPosts, clientGeneration), radioReplies')
    BY <1>3 DEF RadioInv, OnePath, One, AtMostOne
  <2>4. loadingStations <=> ~NoPath({}, Paths(mirrorPosts, clientGeneration), radioReplies')
    BY <1>3 DEF RadioInv, OnePath, NoPath
  <2> QED
    BY <2>1, <2>2, <2>3, <2>4, <1>5 DEF OnePath
<1>9. ClicksAreKept'
  BY <1>1, <1>3 DEF RadioInv, ClicksAreKept
<1> QED
  BY <1>1, <1>6, <1>7, <1>8, <1>9, PageKeeps, SavedKeeps DEF RadioInv

(* A thunk that was posted because the mirrors were known runs. *)
LEMMA RunPostedKeeps ==
  ASSUME RadioInv, RunPosted
  PROVE  RadioInv'
<1>1. /\ mirrorPosts # <<>> /\ mirrorPosts' = Tail(mirrorPosts)
      /\ RunThunks(<<Head(mirrorPosts)>>)
      /\ UNCHANGED directoryVars /\ UNCHANGED savedVars
      /\ mirrors' = mirrors /\ dnsLookup' = dnsLookup /\ mirrorWaiters' = mirrorWaiters
  BY DEF RunPosted
<1> DEFINE c == clientGeneration
           head == <<Head(mirrorPosts)>>
<1>2. /\ Head(mirrorPosts) \in Thunks /\ Head(mirrorPosts) = mirrorPosts[1]
      /\ Tail(mirrorPosts) \in Seq(Thunks)
      /\ 1 \in 1..Len(mirrorPosts)
      /\ HonestThunks(Tail(mirrorPosts), c, directoryGeneration, askedFor)
      /\ Paths(Tail(mirrorPosts), c) =
           {i \in 1..(Len(mirrorPosts) - 1) : i + 1 \in Paths(mirrorPosts, c)}
      /\ \A i \in 1..Len(mirrorPosts) :
           i = 1 \/ (i - 1 \in 1..Len(Tail(mirrorPosts)) /\ Tail(mirrorPosts)[i - 1] = mirrorPosts[i])
  BY <1>1, InvNumbers, TailThunks
<1>3. head \in Seq(Thunks) /\ Len(head) = 1 /\ head[1] = mirrorPosts[1] /\ 1..1 = {1}
  BY <1>2
<1>4. HonestThunks(head, c, directoryGeneration, askedFor)
  BY <1>2, <1>3, InvNumbers DEF HonestThunks
<1>5. Paths(head, c) = {i \in {1} : i \in Paths(mirrorPosts, c)}
  BY <1>2, <1>3 DEF Paths
<1> HIDE DEF head
<1>6. /\ AtMostOne(Paths(head, c))
      /\ Paths(head, c) = {} \/ radioReplies = {}
  BY <1>5 DEF RadioInv, OnePath, One, AtMostOne
<1>7. /\ radioReplies' \in SUBSET Replies /\ AtMostOne(radioReplies')
      /\ \A r \in radioReplies' :
              /\ r.generation = clientGeneration
              /\ Honest(r, clientGeneration, directoryGeneration, askedFor)
      /\ radioReplies' = {} <=> Paths(head, c) = {} /\ radioReplies = {}
      /\ pendingClicks' \in Nat /\ clientGeneration' = clientGeneration /\ clicks' = clicks
      /\ pendingClicks' > 0 => /\ pendingClicks > 0
                               /\ \A i \in 1..Len(head) : head[i] # ClickThunk
  BY <1>1, <1>3, <1>4, <1>6, RunThunksKeep DEF head
<1>8. UNCHANGED <<directoryGeneration, askedFor, loadingStations>>
  BY <1>1 DEF directoryVars
<1>9. RadioTyped'
  <2>1. clientGeneration' \in Nat /\ clicks' \in Nat /\ mirrorWaiters' \in Seq(Thunks)
        /\ mirrors' \in Nat /\ dnsLookup' \in BOOLEAN
    BY <1>1, <1>7 DEF RadioInv, RadioTyped
  <2> QED
    BY <1>1, <1>2, <1>7, <2>1, PageKeeps DEF RadioTyped
<1>10. GenerationsAgree'
  BY <1>1, <1>2, <1>7, <1>8, InvNumbers DEF GenerationsAgree
<1>11. OnePath'
  <2> DEFINE W == Paths(mirrorWaiters, c)
             P == Paths(mirrorPosts, c)
             T == Paths(Tail(mirrorPosts), c)
             H == Paths(head, c)
  <2>1. One(W, P, radioReplies) /\ (loadingStations <=> ~NoPath(W, P, radioReplies))
    BY DEF RadioInv, OnePath
  <2>2. P \subseteq 1..Len(mirrorPosts) /\ Len(mirrorPosts) \in Nat
    BY InvNumbers, LenProperties DEF Paths
  <2>3. \A i \in T : i \in Nat \ {0} /\ i + 1 \in P
    BY <1>2, <2>2
  <2>4. H \subseteq {1} /\ (1 \in H <=> 1 \in P)
    BY <1>5
  <2>5. ASSUME NEW i \in P, i # 1
        PROVE  i - 1 \in T
    <3>1. i \in Int /\ i - 1 \in 1..(Len(mirrorPosts) - 1) /\ (i - 1) + 1 = i
      BY <2>2, <2>5
    <3> QED
      BY <3>1, <1>2
  <2>6. /\ W' = W /\ Paths(mirrorPosts', clientGeneration') = T
        /\ Paths(mirrorWaiters', clientGeneration') = W
    BY <1>1, <1>7
  <2> HIDE DEF W, P, T, H
  <2>7. AtMostOne(T)
    BY <2>1, <2>3 DEF One, AtMostOne
  <2>8. T = {} \/ H = {}
    BY <2>1, <2>3, <2>4 DEF One, AtMostOne
  <2>9. P = {} <=> T = {} /\ H = {}
    BY <2>3, <2>4, <2>5
  <2>10. One(W, T, radioReplies')
    BY <2>1, <2>7, <2>8, <2>9, <1>7 DEF One, H
  <2>11. loadingStations <=> ~NoPath(W, T, radioReplies')
    BY <2>1, <2>9, <1>7 DEF NoPath, H
  <2> QED
    BY <2>6, <2>10, <2>11, <1>8 DEF OnePath
<1>12. ClicksAreKept'
  <2>1. ASSUME pendingClicks' > 0
        PROVE  \/ \E i \in 1..Len(mirrorWaiters) : mirrorWaiters[i] = ClickThunk
               \/ \E i \in 1..Len(mirrorPosts') : mirrorPosts'[i] = ClickThunk
    <3>1. pendingClicks > 0 /\ mirrorPosts[1] # ClickThunk
      BY <2>1, <1>3, <1>7
    <3> QED
      BY <3>1, <1>1, <1>2 DEF RadioInv, ClicksAreKept
  <2> QED
    BY <2>1, <1>1 DEF RadioInv, ClicksAreKept
<1> QED
  BY <1>1, <1>9, <1>10, <1>11, <1>12, PageKeeps, SavedKeeps DEF RadioInv

-----------------------------------------------------------------------------
(* A thunk more: posted, or kept until the mirrors are known *)
LEMMA EnsureMirrorsKeeps ==
  ASSUME RadioInv, NEW thunk \in Thunks, EnsureMirrors(thunk),
         NEW c \in Nat, NEW d \in Nat, NEW k,
         HonestThunks(mirrorWaiters, c, d, k), HonestThunks(mirrorPosts, c, d, k),
         thunk # ClickThunk => Honest(thunk, c, d, k)
  PROVE  /\ mirrors' \in Nat /\ dnsLookup' \in BOOLEAN
         /\ mirrorWaiters' \in Seq(Thunks) /\ mirrorPosts' \in Seq(Thunks)
         /\ HonestThunks(mirrorWaiters', c, d, k) /\ HonestThunks(mirrorPosts', c, d, k)
         /\ mirrorWaiters' # <<>> => dnsLookup'
         /\ \A i \in 1..Len(mirrorWaiters) :
              i \in 1..Len(mirrorWaiters') /\ mirrorWaiters'[i] = mirrorWaiters[i]
         /\ \A i \in 1..Len(mirrorPosts) :
              i \in 1..Len(mirrorPosts') /\ mirrorPosts'[i] = mirrorPosts[i]
         /\ \/ \E i \in 1..Len(mirrorWaiters') : mirrorWaiters'[i] = thunk
            \/ \E i \in 1..Len(mirrorPosts') : mirrorPosts'[i] = thunk
         /\ thunk = ClickThunk => /\ Paths(mirrorWaiters', c) = Paths(mirrorWaiters, c)
                                  /\ Paths(mirrorPosts', c) = Paths(mirrorPosts, c)
         /\ /\ thunk # ClickThunk /\ thunk.generation = c
            /\ Paths(mirrorWaiters, c) = {} /\ Paths(mirrorPosts, c) = {}
            => One(Paths(mirrorWaiters', c), Paths(mirrorPosts', c), {})
               /\ ~NoPath(Paths(mirrorWaiters', c), Paths(mirrorPosts', c), {})
<1>1. CASE mirrors > 0
  <2>1. /\ mirrorPosts' = Append(mirrorPosts, thunk) /\ mirrorWaiters' = mirrorWaiters
        /\ dnsLookup' = dnsLookup /\ mirrors' = mirrors
    BY <1>1 DEF EnsureMirrors
  <2>2. /\ mirrorWaiters' \in Seq(Thunks) /\ mirrors' \in Nat /\ dnsLookup' \in BOOLEAN
        /\ mirrorWaiters' # <<>> => dnsLookup'
    BY <2>1 DEF RadioInv, RadioTyped, ClicksAreKept
  <2>3. /\ mirrorPosts' \in Seq(Thunks) /\ mirrorPosts' # <<>> /\ HonestThunks(mirrorPosts', c, d, k)
        /\ thunk = ClickThunk => Paths(mirrorPosts', c) = Paths(mirrorPosts, c)
        /\ thunk # ClickThunk /\ thunk.generation = c /\ Paths(mirrorPosts, c) = {} =>
              Paths(mirrorPosts', c) = {Len(mirrorPosts) + 1}
        /\ \A i \in 1..Len(mirrorPosts) : i \in 1..Len(mirrorPosts') /\ mirrorPosts'[i] = mirrorPosts[i]
        /\ Len(mirrorPosts) + 1 \in 1..Len(mirrorPosts') /\ mirrorPosts'[Len(mirrorPosts) + 1] = thunk
    <3>1. mirrorPosts \in Seq(Thunks)
      BY InvNumbers
    <3>2. Appended(Append(mirrorPosts, thunk), mirrorPosts, thunk, c, d, k)
      BY <3>1, AppendedThunk
    <3> QED
      BY <2>1, <3>2 DEF Appended
  <2>4. Paths(mirrorWaiters', c) = Paths(mirrorWaiters, c) /\ HonestThunks(mirrorWaiters', c, d, k)
    BY <2>1
  <2>5. ASSUME thunk # ClickThunk, thunk.generation = c,
               Paths(mirrorWaiters, c) = {}, Paths(mirrorPosts, c) = {}
        PROVE  /\ One(Paths(mirrorWaiters', c), Paths(mirrorPosts', c), {})
               /\ ~NoPath(Paths(mirrorWaiters', c), Paths(mirrorPosts', c), {})
    BY <2>3, <2>4, <2>5 DEF One, NoPath, AtMostOne
  <2> QED
    BY <2>1, <2>2, <2>3, <2>4, <2>5
<1>2. CASE ~(mirrors > 0)
  <2>1. /\ mirrorWaiters' = Append(mirrorWaiters, thunk) /\ mirrorPosts' = mirrorPosts
        /\ dnsLookup' = TRUE /\ mirrors' = mirrors
    BY <1>2 DEF EnsureMirrors
  <2>2. mirrorPosts' \in Seq(Thunks) /\ mirrors' \in Nat /\ dnsLookup' \in BOOLEAN
    BY <2>1 DEF RadioInv, RadioTyped
  <2>3. /\ mirrorWaiters' \in Seq(Thunks) /\ mirrorWaiters' # <<>> /\ HonestThunks(mirrorWaiters', c, d, k)
        /\ thunk = ClickThunk => Paths(mirrorWaiters', c) = Paths(mirrorWaiters, c)
        /\ thunk # ClickThunk /\ thunk.generation = c /\ Paths(mirrorWaiters, c) = {} =>
              Paths(mirrorWaiters', c) = {Len(mirrorWaiters) + 1}
        /\ \A i \in 1..Len(mirrorWaiters) : i \in 1..Len(mirrorWaiters') /\ mirrorWaiters'[i] = mirrorWaiters[i]
        /\ Len(mirrorWaiters) + 1 \in 1..Len(mirrorWaiters') /\ mirrorWaiters'[Len(mirrorWaiters) + 1] = thunk
    <3>1. mirrorWaiters \in Seq(Thunks)
      BY InvNumbers
    <3>2. Appended(Append(mirrorWaiters, thunk), mirrorWaiters, thunk, c, d, k)
      BY <3>1, AppendedThunk
    <3> QED
      BY <2>1, <3>2 DEF Appended
  <2>4. Paths(mirrorPosts', c) = Paths(mirrorPosts, c) /\ HonestThunks(mirrorPosts', c, d, k)
    BY <2>1
  <2>5. ASSUME thunk # ClickThunk, thunk.generation = c,
               Paths(mirrorWaiters, c) = {}, Paths(mirrorPosts, c) = {}
        PROVE  /\ One(Paths(mirrorWaiters', c), Paths(mirrorPosts', c), {})
               /\ ~NoPath(Paths(mirrorWaiters', c), Paths(mirrorPosts', c), {})
    BY <2>3, <2>4, <2>5 DEF One, NoPath, AtMostOne
  <2> QED
    BY <2>1, <2>2, <2>3, <2>4, <2>5
<1> QED
  BY <1>1, <1>2

(* A click is recorded at the mirrors, when they are known. *)
LEMMA RecordClickKeeps ==
  ASSUME RadioInv, RecordClick
  PROVE  RadioInv'
<1> DEFINE c == clientGeneration
           d == directoryGeneration
           k == askedFor
<1>1. /\ clicks' = clicks + 1 /\ pendingClicks' = pendingClicks + 1 /\ EnsureMirrors(ClickThunk)
      /\ clientGeneration' = clientGeneration /\ radioReplies' = radioReplies
      /\ UNCHANGED directoryVars /\ UNCHANGED savedVars
  BY DEF RecordClick
<1>2. UNCHANGED <<directoryGeneration, askedFor, loadingStations>>
  BY <1>1 DEF directoryVars
<1>3. /\ mirrors' \in Nat /\ dnsLookup' \in BOOLEAN
      /\ mirrorWaiters' \in Seq(Thunks) /\ mirrorPosts' \in Seq(Thunks)
      /\ HonestThunks(mirrorWaiters', c, d, k) /\ HonestThunks(mirrorPosts', c, d, k)
      /\ mirrorWaiters' # <<>> => dnsLookup'
      /\ \/ \E i \in 1..Len(mirrorWaiters') : mirrorWaiters'[i] = ClickThunk
         \/ \E i \in 1..Len(mirrorPosts') : mirrorPosts'[i] = ClickThunk
      /\ Paths(mirrorWaiters', c) = Paths(mirrorWaiters, c)
      /\ Paths(mirrorPosts', c) = Paths(mirrorPosts, c)
  BY <1>1, InvNumbers, ClickIsNoFetch, EnsureMirrorsKeeps
<1>4. RadioTyped'
  <2>1. /\ clientGeneration' \in Nat /\ clicks' \in Nat /\ pendingClicks' \in Nat
        /\ radioReplies' \in SUBSET Replies
    BY <1>1 DEF RadioInv, RadioTyped
  <2> QED
    BY <1>1, <1>3, <2>1, PageKeeps DEF RadioTyped
<1>5. GenerationsAgree'
  BY <1>1, <1>2, <1>3 DEF RadioInv, GenerationsAgree
<1>6. OnePath'
  BY <1>1, <1>2, <1>3 DEF RadioInv, OnePath
<1>7. ClicksAreKept'
  BY <1>3 DEF ClicksAreKept
<1> QED
  BY <1>1, <1>4, <1>5, <1>6, <1>7, PageKeeps, SavedKeeps DEF RadioInv

(* A new request makes all earlier ones stale, and starts one of its own. *)
LEMMA RequestStationsKeeps ==
  ASSUME RadioInv, NEW key \in Keys, RequestStations(key)
  PROVE  RadioInv'
<1> DEFINE c == clientGeneration + 2
           d == directoryGeneration + 1
           asker == [generation |-> d, key |-> key]
           thunk == FetchThunk(c, asker)
<1>1. /\ directoryGeneration' = d /\ clientGeneration' = c /\ radioReplies' = {}
      /\ EnsureMirrors(FetchThunk(clientGeneration', asker))
      /\ loadingStations' = TRUE /\ directoryError' = FALSE /\ askedFor' = key
      /\ shownOf' = stationCache[key].of
      /\ staleShown' = (stationCache[key].of # Nothing /\ stationCache[key].stale)
      /\ pendingClicks' = pendingClicks /\ clicks' = clicks /\ stationCache' = stationCache
      /\ UNCHANGED savedVars
  BY DEF RequestStations, CancelClient
<1>2. /\ c \in Nat /\ d \in Nat /\ c > clientGeneration /\ d > directoryGeneration
  BY InvNumbers
<1>3. asker \in RequestAskers /\ asker.generation = d /\ asker.key = key
  BY <1>2 DEF RequestAskers
<1>4. EnsureMirrors(thunk)
  BY <1>1
<1> HIDE DEF c, d, asker
<1>5. /\ thunk \in Thunks /\ thunk # ClickThunk /\ thunk.generation = c /\ thunk.asker = asker
  BY <1>2, <1>3, FetchIsThunk
<1> HIDE DEF thunk
<1>6. Honest(thunk, c, d, key)
  BY <1>2, <1>3, <1>5 DEF Honest
<1>7. /\ HonestThunks(mirrorWaiters, c, d, key) /\ Paths(mirrorWaiters, c) = {}
      /\ HonestThunks(mirrorPosts, c, d, key) /\ Paths(mirrorPosts, c) = {}
  BY <1>2, InvNumbers, StaleThunks
<1>8. /\ mirrors' \in Nat /\ dnsLookup' \in BOOLEAN
      /\ mirrorWaiters' \in Seq(Thunks) /\ mirrorPosts' \in Seq(Thunks)
      /\ HonestThunks(mirrorWaiters', c, d, key) /\ HonestThunks(mirrorPosts', c, d, key)
      /\ mirrorWaiters' # <<>> => dnsLookup'
      /\ \A i \in 1..Len(mirrorWaiters) :
              i \in 1..Len(mirrorWaiters') /\ mirrorWaiters'[i] = mirrorWaiters[i]
      /\ \A i \in 1..Len(mirrorPosts) :
              i \in 1..Len(mirrorPosts') /\ mirrorPosts'[i] = mirrorPosts[i]
      /\ One(Paths(mirrorWaiters', c), Paths(mirrorPosts', c), {})
      /\ ~NoPath(Paths(mirrorWaiters', c), Paths(mirrorPosts', c), {})
  BY <1>2, <1>4, <1>5, <1>6, <1>7, EnsureMirrorsKeeps
<1>9. /\ stationCache[key].of \in {Nothing, key} /\ stationCache[key].stale \in BOOLEAN
  BY DEF RadioInv, ShownIsAskedFor
<1>10. RadioTyped'
  <2>1. staleShown' \in BOOLEAN
    BY <1>1, <1>9
  <2>2. directoryError' \in BOOLEAN /\ loadingStations' \in BOOLEAN
    BY <1>1
  <2>3. shownOf' \in Keys \cup {Nothing} /\ askedFor' \in Keys \cup {Nothing}
    BY <1>1, <1>9
  <2>4. clicks' \in Nat /\ pendingClicks' \in Nat /\ radioReplies' \in SUBSET Replies
    BY <1>1 DEF RadioInv, RadioTyped
  <2> QED
    BY <1>1, <1>2, <1>8, <2>1, <2>2, <2>3, <2>4 DEF RadioTyped
<1>11. ShownIsAskedFor'
  BY <1>1, <1>9 DEF RadioInv, ShownIsAskedFor
<1>12. GenerationsAgree'
  BY <1>1, <1>8 DEF GenerationsAgree
<1>13. OnePath'
  BY <1>1, <1>8 DEF OnePath
<1>14. ClicksAreKept'
  BY <1>1, <1>8 DEF RadioInv, ClicksAreKept
<1> QED
  BY <1>1, <1>10, <1>11, <1>12, <1>13, <1>14, SavedKeeps DEF RadioInv

(* A cancelled directory waits for nothing. *)
LEMMA CancelDirectoryKeeps ==
  ASSUME RadioInv, CancelDirectory
  PROVE  RadioInv'
<1> DEFINE c == clientGeneration + 1
           d == directoryGeneration + 1
<1>1. /\ directoryGeneration' = d /\ clientGeneration' = c /\ radioReplies' = {}
      /\ loadingStations' = FALSE
      /\ UNCHANGED <<mirrors, dnsLookup, mirrorWaiters, mirrorPosts, pendingClicks, clicks,
                     staleShown, directoryError, shownOf, askedFor, stationCache>>
      /\ UNCHANGED savedVars
  BY DEF CancelDirectory, CancelClient
<1>2. /\ c \in Nat /\ d \in Nat /\ c > clientGeneration /\ d > directoryGeneration
  BY InvNumbers
<1> HIDE DEF c, d
<1>3. /\ HonestThunks(mirrorWaiters, c, d, askedFor) /\ Paths(mirrorWaiters, c) = {}
      /\ HonestThunks(mirrorPosts, c, d, askedFor) /\ Paths(mirrorPosts, c) = {}
  BY <1>2, InvNumbers, StaleThunks
<1>4. RadioTyped'
  <2>1. loadingStations' \in BOOLEAN /\ radioReplies' \in SUBSET Replies
    BY <1>1
  <2> QED
    BY <1>1, <1>2, <2>1 DEF RadioInv, RadioTyped
<1>5. ShownIsAskedFor'
  BY <1>1 DEF RadioInv, ShownIsAskedFor
<1>6. GenerationsAgree'
  BY <1>1, <1>3 DEF GenerationsAgree
<1>7. OnePath'
  BY <1>1, <1>3 DEF OnePath, One, NoPath, AtMostOne
<1>8. ClicksAreKept'
  BY <1>1 DEF RadioInv, ClicksAreKept
<1> QED
  BY <1>1, <1>4, <1>5, <1>6, <1>7, <1>8, SavedKeeps DEF RadioInv

-----------------------------------------------------------------------------
(* Replies *)

(* What a reply leaves alone *)
ClientRests ==
  UNCHANGED <<mirrors, dnsLookup, mirrorWaiters, mirrorPosts, clientGeneration,
              pendingClicks, clicks, savedVars>>

(* A reply that is still to come is the answer to the last request. *)
LEMMA ReplyFacts ==
  ASSUME RadioInv, NEW r \in radioReplies
  PROVE  /\ radioReplies = {r} /\ r \in Replies
         /\ r.generation = clientGeneration /\ r.asker.generation = directoryGeneration
         /\ r.asker.key = askedFor /\ r.asker.key \in Keys
         /\ r.asker \in RequestAskers /\ r.mirror \in Nat
         /\ loadingStations = TRUE
         /\ Paths(mirrorWaiters, clientGeneration) = {} /\ Paths(mirrorPosts, clientGeneration) = {}
<1>1. r \in Replies /\ loadingStations \in BOOLEAN
  BY DEF RadioInv, RadioTyped
<1>2. r.generation = clientGeneration /\ r.asker.generation = directoryGeneration
      /\ r.asker.key = askedFor
  BY DEF RadioInv, GenerationsAgree, Honest
<1>3. /\ radioReplies = {r} /\ loadingStations = TRUE
      /\ Paths(mirrorWaiters, clientGeneration) = {} /\ Paths(mirrorPosts, clientGeneration) = {}
  <2>1. /\ One(Paths(mirrorWaiters, clientGeneration), Paths(mirrorPosts, clientGeneration),
               radioReplies)
        /\ loadingStations <=> ~NoPath(Paths(mirrorWaiters, clientGeneration),
                                       Paths(mirrorPosts, clientGeneration), radioReplies)
    BY DEF RadioInv, OnePath
  <2>2. loadingStations
    BY <2>1 DEF NoPath
  <2> QED
    BY <1>1, <2>1, <2>2 DEF One, AtMostOne
<1> QED
  BY <1>1, <1>2, <1>3, HoldsNumbers DEF Replies

(* A reply that answers ends the only path. *)
LEMMA AnswerKeeps ==
  ASSUME RadioInv, NEW r \in radioReplies, radioReplies' = radioReplies \ {r},
         NEW succeeded \in BOOLEAN, AnswerWith(r.asker, succeeded), ClientRests
  PROVE  RadioInv'
<1>1. /\ UNCHANGED <<mirrors, dnsLookup, mirrorWaiters, mirrorPosts, clientGeneration,
                     pendingClicks, clicks>>
      /\ UNCHANGED savedVars
  BY DEF ClientRests
<1>2. radioReplies' = {}
  BY ReplyFacts
<1>3. /\ loadingStations' = FALSE /\ directoryError' = ~succeeded
      /\ UNCHANGED directoryGeneration /\ UNCHANGED askedFor
      /\ \/ UNCHANGED <<shownOf, staleShown, stationCache>>
         \/ /\ shownOf' = r.asker.key /\ staleShown' = FALSE
            /\ \/ stationCache' = stationCache
               \/ stationCache' = [stationCache EXCEPT ![r.asker.key] =
                                     [of |-> r.asker.key, stale |-> FALSE]]
  BY ReplyFacts DEF AnswerWith
<1>4. RadioTyped'
  <2>1. loadingStations' \in BOOLEAN /\ directoryError' \in BOOLEAN
    BY <1>3
  <2>2. staleShown' \in BOOLEAN
    BY <1>3 DEF RadioInv, RadioTyped
  <2>3. shownOf' \in Keys \cup {Nothing} /\ askedFor' \in Keys \cup {Nothing}
    BY <1>3, ReplyFacts DEF RadioInv, RadioTyped
  <2>4. radioReplies' \in SUBSET Replies /\ directoryGeneration' \in Nat
    BY <1>2, <1>3, InvNumbers
  <2> QED
    BY <1>1, <2>1, <2>2, <2>3, <2>4 DEF RadioInv, RadioTyped
<1>5. ShownIsAskedFor'
  <2>1. shownOf' \in {Nothing, askedFor'}
    BY <1>3, ReplyFacts DEF RadioInv, ShownIsAskedFor
  <2>2. ShownIsAskedFor /\ r.asker.key \in Keys
    BY ReplyFacts DEF RadioInv
  <2>3. CASE stationCache' = stationCache
    BY <2>1, <2>2, <2>3 DEF ShownIsAskedFor
  <2>4. CASE stationCache' = [stationCache EXCEPT ![r.asker.key] =
                                [of |-> r.asker.key, stale |-> FALSE]]
    BY <2>1, <2>2, <2>4 DEF ShownIsAskedFor
  <2> QED
    BY <1>3, <2>3, <2>4
<1>6. GenerationsAgree'
  BY <1>1, <1>2, <1>3 DEF RadioInv, GenerationsAgree
<1>7. OnePath'
  BY <1>1, <1>2, <1>3, ReplyFacts DEF OnePath, One, NoPath, AtMostOne
<1>8. ClicksAreKept'
  BY <1>1 DEF RadioInv, ClicksAreKept
<1> QED
  BY <1>1, <1>4, <1>5, <1>6, <1>7, <1>8, SavedKeeps DEF RadioInv

(* The stations arrive, *)
LEMMA ReplySucceedsKeeps ==
  ASSUME RadioInv, NEW r \in radioReplies, ReplySucceeds(r)
  PROVE  RadioInv'
<1>1. radioReplies' = radioReplies \ {r} /\ AnswerWith(r.asker, TRUE) /\ ClientRests
  BY ReplyFacts DEF ReplySucceeds, ClientRests
<1> QED
  BY <1>1, AnswerKeeps

(* or the same request goes to the next mirror. *)
LEMMA NextMirror ==
  ASSUME NEW r \in Replies, NEW m \in Nat
  PROVE  /\ [r EXCEPT !.mirror = m] \in Replies
         /\ [r EXCEPT !.mirror = m].generation = r.generation
         /\ [r EXCEPT !.mirror = m].asker = r.asker
  BY DEF Replies

(* A fail-over goes on under the same generations. *)
LEMMA ReplyFailsKeeps ==
  ASSUME RadioInv, NEW r \in radioReplies, ReplyFails(r)
  PROVE  RadioInv'
<1> DEFINE again == [r EXCEPT !.mirror = r.mirror + 1]
<1>1. ClientRests
  BY DEF ReplyFails, ClientRests
<1>2. \/ radioReplies' = radioReplies \ {r} /\ AnswerWith(r.asker, FALSE)
      \/ radioReplies' = (radioReplies \ {r}) \cup {again} /\ UNCHANGED directoryVars
  BY ReplyFacts DEF ReplyFails
<1>3. CASE radioReplies' = radioReplies \ {r} /\ AnswerWith(r.asker, FALSE)
  BY <1>1, <1>3, AnswerKeeps
<1>4. CASE radioReplies' = (radioReplies \ {r}) \cup {again} /\ UNCHANGED directoryVars
  <2>1. /\ again \in Replies /\ again.generation = clientGeneration
        /\ again.asker = r.asker
    <3>1. r \in Replies /\ r.generation = clientGeneration
      BY ReplyFacts
    <3> DEFINE m == r.mirror + 1
    <3>2. r.mirror \in Nat
      BY ReplyFacts
    <3>3. m \in Nat
      BY <3>2
    <3>4. again = [r EXCEPT !.mirror = m]
      OBVIOUS
    <3> HIDE DEF m, again
    <3> QED
      BY <3>1, <3>3, <3>4, NextMirror
  <2> HIDE DEF again
  <2>2. Honest(again, clientGeneration, directoryGeneration, askedFor)
    <3>1. r.asker.generation = directoryGeneration /\ r.asker.key = askedFor
      BY ReplyFacts
    <3> QED
      BY <2>1, <3>1, InvNumbers DEF Honest
  <2>3. radioReplies' = {again}
    BY <1>4, ReplyFacts
  <2>4. /\ UNCHANGED <<mirrors, dnsLookup, mirrorWaiters, mirrorPosts, clientGeneration,
                       pendingClicks, clicks>>
        /\ UNCHANGED savedVars
    BY <1>1 DEF ClientRests
  <2>5. UNCHANGED <<directoryGeneration, askedFor, loadingStations>>
    BY <1>4 DEF directoryVars
  <2>6. RadioTyped'
    <3>1. radioReplies' \in SUBSET Replies
      BY <2>1, <2>3
    <3> QED
      BY <1>4, <2>4, <3>1, PageKeeps DEF RadioInv, RadioTyped
  <2>7. GenerationsAgree'
    BY <2>1, <2>2, <2>3, <2>4, <2>5 DEF RadioInv, GenerationsAgree
  <2>8. OnePath'
    BY <2>3, <2>4, <2>5, ReplyFacts DEF OnePath, One, NoPath, AtMostOne
  <2>9. ClicksAreKept'
    BY <2>4 DEF RadioInv, ClicksAreKept
  <2> QED
    BY <1>4, <2>4, <2>6, <2>7, <2>8, <2>9, PageKeeps, SavedKeeps DEF RadioInv
<1> QED
  BY <1>2, <1>3, <1>4

(* A cached answer is known by its fields. *)
LEMMA EntryIsItsFields ==
  ASSUME NEW X, NEW Y, NEW e \in [of : X, stale : Y]
  PROVE  e = [of |-> e.of, stale |-> e.stale]
  OBVIOUS

(* An answer that expires keeps what it answers. *)
LEMMA StaleEntry ==
  ASSUME NEW X, NEW e \in [of : X, stale : BOOLEAN]
  PROVE  [e EXCEPT !.stale = TRUE] = [of |-> e.of, stale |-> TRUE]
<1> DEFINE f == [e EXCEPT !.stale = TRUE]
<1>1. f \in [of : X, stale : BOOLEAN]
  OBVIOUS
<1>2. f.of = e.of /\ f.stale = TRUE
  OBVIOUS
<1> HIDE DEF f
<1>3. f = [of |-> f.of, stale |-> f.stale]
  BY <1>1, EntryIsItsFields
<1>4. f = [of |-> e.of, stale |-> TRUE]
  BY <1>2, <1>3, Zenon
<1> QED
  BY <1>4 DEF f

(* The cached answers grow stale, *)
LEMMA ExpireStationsKeeps ==
  ASSUME RadioInv, ExpireStations
  PROVE  RadioInv'
<1>1. /\ stationCache' = [k \in Keys |-> [stationCache[k] EXCEPT !.stale = TRUE]]
      /\ UNCHANGED clientVars /\ UNCHANGED savedVars
      /\ UNCHANGED <<directoryGeneration, loadingStations, staleShown, directoryError, shownOf,
                     askedFor>>
  BY DEF ExpireStations
<1>2. UNCHANGED <<mirrors, dnsLookup, mirrorWaiters, mirrorPosts, clientGeneration,
                  radioReplies, pendingClicks, clicks>>
  BY <1>1 DEF clientVars
<1>3. RadioTyped' /\ GenerationsAgree' /\ OnePath' /\ ClicksAreKept'
  BY <1>1, <1>2 DEF RadioInv, RadioTyped, GenerationsAgree, OnePath, ClicksAreKept
<1>4. ShownIsAskedFor'
  <2>1. ShownIsAskedFor
    BY DEF RadioInv
  <2>2. ASSUME NEW k \in Keys
        PROVE  stationCache'[k] = [of |-> stationCache[k].of, stale |-> TRUE]
    <3>1. stationCache[k] = [of |-> stationCache[k].of, stale |-> stationCache[k].stale]
      BY <2>1 DEF ShownIsAskedFor
    <3> DEFINE e == stationCache[k]
    <3>2. stationCache'[k] = [e EXCEPT !.stale = TRUE]
      BY <1>1
    <3>3. e \in [of : {Nothing, k}, stale : BOOLEAN]
      BY <2>1, <3>1 DEF ShownIsAskedFor
    <3> HIDE DEF e
    <3>4. [e EXCEPT !.stale = TRUE] = [of |-> e.of, stale |-> TRUE]
      BY <3>3, StaleEntry
    <3> QED
      BY <3>2, <3>4 DEF e
  <2> DEFINE old(k) == stationCache[k].of
  <2>3. stationCache' = [k \in Keys |-> [of |-> old(k), stale |-> TRUE]]
    BY <1>1, <2>2
  <2>4. \A k \in Keys : old(k) \in {Nothing, k}
    BY <2>1 DEF ShownIsAskedFor
  <2> HIDE DEF old
  <2>5. \A k \in Keys : stationCache'[k].of = old(k) /\ stationCache'[k].stale = TRUE
    BY <2>3
  <2>6. stationCache' = [k \in Keys |-> [of |-> stationCache'[k].of, stale |-> stationCache'[k].stale]]
    BY <2>3, <2>5
  <2> QED
    BY <1>1, <2>1, <2>4, <2>5, <2>6 DEF ShownIsAskedFor
<1> QED
  BY <1>1, <1>3, <1>4, SavedKeeps DEF RadioInv

(* or are evicted. *)
LEMMA EvictStationsKeeps ==
  ASSUME RadioInv, NEW key \in Keys, EvictStations(key)
  PROVE  RadioInv'
<1> DEFINE none == [of |-> Nothing, stale |-> FALSE]
<1>1. /\ stationCache' = [stationCache EXCEPT ![key] = none]
      /\ UNCHANGED clientVars /\ UNCHANGED savedVars
      /\ UNCHANGED <<directoryGeneration, loadingStations, staleShown, directoryError, shownOf,
                     askedFor>>
  BY DEF EvictStations
<1>2. UNCHANGED <<mirrors, dnsLookup, mirrorWaiters, mirrorPosts, clientGeneration,
                  radioReplies, pendingClicks, clicks>>
  BY <1>1 DEF clientVars
<1>3. RadioTyped' /\ GenerationsAgree' /\ OnePath' /\ ClicksAreKept'
  BY <1>1, <1>2 DEF RadioInv, RadioTyped, GenerationsAgree, OnePath, ClicksAreKept
<1>4. ShownIsAskedFor'
  <2>1. ShownIsAskedFor
    BY DEF RadioInv
  <2> QED
    BY <1>1, <2>1 DEF ShownIsAskedFor
<1> QED
  BY <1>1, <1>3, <1>4, SavedKeeps DEF RadioInv

-----------------------------------------------------------------------------
(* RadioController *)
LEMMA RadioRestKeeps ==
  ASSUME RadioInv, UNCHANGED clientVars, UNCHANGED directoryVars, StationsSaved'
  PROVE  RadioInv'
<1>1. /\ UNCHANGED <<mirrors, dnsLookup, mirrorWaiters, mirrorPosts, clientGeneration,
                     radioReplies, pendingClicks, clicks>>
      /\ UNCHANGED <<directoryGeneration, loadingStations, staleShown, directoryError, shownOf,
                     askedFor, stationCache>>
  BY DEF clientVars, directoryVars
<1> QED
  BY <1>1, PageKeeps
     DEF RadioInv, RadioTyped, GenerationsAgree, OnePath, ClicksAreKept

(* A station more whose uuid, if it has one, is nobody else's *)
LEMMA AppendedStation ==
  ASSUME StationsSaved, NEW s \in DirectoryStations \cup ImportedStations,
         s.uuid = Nothing \/ \A t \in Range(savedStations) : s.uuid # t.uuid,
         savedStations' = Append(savedStations, s), imports' \in {0, 1}
  PROVE  StationsSaved'
<1> DEFINE Stations == DirectoryStations \cup ImportedStations
<1>1. savedStations \in Seq(Stations) /\ Len(savedStations) \in Nat
  BY LenProperties DEF StationsSaved
<1>2. /\ savedStations' \in Seq(Stations) /\ Len(savedStations') = Len(savedStations) + 1
      /\ \A i \in 1..Len(savedStations) : savedStations'[i] = savedStations[i]
      /\ savedStations'[Len(savedStations) + 1] = s
  BY <1>1, AppendProperties
<1>3. \A i \in 1..Len(savedStations) : savedStations[i] \in Range(savedStations)
  BY <1>1, RangeEquality
<1>4. ASSUME NEW i \in 1..Len(savedStations'), NEW j \in 1..Len(savedStations'),
             savedStations'[i].uuid = savedStations'[j].uuid
      PROVE  i = j \/ savedStations'[i].uuid = Nothing
  <2>1. /\ i \in 1..Len(savedStations) \/ i = Len(savedStations) + 1
        /\ j \in 1..Len(savedStations) \/ j = Len(savedStations) + 1
    BY <1>1, <1>2
  <2>2. CASE i \in 1..Len(savedStations) /\ j \in 1..Len(savedStations)
    BY <1>2, <1>4, <2>2 DEF StationsSaved
  <2>3. CASE i = Len(savedStations) + 1 /\ j \in 1..Len(savedStations)
    BY <1>2, <1>3, <1>4, <2>3
  <2>4. CASE i \in 1..Len(savedStations) /\ j = Len(savedStations) + 1
    BY <1>2, <1>3, <1>4, <2>4
  <2> QED
    BY <2>1, <2>2, <2>3, <2>4
<1> QED
  BY <1>2, <1>4 DEF StationsSaved

(* A station is saved once, unless it was imported. *)
LEMMA AddStationKeeps ==
  ASSUME RadioInv, NEW s \in DirectoryStations \cup ImportedStations, AddStation(s)
  PROVE  RadioInv'
<1>1. /\ savedStations' = Append(savedStations, s) /\ imports' = imports
      /\ UNCHANGED clientVars /\ UNCHANGED directoryVars
      /\ \A t \in Range(savedStations) : s.uuid = Nothing \/ s.uuid # t.uuid
  BY DEF AddStation, Same
<1>2. StationsSaved /\ imports' \in {0, 1}
  BY <1>1 DEF RadioInv, StationsSaved
<1>3. StationsSaved'
  BY <1>1, <1>2, AppendedStation
<1> QED
  BY <1>1, <1>3, RadioRestKeeps

(* The imported stations follow the saved ones. *)
LEMMA FinishImportKeeps ==
  ASSUME RadioInv, FinishImport
  PROVE  RadioInv'
<1>1. /\ imports' = 0 /\ UNCHANGED clientVars /\ UNCHANGED directoryVars
      /\ \/ UNCHANGED savedStations
         \/ \E s \in ImportedStations : savedStations' = Append(savedStations, s)
  BY DEF FinishImport
<1>2. StationsSaved
  BY DEF RadioInv
<1>3. CASE UNCHANGED savedStations
  <2>1. StationsSaved'
    BY <1>1, <1>2, <1>3 DEF StationsSaved
  <2> QED
    BY <1>1, <2>1, RadioRestKeeps
<1>4. ASSUME NEW s \in ImportedStations, savedStations' = Append(savedStations, s)
      PROVE  RadioInv'
  <2>1. s.uuid = Nothing
    BY DEF Nothing
  <2>2. StationsSaved'
    BY <1>1, <1>2, <1>4, <2>1, AppendedStation
  <2> QED
    BY <1>1, <2>2, RadioRestKeeps
<1> QED
  BY <1>1, <1>3, <1>4

(* A row that is removed leaves the others in their order. *)
LEMMA RemoveStationKeeps ==
  ASSUME RadioInv, NEW row \in Nat, RemoveStation(row)
  PROVE  RadioInv'
<1> DEFINE Stations == DirectoryStations \cup ImportedStations
           before == SubSeq(savedStations, 1, row - 1)
           after == SubSeq(savedStations, row + 1, Len(savedStations))
<1>1. /\ row \in 1..Len(savedStations) /\ savedStations' = before \o after /\ imports' = imports
      /\ UNCHANGED clientVars /\ UNCHANGED directoryVars
  BY DEF RemoveStation, RemoveAt
<1>2. savedStations \in Seq(Stations) /\ Len(savedStations) \in Nat
  BY LenProperties DEF RadioInv, StationsSaved
<1>3. \A i \in 1..Len(savedStations) : savedStations[i] \in Stations
  BY <1>2, ElementOfSeq
<1>4. /\ before \in Seq(Stations) /\ Len(before) = row - 1
      /\ \A i \in 1..(row - 1) : before[i] = savedStations[i]
  <2>1. \A i \in 1..(row - 1) : savedStations[i] \in Stations
    BY <1>1, <1>2, <1>3
  <2>2. 1 \in Int /\ row - 1 \in Int /\ (row - 1) - 1 + 1 = row - 1
    OBVIOUS
  <2> QED
    BY <2>1, <2>2, <1>1, <1>2, SubSeqProperties
<1>5. /\ after \in Seq(Stations) /\ Len(after) = Len(savedStations) - row
      /\ \A i \in 1..(Len(savedStations) - row) : after[i] = savedStations[row + i]
  <2>1. \A i \in (row + 1)..Len(savedStations) : savedStations[i] \in Stations
    BY <1>1, <1>2, <1>3
  <2>2. PICK first : first = row + 1
    OBVIOUS
  <2>3. first \in Int /\ Len(savedStations) \in Int /\ first <= Len(savedStations) + 1
    BY <1>1, <1>2, <2>2
  <2>4. after = SubSeq(savedStations, first, Len(savedStations))
    BY <2>2
  <2> HIDE DEF after
  <2>5. /\ after \in Seq(Stations)
        /\ Len(after) = IF first <= Len(savedStations) THEN Len(savedStations) - first + 1 ELSE 0
        /\ \A i \in 1..Len(savedStations) - first + 1 : after[i] = savedStations[first + i - 1]
    BY <2>1, <2>2, <2>3, <2>4, <1>1, SubSeqProperties
  <2> QED
    BY <2>2, <2>3, <2>5, <1>2
<1> HIDE DEF before, after
<1>6. /\ savedStations' \in Seq(Stations) /\ Len(savedStations') = Len(savedStations) - 1
      /\ \A i \in 1..(Len(savedStations) - 1) :
           savedStations'[i] = IF i <= row - 1 THEN before[i] ELSE after[i - (row - 1)]
  <2>1. Len(before) + Len(after) = Len(savedStations) - 1
    BY <1>1, <1>2, <1>4, <1>5
  <2>2. /\ before \o after \in Seq(Stations)
        /\ Len(before \o after) = Len(before) + Len(after)
        /\ \A i \in 1..(Len(before) + Len(after)) :
             (before \o after)[i] = IF i <= Len(before) THEN before[i]
                                     ELSE after[i - Len(before)]
    <3>1. before \in Seq(Stations) /\ after \in Seq(Stations)
      BY <1>4, <1>5
    <3> HIDE DEF Stations
    <3> QED
      BY <3>1, ConcatProperties
  <2>3. Len(before) = row - 1
    BY <1>4
  <2> QED
    BY <1>1, <2>1, <2>2, <2>3
<1>7. \A i \in 1..Len(savedStations') :
        savedStations'[i] = savedStations[IF i < row THEN i ELSE i + 1]
  <2> TAKE i \in 1..Len(savedStations')
  <2>1. CASE i < row
    <3>1. i \in 1..(row - 1) /\ i \in 1..(Len(savedStations) - 1)
      BY <1>1, <1>2, <1>6, <2>1
    <3> QED
      BY <3>1, <1>4, <1>6, <2>1
  <2>2. CASE ~(i < row)
    <3>1. /\ i \in 1..(Len(savedStations) - 1) /\ ~(i <= row - 1)
          /\ i - (row - 1) \in 1..(Len(savedStations) - row) /\ row + (i - (row - 1)) = i + 1
      BY <1>1, <1>2, <1>6, <2>2
    <3> QED
      BY <3>1, <1>5, <1>6, <2>2
  <2> QED
    BY <2>1, <2>2
<1>8. ASSUME NEW i \in 1..Len(savedStations'), NEW j \in 1..Len(savedStations'),
             savedStations'[i].uuid = savedStations'[j].uuid
      PROVE  i = j \/ savedStations'[i].uuid = Nothing
  <2> DEFINE old(x) == IF x < row THEN x ELSE x + 1
  <2>1. old(i) \in 1..Len(savedStations) /\ old(j) \in 1..Len(savedStations)
        /\ (old(i) = old(j) => i = j)
    BY <1>1, <1>2, <1>6
  <2>2. savedStations'[i] = savedStations[old(i)] /\ savedStations'[j] = savedStations[old(j)]
    BY <1>7
  <2> HIDE DEF old
  <2> QED
    BY <2>1, <2>2, <1>8 DEF RadioInv, StationsSaved
<1>9. StationsSaved'
  BY <1>1, <1>6, <1>8 DEF RadioInv, StationsSaved
<1> QED
  BY <1>1, <1>9, RadioRestKeeps

-----------------------------------------------------------------------------
(* The specification *)

(* The invariant holds at the start, *)
LEMMA RadioInitEstablishes == RadioInit => RadioInv
<1> SUFFICES ASSUME RadioInit PROVE RadioInv
  OBVIOUS
<1>1. RadioTyped
  BY EmptySeq DEF RadioInit, RadioTyped
<1>2. ShownIsAskedFor
  <2>1. /\ stationCache \in [Keys -> {[of |-> Nothing, stale |-> FALSE]}]
        /\ shownOf = Nothing
    BY DEF RadioInit
  <2>2. \A k \in Keys : stationCache[k].of = Nothing /\ stationCache[k].stale = FALSE
    BY <2>1
  <2> QED
    BY <2>1, <2>2 DEF ShownIsAskedFor
<1>3. mirrorWaiters = <<>> /\ mirrorPosts = <<>> /\ radioReplies = {} /\ loadingStations = FALSE
      /\ pendingClicks = 0
  BY DEF RadioInit
<1>4. Len(<<>>) = 0 /\ 1..0 = {}
  OBVIOUS
<1>5. GenerationsAgree
  BY <1>3, <1>4 DEF GenerationsAgree, HonestThunks
<1>6. OnePath
  <2>1. Paths(mirrorWaiters, clientGeneration) = {} /\ Paths(mirrorPosts, clientGeneration) = {}
    BY <1>3, <1>4 DEF Paths
  <2> QED
    BY <1>3, <2>1 DEF OnePath, One, NoPath, AtMostOne
<1>7. ClicksAreKept
  BY <1>3 DEF ClicksAreKept
<1>8. StationsSaved
  BY <1>4, EmptySeq DEF RadioInit, StationsSaved
<1> QED
  BY <1>1, <1>2, <1>5, <1>6, <1>7, <1>8 DEF RadioInv

(* and every step keeps it. *)
LEMMA RadioNextKeeps == RadioInv /\ [RadioNext]_radioVars => RadioInv'
<1> SUFFICES ASSUME RadioInv, [RadioNext]_radioVars PROVE RadioInv'
  OBVIOUS
<1>1. ASSUME NEW n \in 0..MaxMirrors, FinishMirrorLookup(n) PROVE RadioInv'
  BY <1>1, FinishMirrorLookupKeeps
<1>2. CASE RunPosted
  BY <1>2, RunPostedKeeps
<1>3. CASE PlayListed \/ PlaySaved
  BY <1>3, RecordClickKeeps DEF PlayListed, PlaySaved
<1>4. ASSUME NEW key \in Keys, RequestStations(key) PROVE RadioInv'
  BY <1>4, RequestStationsKeeps
<1>5. CASE CancelDirectory
  BY <1>5, CancelDirectoryKeeps
<1>6. ASSUME NEW r \in radioReplies, ReplySucceeds(r) \/ ReplyFails(r) PROVE RadioInv'
  BY <1>6, ReplySucceedsKeeps, ReplyFailsKeeps
<1>7. CASE ExpireStations
  BY <1>7, ExpireStationsKeeps
<1>8. ASSUME NEW s \in DirectoryStations, SaveListed(s) PROVE RadioInv'
  BY <1>8, AddStationKeeps DEF SaveListed
<1>9. ASSUME NEW s \in ImportedStations, AddByHand(s) PROVE RadioInv'
  BY <1>9, AddStationKeeps DEF AddByHand
<1>10. CASE ImportPlaylist
  <2>1. /\ UNCHANGED savedStations /\ imports' = 1 /\ UNCHANGED clientVars
        /\ UNCHANGED directoryVars
    BY <1>10 DEF ImportPlaylist
  <2>2. StationsSaved'
    BY <2>1 DEF RadioInv, StationsSaved
  <2> QED
    BY <2>1, <2>2, RadioRestKeeps
<1>11. CASE FinishImport
  BY <1>11, FinishImportKeeps
<1>12. ASSUME NEW row \in 1..MaxSaved, RemoveStation(row) PROVE RadioInv'
  <2>1. row \in Nat
    BY <1>12
  <2> QED
    BY <1>12, <2>1, RemoveStationKeeps
<1>14. ASSUME NEW key \in Keys, EvictStations(key) PROVE RadioInv'
  BY <1>14, EvictStationsKeeps
<1>13. CASE UNCHANGED radioVars
  BY <1>13, SavedKeeps, RadioRestKeeps DEF radioVars
<1> QED
  BY <1>1, <1>2, <1>3, <1>4, <1>5, <1>6, <1>7, <1>8, <1>9, <1>10, <1>11, <1>12, <1>13, <1>14
     DEF RadioNext

-----------------------------------------------------------------------------
(* What the invariant says of the page *)

(* It says what the variables range over, *)
LEMMA InvTyped == RadioInv => RadioTypeOK
<1> SUFFICES ASSUME RadioInv PROVE RadioTypeOK
  OBVIOUS
<1>1. {mirrors, clientGeneration, directoryGeneration, pendingClicks, clicks} \subseteq Nat
  BY DEF RadioInv, RadioTyped
<1>2. dnsLookup \in BOOLEAN /\ loadingStations \in BOOLEAN /\ staleShown \in BOOLEAN
      /\ directoryError \in BOOLEAN
  BY DEF RadioInv, RadioTyped
<1>3. {dnsLookup, loadingStations, staleShown, directoryError} \subseteq BOOLEAN
  BY <1>2, Zenon
<1>4. {shownOf, askedFor} \subseteq Keys \cup {Nothing}
  BY DEF RadioInv, RadioTyped
<1> QED
  BY <1>1, <1>3, <1>4 DEF RadioInv, StationsSaved, RadioTypeOK

(* A current fetch is live, for its two generations are current together. *)
LEMMA CurrentIsLive ==
  ASSUME RadioInv, NEW s \in Seq(Thunks),
         HonestThunks(s, clientGeneration, directoryGeneration, askedFor)
  PROVE  LivePaths(s) = Paths(s, clientGeneration)
  BY DEF LivePaths, Live, Paths, HonestThunks, Honest

(* that a reply is answered to its asker, *)
LEMMA RepliesAreLive ==
  ASSUME RadioInv
  PROVE  {r \in radioReplies : Live(r)} = radioReplies
<1>1. ASSUME NEW r \in radioReplies PROVE Live(r)
  <2>1. r.generation = clientGeneration /\ r.asker.generation = directoryGeneration
        /\ r \in Replies
    BY ReplyFacts
  <2>2. DOMAIN r = {"generation", "asker", "mirror"}
    BY <2>1 DEF Replies
  <2>3. DOMAIN ClickThunk = {"what"}
    BY DEF ClickThunk
  <2>4. r # ClickThunk
    BY <2>2, <2>3
  <2> QED
    BY <2>1, <2>4 DEF Live
<1> QED
  BY <1>1

(* How many elements a set has in which all are equal *)
LEMMA OneOrNone ==
  ASSUME NEW S, AtMostOne(S)
  PROVE  Cardinality(S) = IF S = {} THEN 0 ELSE 1
<1>1. CASE S = {}
  BY <1>1, FS_EmptySet
<1>2. CASE S # {}
  <2>1. PICK x : x \in S
    BY <1>2
  <2>2. S = {x}
    BY <2>1 DEF AtMostOne
  <2> QED
    BY <1>2, <2>2, FS_Singleton
<1> QED
  BY <1>1, <1>2

(* and that the page loads while exactly one answer is to come. *)
LEMMA InvOneLive == RadioInv => OneLiveRequest
<1> SUFFICES ASSUME RadioInv PROVE OneLiveRequest
  OBVIOUS
<1> DEFINE waiting == Paths(mirrorWaiters, clientGeneration)
           called == Paths(mirrorPosts, clientGeneration)
<1>1. /\ LivePaths(mirrorWaiters) = waiting /\ LivePaths(mirrorPosts) = called
      /\ {r \in radioReplies : Live(r)} = radioReplies
  BY InvNumbers, CurrentIsLive, RepliesAreLive
<1>2. One(waiting, called, radioReplies) /\ loadingStations \in BOOLEAN
      /\ (loadingStations <=> ~NoPath(waiting, called, radioReplies))
  BY DEF RadioInv, OnePath, RadioTyped
<1> HIDE DEF waiting, called
<1>3. /\ Cardinality(waiting) = IF waiting = {} THEN 0 ELSE 1
      /\ Cardinality(called) = IF called = {} THEN 0 ELSE 1
      /\ Cardinality(radioReplies) = IF radioReplies = {} THEN 0 ELSE 1
  BY <1>2, OneOrNone DEF One
<1>4. Cardinality(waiting) + Cardinality(called) + Cardinality(radioReplies)
        = IF loadingStations THEN 1 ELSE 0
  BY <1>2, <1>3 DEF One, NoPath
<1>5. shownOf \in {Nothing, askedFor} /\ \A k \in Keys : stationCache[k].of \in {Nothing, k}
  BY DEF RadioInv, ShownIsAskedFor
<1>6. mirrorWaiters # <<>> => dnsLookup
  BY DEF RadioInv, ClicksAreKept
<1>7. pendingClicks > 0 => ClickThunk \in Range(mirrorWaiters \o mirrorPosts)
  <2> SUFFICES ASSUME pendingClicks > 0
               PROVE  ClickThunk \in Range(mirrorWaiters \o mirrorPosts)
    OBVIOUS
  <2> DEFINE all == mirrorWaiters \o mirrorPosts
  <2>1. /\ all \in Seq(Thunks) /\ Len(all) = Len(mirrorWaiters) + Len(mirrorPosts)
        /\ \A i \in 1..(Len(mirrorWaiters) + Len(mirrorPosts)) :
             all[i] = IF i <= Len(mirrorWaiters) THEN mirrorWaiters[i]
                      ELSE mirrorPosts[i - Len(mirrorWaiters)]
        /\ Len(mirrorWaiters) \in Nat /\ Len(mirrorPosts) \in Nat
    BY InvNumbers, ConcatProperties, LenProperties
  <2> HIDE DEF all
  <2>2. \E j \in 1..Len(all) : all[j] = ClickThunk
    <3>1. CASE \E i \in 1..Len(mirrorWaiters) : mirrorWaiters[i] = ClickThunk
      BY <2>1, <3>1
    <3>2. ASSUME NEW i \in 1..Len(mirrorPosts), mirrorPosts[i] = ClickThunk
          PROVE  \E j \in 1..Len(all) : all[j] = ClickThunk
      <4>1. /\ i + Len(mirrorWaiters) \in 1..Len(all) /\ ~(i + Len(mirrorWaiters) <= Len(mirrorWaiters))
            /\ (i + Len(mirrorWaiters)) - Len(mirrorWaiters) = i
        BY <2>1
      <4> QED
        BY <2>1, <3>2, <4>1
    <3> QED
      BY <3>1, <3>2 DEF RadioInv, ClicksAreKept
  <2>3. ClickThunk \in Range(all)
    BY <2>1, <2>2, RangeEquality
  <2> QED
    BY <2>3 DEF all
<1> QED
  BY <1>1, <1>4, <1>5, <1>6, <1>7 DEF OneLiveRequest

(* The generations of the client and the page, the thunks that wait and the reply *)
(* that is to come stay consistent (RadioBrowserClient.cpp, RadioController.cpp). *)
THEOREM RadioStaysInv == RadioSpec => []RadioInv
<1> QED
  BY RadioInitEstablishes, RadioNextKeeps, PTL DEF RadioSpec

(* Every variable of the directory stays in its domain, and no uuid is saved twice: *)
(* AddStation() looks for the uuid, and an import has none.                   *)
THEOREM RadioIsTyped == RadioSpec => []RadioTypeOK
<1> QED
  BY RadioStaysInv, InvTyped, PTL

(* The page loads exactly while one lookup, single shot or reply will answer it,   *)
(* the stations shown and cached are those that were asked for, and a recorded     *)
(* click is waited for: requestFromMirror() and request() check the generations.    *)
THEOREM LoadingHasOneRequest == RadioSpec => []OneLiveRequest
<1> QED
  BY RadioStaysInv, InvOneLive, PTL

HIDE RadioAssumption

-----------------------------------------------------------------------------
(* Extensions: what runs and is shown is trusted now *)

Contents == {"scanned", "edited", "broken"}
ModEntries == [root : 1..Roots, package : Packages, enabled : BOOLEAN,
               diagnostic : {"none", "unparsed", "duplicate", "theme"}]
Themes == [id : Ids, digest : {p.digest : p \in Packages}, content : Contents]

EntriesTyped(es) ==
  /\ \E n \in Nat : DOMAIN es = 1..n
  /\ \A i \in DOMAIN es : es[i] \in ModEntries

(* The first parsed package of an ID in scan order; a duplicate is never enabled. *)
Original(e) == e.diagnostic \in {"none", "theme"}
OneOriginal(es) ==
  /\ \A i \in DOMAIN es : es[i].enabled => Original(es[i])
  /\ \A i, j \in DOMAIN es :
       Original(es[i]) /\ Original(es[j]) /\ es[i].package.id = es[j].package.id => i = j

(* An enabled package whose ID is not enabled in the settings is hidden by a        *)
(* duplicate that comes before it, and has no grant.                           *)
Hidden(es, i) == \E j \in DOMAIN es : j < i /\ Named(es[j], es[i].package.id)
EnabledInSettings(es, setting, g) ==
  \A i \in DOMAIN es :
    es[i].enabled => es[i].package.id \in setting
                     \/ (Hidden(es, i) /\ ~Granted(es[i].package, g))

ExtensionsTyped ==
  /\ themeFiles \in [1..Roots -> Contents]
  /\ enabledSetting \in SUBSET Ids
  /\ grants = [id \in Ids |-> grants[id]]
  /\ currentTheme.id \in availableThemes
  /\ currentTheme \in Themes \cup {BuiltIn}
  /\ savedHue \in [Ids -> SUBSET Hues]
  /\ hueShown \in Hues /\ hueTimer \in BOOLEAN

EntriesOK(es, setting, g) ==
  EntriesTyped(es) /\ OneOriginal(es) /\ EnabledInSettings(es, setting, g)

ExtensionsInv ==
  /\ EntriesOK(modEntries, enabledSetting, grants)
  /\ ExtensionsTyped /\ RuntimeFollowsTrust

(* What is trusted, of any entries *)
TrustedBy(es, setting, g, id, digest) ==
  /\ id \in setting
  /\ \E i \in DOMAIN es :
       /\ es[i].diagnostic = "none" /\ es[i].enabled
       /\ es[i].package.id = id /\ es[i].package.digest = digest
       /\ Granted(es[i].package, g)

(* A theme read with another content than the scanned one, of any entries and files *)
ChangedSince(es, files, t) ==
  \E i \in DOMAIN es :
    /\ es[i].package.id = t.id /\ es[i].package.digest = t.digest
    /\ files[es[i].root] # "scanned"

USE ExtensionsAssumption

-----------------------------------------------------------------------------
(* What a package in the list consists of *)
LEMMA EntryFields ==
  ASSUME NEW e \in ModEntries
  PROVE  /\ e.root \in 1..Roots
         /\ e.package \in Packages /\ e.package.id \in Ids /\ e.enabled \in BOOLEAN
         /\ e.package.digest # "none"
         /\ e.diagnostic \in {"none", "unparsed", "duplicate", "theme"}
  BY DEF ModEntries, Ids

(* The first of the entries that have an ID *)
LEMMA FirstNamed ==
  ASSUME NEW es, EntriesTyped(es), NEW id, \E i \in DOMAIN es : Named(es[i], id)
  PROVE  \E i \in DOMAIN es : Named(es[i], id) /\ \A j \in 1..(i - 1) : ~Named(es[j], id)
<1> DEFINE T == {i \in DOMAIN es : Named(es[i], id)}
<1>1. PICK n \in Nat : DOMAIN es = 1..n
  BY DEF EntriesTyped
<1>2. T \in SUBSET Nat /\ T # {}
  BY <1>1
<1>3. PICK i \in T : \A j \in T : i <= j
  <2> HIDE DEF T
  <2> QED
    BY <1>2, LeastNumber
<1>4. \A j \in 1..(i - 1) : j \in DOMAIN es /\ ~(i <= j)
  BY <1>1
<1> QED
  BY <1>3, <1>4

(* findById() returns the first package of the ID. *)
LEMMA FindIsFirst ==
  ASSUME EntriesTyped(modEntries), NEW id, Found(id)
  PROVE  /\ Find(id) \in DOMAIN modEntries /\ Named(modEntries[Find(id)], id)
         /\ modEntries[Find(id)].package.id = id
         /\ \A j \in DOMAIN modEntries : Named(modEntries[j], id) => Find(id) <= j
<1>1. \E i \in DOMAIN modEntries :
        Named(modEntries[i], id) /\ \A j \in 1..(i - 1) : ~Named(modEntries[j], id)
  BY FirstNamed DEF Found
<1>2. /\ Find(id) \in DOMAIN modEntries /\ Named(modEntries[Find(id)], id)
      /\ \A j \in 1..(Find(id) - 1) : ~Named(modEntries[j], id)
  BY <1>1 DEF Find
<1> DEFINE f == Find(id)
<1> HIDE DEF f
<1>3. PICK n \in Nat : DOMAIN modEntries = 1..n
  BY DEF EntriesTyped
<1>4. \A j \in DOMAIN modEntries : f <= j \/ j \in 1..(f - 1)
  BY <1>2, <1>3 DEF f
<1> QED
  BY <1>2, <1>4 DEF Named, f

-----------------------------------------------------------------------------
(* What rebuildRuntime() makes of the entries *)

Mark(e, files) ==
  IF e.diagnostic = "none" /\ HasKind(e, "theme") /\ ~ThemeReads(e, files)
  THEN [e EXCEPT !.diagnostic = "theme"] ELSE e

(* A theme that cannot be loaded gets a diagnostic, and keeps the rest, *)
LEMMA MarkKeeps ==
  ASSUME NEW e \in ModEntries, NEW files
  PROVE  /\ Mark(e, files) \in ModEntries /\ Mark(e, files).package = e.package
         /\ Mark(e, files).enabled = e.enabled
         /\ Mark(e, files).root = e.root
         /\ Mark(e, files).diagnostic = e.diagnostic
              \/ (e.diagnostic = "none" /\ Mark(e, files).diagnostic = "theme")
         /\ Original(Mark(e, files)) <=> Original(e)
         /\ \A id : Named(Mark(e, files), id) <=> Named(e, id)
<1> DEFINE m == [e EXCEPT !.diagnostic = "theme"]
<1>1. m \in ModEntries /\ m.package = e.package /\ m.enabled = e.enabled
      /\ m.root = e.root /\ m.diagnostic = "theme"
  BY DEF ModEntries
<1>2. Mark(e, files) = e \/ (e.diagnostic = "none" /\ Mark(e, files) = m)
  BY DEF Mark
<1> HIDE DEF m
<1> QED
  BY <1>1, <1>2 DEF Original, Named

Marked(es, files) == [i \in DOMAIN es |-> Mark(es[i], files)]

(* and so does the list they are in. *)
LEMMA MarkedKeeps ==
  ASSUME NEW es, NEW files, NEW setting, NEW g, EntriesOK(es, setting, g)
  PROVE  EntriesOK(Marked(es, files), setting, g)
<1> DEFINE ms == Marked(es, files)
<1>1. \A i \in DOMAIN es : ms[i] = Mark(es[i], files) /\ es[i] \in ModEntries
  BY DEF Marked, EntriesOK, EntriesTyped
<1>2. DOMAIN ms = DOMAIN es
  BY DEF Marked
<1> HIDE DEF ms
<1>3. \A i \in DOMAIN es :
        /\ ms[i] \in ModEntries /\ ms[i].package = es[i].package /\ ms[i].enabled = es[i].enabled
        /\ Original(ms[i]) <=> Original(es[i])
        /\ \A id : Named(ms[i], id) <=> Named(es[i], id)
  BY <1>1, MarkKeeps
<1>4. EntriesTyped(ms)
  BY <1>2, <1>3 DEF EntriesOK, EntriesTyped
<1>5. OneOriginal(ms)
  BY <1>2, <1>3 DEF EntriesOK, OneOriginal
<1>6. \A i \in DOMAIN es : Hidden(es, i) => Hidden(ms, i)
  BY <1>2, <1>3 DEF Hidden
<1>7. EnabledInSettings(ms, setting, g)
  BY <1>2, <1>3, <1>6 DEF EntriesOK, EnabledInSettings
<1> QED
  BY <1>4, <1>5, <1>7 DEF EntriesOK, ms

(* An available package that is enabled and granted is trusted. *)
LEMMA GrantedIsTrusted ==
  ASSUME NEW es, NEW setting, NEW g, EntriesOK(es, setting, g), NEW i \in DOMAIN es,
         es[i].diagnostic = "none", es[i].enabled, Granted(es[i].package, g)
  PROVE  TrustedBy(es, setting, g, es[i].package.id, es[i].package.digest)
  BY DEF EntriesOK, EnabledInSettings, TrustedBy

(* The runtime is rebuilt from a list and grants that agree. *)
LEMMA RebuildKeeps ==
  ASSUME ExtensionsInv, NEW es, NEW g, NEW files \in [1..Roots -> Contents], NEW activated,
         NEW setting \in SUBSET Ids,
         EntriesOK(es, setting, g), g = [id \in Ids |-> g[id]],
         \A i \in DOMAIN es : Original(es[i]) /\ es[i].package.id \in activated
                              => es[i].enabled /\ Granted(es[i].package, g),
         RebuildRuntime(es, g, files, activated), grants' = g, enabledSetting' = setting
  PROVE  ExtensionsInv'
<1> DEFINE marked == [i \in DOMAIN es |->
             IF es[i].diagnostic = "none" /\ HasKind(es[i], "theme") /\ ~ThemeReads(es[i], files)
             THEN [es[i] EXCEPT !.diagnostic = "theme"] ELSE es[i]]
           usable == {i \in DOMAIN es : marked[i].diagnostic = "none"}
           active == {marked[i].package : i \in {j \in usable :
                        marked[j].enabled /\ Granted(marked[j].package, g)}}
           theme(e) == [id |-> e.package.id, digest |-> e.package.digest,
                        content |-> files[e.root]]
           themes == {theme(marked[i]) : i \in {j \in usable : HasKind(marked[j], "theme")}}
           first == {i \in DOMAIN es : Named(es[i], themeSetting)
                       /\ \A j \in 1..(i - 1) : ~Named(es[j], themeSetting)}
           bySetting == IF \E i \in first : es[i].enabled /\ Granted(es[i].package, g)
                        THEN {t \in themes : t.id = themeSetting} ELSE {BuiltIn}
           byUser == {t \in themes : t.id \in activated}
           chosen == IF byUser # {} THEN byUser ELSE bySetting
           Sure(t) == TrustedBy(marked, setting, g, t.id, t.digest)
<1>1. marked = Marked(es, files)
  BY DEF Marked, Mark
<1>2. /\ modEntries' = marked
      /\ availableThemes' = {BuiltIn.id} \cup {t.id : t \in themes}
      /\ uiExtensions' = UNION {
           {<<p.id, p.digest, slot>> : slot \in p.slots \cap g[p.id].permissions} :
             p \in {q \in active : "ui-extension" \in q.kinds}}
      /\ providerSessions' = {<<p.id, p.digest>> :
             p \in {q \in active : "provider" \in q.kinds}}
      /\ IF chosen # {} THEN SelectTheme(CHOOSE t \in chosen : TRUE)
         ELSE /\ currentTheme' = BuiltIn /\ hueShown' = 0
              /\ UNCHANGED <<themeSetting, hueTimer>>
      /\ themeFiles' = files
      /\ savedHue' = savedHue
  BY Zenon DEF RebuildRuntime
<1>3. EntriesOK(marked, setting, g)
  BY <1>1, MarkedKeeps
<1>4. /\ DOMAIN marked = DOMAIN es
      /\ \A i \in DOMAIN es : /\ es[i] \in ModEntries /\ marked[i] \in ModEntries
                              /\ marked[i].package = es[i].package
                              /\ marked[i].enabled = es[i].enabled
                              /\ Original(marked[i]) <=> Original(es[i])
  <2> HIDE DEF marked
  <2>1. DOMAIN marked = DOMAIN es /\ \A i \in DOMAIN es : marked[i] = Mark(es[i], files)
    BY <1>1 DEF Marked
  <2>2. \A i \in DOMAIN es : es[i] \in ModEntries
    BY DEF EntriesOK, EntriesTyped
  <2>3. ASSUME NEW i \in DOMAIN es
        PROVE  /\ Mark(es[i], files) \in ModEntries
               /\ Mark(es[i], files).package = es[i].package
               /\ Mark(es[i], files).enabled = es[i].enabled
               /\ Original(Mark(es[i], files)) <=> Original(es[i])
    BY <2>2, MarkKeeps
  <2> QED
    BY <2>1, <2>2, <2>3
<1> HIDE DEF marked
<1>5. \A p \in active : TrustedBy(marked, setting, g, p.id, p.digest)
  <2> SUFFICES ASSUME NEW i \in DOMAIN es, marked[i].diagnostic = "none", marked[i].enabled,
                      Granted(marked[i].package, g)
               PROVE  TrustedBy(marked, setting, g, marked[i].package.id,
                                marked[i].package.digest)
    OBVIOUS
  <2> QED
    BY <1>3, <1>4, GrantedIsTrusted
<1>6. \A s \in providerSessions' : TrustedBy(marked, setting, g, s[1], s[2])
  <2> HIDE DEF active
  <2> QED
    BY <1>2, <1>5
<1>7. \A u \in uiExtensions' : TrustedBy(marked, setting, g, u[1], u[2])
  <2> HIDE DEF active
  <2> TAKE u \in uiExtensions'
  <2>1. PICK p \in active : \E slot : u = <<p.id, p.digest, slot>>
    BY <1>2
  <2>2. u[1] = p.id /\ u[2] = p.digest
    BY <2>1
  <2> QED
    BY <1>5, <2>2
<1> HIDE DEF active
<1>8. ASSUME NEW t \in themes
      PROVE  \E j \in DOMAIN es :
               /\ marked[j].diagnostic = "none" /\ t = theme(marked[j])
               /\ t.id = marked[j].package.id /\ t.digest = marked[j].package.digest
               /\ t.content = files[marked[j].root]
  <2>1. PICK j \in DOMAIN es : marked[j].diagnostic = "none" /\ t = theme(marked[j])
    BY <1>8
  <2> QED
    BY <2>1
<1>9. themes \in SUBSET Themes
  <2> SUFFICES ASSUME NEW t \in themes PROVE t \in Themes
    OBVIOUS
  <2>1. PICK j \in DOMAIN es : t = theme(marked[j])
    BY <1>8
  <2>2. marked[j].package \in Packages /\ marked[j].root \in 1..Roots
    BY <1>4, EntryFields
  <2>3. files[marked[j].root] \in Contents
    BY <2>2
  <2> QED
    BY <2>1, <2>2, <2>3 DEF Themes, Ids
<1> HIDE DEF themes, first, theme
<1>10. ASSUME NEW t \in themes, NEW i \in DOMAIN es, es[i].enabled, Granted(es[i].package, g),
              es[i].package.id = t.id
       PROVE  Sure(t)
  <2>1. PICK j \in DOMAIN es : /\ marked[j].diagnostic = "none"
                               /\ t.id = marked[j].package.id /\ t.digest = marked[j].package.digest
    BY <1>8
  <2>2. Original(marked[i]) /\ Original(marked[j])
    BY <1>3, <1>4, <1>10, <2>1 DEF EntriesOK, OneOriginal, Original
  <2>3. i = j
    BY <1>3, <1>4, <1>10, <2>1, <2>2 DEF EntriesOK, OneOriginal
  <2>4. TrustedBy(marked, setting, g, marked[j].package.id, marked[j].package.digest)
    BY <1>3, <1>4, <1>10, <2>1, <2>3, GrantedIsTrusted
  <2> QED
    BY <2>1, <2>4
<1>11. \A t \in bySetting : t = BuiltIn \/ (t \in themes /\ Sure(t))
  <2>1. \A i \in first : i \in DOMAIN es /\ es[i].package.id = themeSetting
    BY DEF Named, first
  <2> QED
    BY <1>10, <2>1
<1>12. \A t \in byUser : t \in themes /\ Sure(t)
  <2> SUFFICES ASSUME NEW t \in themes, t.id \in activated PROVE Sure(t)
    OBVIOUS
  <2>1. PICK j \in DOMAIN es : marked[j].diagnostic = "none" /\ t.id = marked[j].package.id
    BY <1>8
  <2>2. Original(es[j]) /\ es[j].package.id = t.id
    BY <1>4, <2>1 DEF Original
  <2> QED
    BY <1>10, <2>2
<1> HIDE DEF bySetting, byUser
<1>13. \A t \in chosen : t = BuiltIn \/ (t \in themes /\ Sure(t))
  BY <1>11, <1>12
<1> HIDE DEF chosen
<1>14. currentTheme' = BuiltIn \/ (currentTheme' \in themes /\ Sure(currentTheme'))
  BY <1>2, <1>13 DEF SelectTheme
<1>15. ASSUME currentTheme' \in themes, currentTheme'.content = "edited"
       PROVE  ChangedSince(marked, files, currentTheme')
  <2>1. PICK j \in DOMAIN es :
          /\ currentTheme'.id = marked[j].package.id
          /\ currentTheme'.digest = marked[j].package.digest
          /\ currentTheme'.content = files[marked[j].root]
    BY <1>8, <1>15
  <2> QED
    BY <1>4, <1>15, <2>1 DEF ChangedSince
<1>16. RuntimeFollowsTrust'
  <2>1. \A id, digest : TrustedBy(marked, setting, g, id, digest) => Trusted(id, digest)'
    BY <1>2 DEF TrustedBy, Trusted
  <2>2. currentTheme' # BuiltIn => Trusted(currentTheme.id, currentTheme.digest)'
    BY <1>14, <2>1
  <2>3. currentTheme'.content = "edited" => ChangedSince(marked, files, currentTheme')
    BY <1>14, <1>15 DEF BuiltIn
  <2>4. ChangedSince(marked, files, currentTheme') =>
          \E i \in DOMAIN modEntries' :
            /\ modEntries'[i].package.id = currentTheme'.id
            /\ modEntries'[i].package.digest = currentTheme'.digest
            /\ themeFiles'[modEntries'[i].root] # "scanned"
    BY <1>2 DEF ChangedSince
  <2> QED
    BY <1>6, <1>7, <2>1, <2>2, <2>3, <2>4 DEF RuntimeFollowsTrust
<1>17. currentTheme' \in Themes \cup {BuiltIn} /\ currentTheme'.id \in availableThemes'
  BY <1>2, <1>9, <1>14
<1>18. savedHue' \in [Ids -> SUBSET Hues]
  BY <1>2 DEF ExtensionsInv, ExtensionsTyped
<1>19. hueShown' \in Hues /\ hueTimer' \in BOOLEAN
  <2>1. \A id \in Ids : SavedOr(id, 0) \in Hues
    BY DEF SavedOr, ExtensionsInv, ExtensionsTyped
  <2>2. CASE chosen = {}
    BY <1>2, <2>2 DEF ExtensionsInv, ExtensionsTyped
  <2>3. CASE chosen # {}
    <3> DEFINE t == CHOOSE u \in chosen : TRUE
    <3>1. SelectTheme(t) /\ t \in chosen
      BY <1>2, <2>3
    <3>2. t = BuiltIn \/ t.id \in Ids
      BY <1>9, <1>13, <3>1 DEF Themes
    <3> HIDE DEF t
    <3> QED
      BY <2>1, <3>1, <3>2 DEF SelectTheme
  <2> QED
    BY <2>2, <2>3
<1>20. ExtensionsTyped'
  BY <1>2, <1>17, <1>18, <1>19 DEF ExtensionsTyped
<1>21. EntriesOK(modEntries', enabledSetting', grants')
  BY <1>2, <1>3
<1> QED
  BY <1>16, <1>20, <1>21 DEF ExtensionsInv

-----------------------------------------------------------------------------
(* A scan *)

(* A scan finds every package in the order of the roots and names, the second of *)
(* an ID being a duplicate, and enables what the settings and grants say.        *)
LEMMA ScanIsOK ==
  ASSUME NEW disk \in Disks
  PROVE  EntriesOK(Scanned(disk), enabledSetting, grants)
<1> DEFINE present == {r \in 1..Roots : disk[r] # {}}
           package(r) == CHOOSE p \in disk[r] : TRUE
           doubled(r) == \E q \in present : q < r /\ Parses(package(q))
                                            /\ package(q).id = package(r).id
           entry(r) ==
             IF ~Parses(package(r))
             THEN [root |-> r, package |-> package(r), enabled |-> FALSE,
                   diagnostic |-> "unparsed"]
             ELSE IF doubled(r)
             THEN [root |-> r, package |-> package(r), enabled |-> FALSE,
                   diagnostic |-> "duplicate"]
             ELSE [root |-> r, package |-> package(r),
                   enabled |-> package(r).id \in enabledSetting, diagnostic |-> "none"]
           places == {k \in DOMAIN ByName : ByName[k] \in present}
           m == Cardinality(places)
           place == InOrder(places)
           order == Sublist(ByName, places)
           es == [i \in DOMAIN order |-> entry(order[i])]
<1>1. Scanned(disk) = es
  BY Zenon DEF Scanned
<1>2. \A r \in present : package(r) \in Packages
  BY DEF Disks
<1>3. Roots \in Nat /\ ByName \in [1..Roots -> 1..Roots] /\ places \in SUBSET (1..Roots)
  OBVIOUS
<1> HIDE DEF places
<1>4. m \in Nat /\ Enumerates(place, m, places)
  BY <1>3, InOrderEnumerates
<1>5. DOMAIN order = 1..m /\ \A k \in 1..m : order[k] = ByName[place[k]]
  BY DEF Sublist
<1> HIDE DEF m, order, place
<1>6. \A k \in 1..m : place[k] \in places /\ place[k] \in 1..Roots
  BY <1>3, <1>4 DEF Enumerates
<1>7. \A k \in 1..m : order[k] \in present
  BY <1>5, <1>6 DEF places
<1>8. \A j, k \in 1..m : order[j] = order[k] => j = k
  <2>1. \A j, k \in 1..m : order[j] = order[k] => place[j] = place[k]
    BY <1>3, <1>5, <1>6 DEF IsInjective
  <2>2. \A j, k \in 1..m : j < k => place[j] < place[k] /\ place[j] \in Nat /\ place[k] \in Nat
    <3>1. \A j, k \in 1..m : j < k => place[j] < place[k]
      BY <1>4 DEF Enumerates
    <3>2. \A j \in 1..m : place[j] \in Nat
      BY <1>6
    <3> QED
      BY <3>1, <3>2
  <2> QED
    BY <1>4, <2>1, <2>2
<1>11. \A r \in present : r \in Nat /\ r \in 1..Roots
  BY <1>3 DEF present
<1> HIDE DEF package, present
<1>9. ASSUME NEW r \in present
      PROVE  /\ entry(r) \in ModEntries /\ entry(r).package = package(r)
             /\ entry(r).enabled => entry(r).diagnostic = "none"
             /\ entry(r).enabled => package(r).id \in enabledSetting
             /\ Original(entry(r)) => Parses(package(r)) /\ ~doubled(r)
  <2> DEFINE known == package(r).id \in enabledSetting
  <2>1. package(r) \in Packages /\ known \in BOOLEAN /\ r \in 1..Roots
    BY <1>2, <1>9, <1>11
  <2>2. CASE ~Parses(package(r))
    <3>1. entry(r) = [root |-> r, package |-> package(r), enabled |-> FALSE,
                   diagnostic |-> "unparsed"]
      BY <2>2
    <3> HIDE DEF entry
    <3> QED
      BY <2>1, <3>1 DEF ModEntries, Original
  <2>3. CASE Parses(package(r)) /\ doubled(r)
    <3>1. entry(r) = [root |-> r, package |-> package(r), enabled |-> FALSE,
                   diagnostic |-> "duplicate"]
      BY <2>3
    <3> HIDE DEF entry
    <3> QED
      BY <2>1, <3>1 DEF ModEntries, Original
  <2>4. CASE Parses(package(r)) /\ ~doubled(r)
    <3>1. entry(r) = [root |-> r, package |-> package(r), enabled |-> known,
                   diagnostic |-> "none"]
      BY <2>4
    <3> HIDE DEF entry, known
    <3>2. entry(r) \in ModEntries /\ entry(r).package = package(r) /\ entry(r).enabled = known
          /\ entry(r).diagnostic = "none"
      BY <2>1, <3>1 DEF ModEntries
    <3> QED
      BY <2>4, <3>2 DEF known
  <2> QED
    BY <2>2, <2>3, <2>4
<1>10. \A q, r \in present : Parses(package(q)) /\ package(q).id = package(r).id /\ q < r
                              => doubled(r)
  OBVIOUS
<1> HIDE DEF entry, doubled
<1>12. DOMAIN es = 1..m /\ \A i \in 1..m : es[i] = entry(order[i])
  BY <1>5
<1> HIDE DEF es
<1>13. EntriesTyped(es)
  <2>1. \A i \in 1..m : es[i] \in ModEntries
    BY <1>7, <1>9, <1>12
  <2> QED
    BY <1>4, <1>12, <2>1 DEF EntriesTyped
<1>14. \A i \in 1..m : es[i].enabled => Original(es[i]) /\ es[i].package.id \in enabledSetting
  BY <1>7, <1>9, <1>12 DEF Original
<1>15. ASSUME NEW i \in 1..m, NEW j \in 1..m, Original(es[i]), Original(es[j]),
              es[i].package.id = es[j].package.id
       PROVE  i = j
  <2>1. /\ Parses(package(order[i])) /\ ~doubled(order[i])
        /\ Parses(package(order[j])) /\ ~doubled(order[j])
        /\ package(order[i]).id = package(order[j]).id
    BY <1>7, <1>9, <1>12, <1>15
  <2>2. order[i] \in Nat /\ order[j] \in Nat
    BY <1>7, <1>11
  <2>3. ~(order[i] < order[j]) /\ ~(order[j] < order[i])
    BY <1>7, <1>10, <2>1
  <2>4. order[i] = order[j]
    BY <2>2, <2>3
  <2> QED
    BY <1>8, <2>4
<1>16. OneOriginal(es)
  BY <1>12, <1>14, <1>15 DEF OneOriginal
<1>17. EnabledInSettings(es, enabledSetting, grants)
  BY <1>12, <1>14 DEF EnabledInSettings
<1> QED
  BY <1>1, <1>13, <1>16, <1>17 DEF EntriesOK

(* A refresh scans and rebuilds. *)
LEMMA RefreshKeeps ==
  ASSUME ExtensionsInv, NEW disk \in Disks, RefreshMods(disk)
  PROVE  ExtensionsInv'
<1>1. RebuildRuntime(Scanned(disk), grants, AsScanned, {})
      /\ grants' = grants /\ enabledSetting' = enabledSetting
  BY DEF RefreshMods
<1>2. enabledSetting \in SUBSET Ids /\ grants = [id \in Ids |-> grants[id]]
  BY DEF ExtensionsInv, ExtensionsTyped
<1>3. AsScanned \in [1..Roots -> Contents]
  BY DEF AsScanned, Contents
<1> DEFINE es == Scanned(disk)
<1>4. EntriesOK(es, enabledSetting, grants)
  BY ScanIsOK
<1>5. RebuildRuntime(es, grants, AsScanned, {})
  BY <1>1
<1> HIDE DEF es
<1>6. \A i \in DOMAIN es : Original(es[i]) /\ es[i].package.id \in {}
                          => es[i].enabled /\ Granted(es[i].package, grants)
  OBVIOUS
<1> QED
  BY <1>1, <1>2, <1>3, <1>4, <1>5, <1>6, RebuildKeeps

-----------------------------------------------------------------------------
(* Grants *)

(* What a grant of an available package changes *)
WithGrant(id, grant) == [grants EXCEPT ![id] = grant]

(* A grant for the package that is found leaves the others as they are. *)
LEMMA GrantIsOK ==
  ASSUME ExtensionsInv, NEW id \in Ids, Found(id),
         modEntries[Find(id)].diagnostic = "none", NEW g, NEW grant,
         g = WithGrant(id, grant)
  PROVE  /\ EntriesOK(modEntries, enabledSetting, g)
         /\ g = [i \in Ids |-> g[i]] /\ g[id] = grant
         /\ \A i \in Ids : i # id => g[i] = grants[i]
<1>1. EntriesTyped(modEntries) /\ OneOriginal(modEntries)
      /\ EnabledInSettings(modEntries, enabledSetting, grants)
  BY DEF ExtensionsInv, EntriesOK
<1>2. /\ Find(id) \in DOMAIN modEntries /\ modEntries[Find(id)].package.id = id
      /\ \A j \in DOMAIN modEntries : Named(modEntries[j], id) => Find(id) <= j
  BY <1>1, FindIsFirst
<1>3. /\ g = [i \in Ids |-> g[i]] /\ g[id] = grant
      /\ \A i \in Ids : i # id => g[i] = grants[i]
  BY DEF ExtensionsInv, ExtensionsTyped, WithGrant
<1>4. \A i \in DOMAIN modEntries : modEntries[i].package.id \in Ids /\ i \in Nat
  BY <1>1, EntryFields DEF EntriesTyped
<1>5. ASSUME NEW i \in DOMAIN modEntries, modEntries[i].enabled,
             modEntries[i].package.id \notin enabledSetting
      PROVE  Hidden(modEntries, i) /\ ~Granted(modEntries[i].package, g)
  <2>1. Hidden(modEntries, i) /\ ~Granted(modEntries[i].package, grants)
    BY <1>1, <1>5 DEF EnabledInSettings
  <2>2. CASE modEntries[i].package.id # id
    BY <1>3, <1>4, <2>1, <2>2 DEF Granted
  <2>3. CASE modEntries[i].package.id = id
    <3>1. i = Find(id)
      BY <1>1, <1>2, <1>5, <2>3 DEF OneOriginal, Original
    <3>2. PICK j \in DOMAIN modEntries : j < i /\ Named(modEntries[j], id)
      BY <2>1, <2>3 DEF Hidden
    <3> QED
      BY <1>2, <1>4, <3>1, <3>2
  <2> QED
    BY <2>2, <2>3
<1>6. EnabledInSettings(modEntries, enabledSetting, g)
  BY <1>5 DEF EnabledInSettings
<1> QED
  BY <1>1, <1>3, <1>6 DEF EntriesOK

(* Trusting a package writes its grant and rebuilds the runtime. *)
LEMMA GrantKeeps ==
  ASSUME ExtensionsInv, NEW id \in Ids, NEW written, GrantDeclared(id, written)
  PROVE  ExtensionsInv'
<1> DEFINE e == modEntries[Find(id)]
           grant == [digest |-> e.package.digest, permissions |-> e.package.permissions]
           g == [grants EXCEPT ![id] = grant]
<1>1. /\ Found(id) /\ e.diagnostic = "none" /\ grants' = g /\ enabledSetting' = enabledSetting
  BY DEF GrantDeclared
<1>2. grant.digest = e.package.digest /\ grant.permissions = e.package.permissions
  OBVIOUS
<1> HIDE DEF grant
<1>3. /\ EntriesOK(modEntries, enabledSetting, g) /\ g = [i \in Ids |-> g[i]]
      /\ g[id] = grant /\ \A i \in Ids : i # id => g[i] = grants[i]
  <2>1. g = WithGrant(id, grant)
    BY DEF WithGrant
  <2> HIDE DEF g
  <2> QED
    BY <1>1, <2>1, GrantIsOK
<1>4. EntriesTyped(modEntries) /\ OneOriginal(modEntries)
  BY DEF ExtensionsInv, EntriesOK
<1>5. Find(id) \in DOMAIN modEntries /\ e.package.id = id /\ Named(e, id)
  BY <1>1, <1>4, FindIsFirst
<1>6. enabledSetting \in SUBSET Ids /\ themeFiles \in [1..Roots -> Contents]
  BY DEF ExtensionsInv, ExtensionsTyped
<1>7. CASE written
  <2>1. RebuildRuntime(modEntries, g, themeFiles, {})
    BY <1>7 DEF GrantDeclared, grant
  <2> HIDE DEF g
  <2> QED
    BY <1>1, <1>3, <1>6, <2>1, RebuildKeeps
<1>8. CASE ~written
  <2>1. UNCHANGED <<themeFiles, modEntries, themeSetting, availableThemes, currentTheme,
                    uiExtensions, providerSessions, hueShown, savedHue, hueTimer>>
    BY <1>8 DEF GrantDeclared
  <2>2. ExtensionsTyped'
    BY <1>1, <1>3, <2>1 DEF ExtensionsInv, ExtensionsTyped
  <2> HIDE DEF g
  <2>3. ASSUME NEW id2, NEW digest, Trusted(id2, digest)
        PROVE  Trusted(id2, digest)'
    <3>1. PICK i \in DOMAIN modEntries :
            /\ modEntries[i].diagnostic = "none" /\ modEntries[i].enabled
            /\ modEntries[i].package.id = id2 /\ modEntries[i].package.digest = digest
            /\ Granted(modEntries[i].package, grants)
      BY <2>3 DEF Trusted
    <3>2. modEntries[i].package.id \in Ids
      BY <1>4, EntryFields DEF EntriesTyped
    <3>3. CASE id2 # id
      BY <1>1, <1>3, <2>1, <2>3, <3>1, <3>2, <3>3 DEF Trusted, Granted
    <3>4. CASE id2 = id
      <4>1. i = Find(id)
        BY <1>1, <1>4, <1>5, <3>1, <3>4 DEF OneOriginal, Original
      <4>2. Granted(modEntries[i].package, g)
        BY <1>2, <1>3, <1>5, <4>1 DEF Granted
      <4> QED
        BY <1>1, <2>1, <2>3, <3>1, <4>2 DEF Trusted
    <3> QED
      BY <3>3, <3>4
  <2>4. RuntimeFollowsTrust'
    BY <2>1, <2>3 DEF ExtensionsInv, RuntimeFollowsTrust
  <2> QED
    BY <1>1, <1>3, <2>1, <2>2, <2>4 DEF ExtensionsInv
<1> QED
  BY <1>7, <1>8

-----------------------------------------------------------------------------
(* Enabling *)

(* The first entry of an ID with another flag *)
Flagged(es, id, on) ==
  /\ DOMAIN es = DOMAIN modEntries
  /\ \A i \in DOMAIN modEntries :
       /\ es[i] \in ModEntries
       /\ es[i].package = modEntries[i].package /\ es[i].diagnostic = modEntries[i].diagnostic
       /\ es[i].enabled = IF i = Find(id) THEN on ELSE modEntries[i].enabled

(* One package of the list is enabled or disabled, *)
LEMMA FlagOne ==
  ASSUME ExtensionsInv, NEW id, Found(id), NEW on \in BOOLEAN
  PROVE  Flagged([modEntries EXCEPT ![Find(id)].enabled = on], id, on)
<1> DEFINE f == Find(id)
           es == [modEntries EXCEPT ![f].enabled = on]
           e == modEntries[f]
           new == [e EXCEPT !.enabled = on]
<1>1. \A i \in DOMAIN modEntries : modEntries[i] \in ModEntries
  BY DEF ExtensionsInv, EntriesOK, EntriesTyped
<1>2. f \in DOMAIN modEntries
  BY FindIsFirst DEF ExtensionsInv, EntriesOK
<1> HIDE DEF f
<1>3. /\ new \in ModEntries /\ new.package = e.package /\ new.diagnostic = e.diagnostic
      /\ new.enabled = on
  BY <1>1, <1>2 DEF ModEntries
<1>4. DOMAIN es = DOMAIN modEntries /\ es[f] = new
      /\ \A i \in DOMAIN modEntries : i # f => es[i] = modEntries[i]
  BY <1>2
<1> HIDE DEF new, es
<1>5. Flagged(es, id, on)
  BY <1>1, <1>3, <1>4 DEF Flagged, f
<1> QED
  BY <1>5 DEF es, f

(* which changes no order, and hides no other package. *)
LEMMA FlaggedKeeps ==
  ASSUME ExtensionsInv, NEW id, NEW on \in BOOLEAN, NEW es, Flagged(es, id, on),
         on => Original(modEntries[Find(id)])
  PROVE  /\ EntriesTyped(es) /\ OneOriginal(es)
         /\ \A i \in DOMAIN modEntries : Hidden(modEntries, i) => Hidden(es, i)
<1>1. EntriesTyped(modEntries) /\ OneOriginal(modEntries)
  BY DEF ExtensionsInv, EntriesOK
<1>2. EntriesTyped(es)
  BY <1>1 DEF EntriesTyped, Flagged
<1>3. \A i \in DOMAIN modEntries : Original(es[i]) <=> Original(modEntries[i])
  BY DEF Flagged, Original
<1>4. OneOriginal(es)
  BY <1>1, <1>3 DEF OneOriginal, Flagged
<1>5. \A i \in DOMAIN modEntries : Hidden(modEntries, i) => Hidden(es, i)
  BY DEF Hidden, Flagged, Named
<1> QED
  BY <1>2, <1>4, <1>5

(* Revoking disables the package and rebuilds the runtime without it. *)
LEMMA RevokeKeeps ==
  ASSUME ExtensionsInv, NEW id \in Ids, RevokeAll(id)
  PROVE  ExtensionsInv'
<1> DEFINE es == [modEntries EXCEPT ![Find(id)].enabled = FALSE]
           g == [grants EXCEPT ![id] = NoGrant]
           setting == enabledSetting \ {id}
<1>1. Found(id) /\ grants' = g /\ enabledSetting' = setting
      /\ RebuildRuntime(es, g, themeFiles, {})
  BY DEF RevokeAll
<1>2. Flagged(es, id, FALSE)
  BY <1>1, FlagOne
<1>3. /\ g = [i \in Ids |-> g[i]] /\ g[id] = NoGrant
      /\ \A i \in Ids : i # id => g[i] = grants[i]
  BY DEF ExtensionsInv, ExtensionsTyped
<1>4. themeFiles \in [1..Roots -> Contents] /\ setting \in SUBSET Ids
      /\ \A i \in Ids : i # id => (i \in setting <=> i \in enabledSetting)
  BY DEF ExtensionsInv, ExtensionsTyped
<1> HIDE DEF es, g, setting
<1>5. EntriesTyped(es) /\ OneOriginal(es)
      /\ \A i \in DOMAIN modEntries : Hidden(modEntries, i) => Hidden(es, i)
  BY <1>2, FlaggedKeeps
<1>6. EntriesTyped(modEntries) /\ OneOriginal(modEntries)
      /\ EnabledInSettings(modEntries, enabledSetting, grants)
  BY DEF ExtensionsInv, EntriesOK
<1>7. /\ Find(id) \in DOMAIN modEntries /\ Named(modEntries[Find(id)], id)
      /\ \A j \in DOMAIN modEntries : Named(modEntries[j], id) => Find(id) <= j
  BY <1>1, <1>6, FindIsFirst
<1>8. ASSUME NEW i \in DOMAIN es, es[i].enabled, es[i].package.id \notin setting
      PROVE  Hidden(es, i) /\ ~Granted(es[i].package, g)
  <2>1. /\ i \in DOMAIN modEntries /\ i # Find(id) /\ modEntries[i].enabled
        /\ es[i].package = modEntries[i].package
    BY <1>2, <1>8 DEF Flagged
  <2>2. modEntries[i].package.id \in Ids /\ modEntries[i].package.digest # "none"
    BY <1>6, <2>1, EntryFields DEF EntriesTyped
  <2>3. CASE modEntries[i].package.id # id
    <3>1. modEntries[i].package.id \notin enabledSetting
      BY <1>4, <1>8, <2>1, <2>2, <2>3
    <3>2. Hidden(modEntries, i) /\ ~Granted(modEntries[i].package, grants)
      BY <1>6, <2>1, <3>1 DEF EnabledInSettings
    <3>3. ~Granted(modEntries[i].package, g)
      BY <1>3, <2>2, <2>3, <3>2 DEF Granted
    <3> QED
      BY <1>5, <2>1, <3>2, <3>3
  <2>4. CASE modEntries[i].package.id = id
    <3>1. Original(modEntries[i])
      BY <1>6, <2>1 DEF OneOriginal
    <3>2. Named(modEntries[i], id)
      BY <2>4, <3>1 DEF Named, Original
    <3>3. Find(id) < i
      <4>1. Find(id) \in Nat /\ i \in Nat
        BY <1>6, <1>7, <2>1 DEF EntriesTyped
      <4> QED
        BY <1>7, <2>1, <3>2, <4>1
    <3>4. Hidden(modEntries, i)
      BY <1>7, <2>4, <3>3 DEF Hidden
    <3>5. ~Granted(modEntries[i].package, g)
      BY <1>3, <2>2, <2>4 DEF Granted, NoGrant
    <3> QED
      BY <1>5, <2>1, <3>4, <3>5
  <2> QED
    BY <2>3, <2>4
<1>9. EntriesOK(es, setting, g)
  BY <1>5, <1>8 DEF EntriesOK, EnabledInSettings
<1> QED
  BY <1>1, <1>3, <1>4, <1>9, RebuildKeeps

(* Enabling a package needs its grant; either way the runtime is rebuilt. *)
LEMMA SetModEnabledKeeps ==
  ASSUME ExtensionsInv, NEW id \in Ids, NEW on \in BOOLEAN, NEW activated,
         SetModEnabled(id, on, activated), activated \in SUBSET {id}, activated # {} => on
  PROVE  ExtensionsInv'
<1> DEFINE es == [modEntries EXCEPT ![Find(id)].enabled = on]
           setting == IF on THEN enabledSetting \cup {id} ELSE enabledSetting \ {id}
<1>1. /\ Found(id) /\ modEntries[Find(id)].diagnostic = "none"
      /\ on => Granted(modEntries[Find(id)].package, grants)
      /\ enabledSetting' = setting /\ grants' = grants
      /\ RebuildRuntime(es, grants, themeFiles, activated)
  BY DEF SetModEnabled
<1>2. Flagged(es, id, on)
  BY <1>1, FlagOne
<1>3. /\ setting \in SUBSET Ids /\ (on => id \in setting)
      /\ \A i \in Ids : i # id => (i \in setting <=> i \in enabledSetting)
  BY DEF ExtensionsInv, ExtensionsTyped
<1>4. grants = [i \in Ids |-> grants[i]] /\ themeFiles \in [1..Roots -> Contents]
  BY DEF ExtensionsInv, ExtensionsTyped
<1> HIDE DEF es, setting
<1>5. EntriesTyped(es) /\ OneOriginal(es)
      /\ \A i \in DOMAIN modEntries : Hidden(modEntries, i) => Hidden(es, i)
  BY <1>1, <1>2, FlaggedKeeps DEF Original
<1>6. EntriesTyped(modEntries) /\ OneOriginal(modEntries)
      /\ EnabledInSettings(modEntries, enabledSetting, grants)
  BY DEF ExtensionsInv, EntriesOK
<1>7. Find(id) \in DOMAIN modEntries /\ modEntries[Find(id)].package.id = id
  BY <1>1, <1>6, FindIsFirst
<1>8. ASSUME NEW i \in DOMAIN es, es[i].enabled, es[i].package.id \notin setting
      PROVE  Hidden(es, i) /\ ~Granted(es[i].package, grants)
  <2>1. /\ i \in DOMAIN modEntries /\ es[i].package = modEntries[i].package
        /\ es[i].enabled = IF i = Find(id) THEN on ELSE modEntries[i].enabled
    BY <1>2, <1>8 DEF Flagged
  <2>2. modEntries[i].package.id \in Ids
    BY <1>6, <2>1, EntryFields DEF EntriesTyped
  <2>3. i # Find(id)
    BY <1>3, <1>7, <1>8, <2>1
  <2>4. modEntries[i].package.id # id
    <3>1. Original(modEntries[i]) /\ Original(modEntries[Find(id)])
      BY <1>1, <1>6, <1>8, <2>1, <2>3 DEF OneOriginal, Original
    <3> QED
      BY <1>6, <1>7, <2>1, <2>3, <3>1 DEF OneOriginal
  <2>5. Hidden(modEntries, i) /\ ~Granted(modEntries[i].package, grants)
    BY <1>3, <1>6, <1>8, <2>1, <2>2, <2>3, <2>4 DEF EnabledInSettings
  <2> QED
    BY <1>5, <2>1, <2>5
<1>9. EntriesOK(es, setting, grants)
  BY <1>5, <1>8 DEF EntriesOK, EnabledInSettings
<1>10. ASSUME NEW i \in DOMAIN es, Original(es[i]), es[i].package.id \in activated
       PROVE  es[i].enabled /\ Granted(es[i].package, grants)
  <2>1. on /\ es[i].package.id = id
    BY <1>10
  <2>2. /\ i \in DOMAIN modEntries /\ es[i].package = modEntries[i].package
        /\ es[i].diagnostic = modEntries[i].diagnostic
        /\ es[i].enabled = IF i = Find(id) THEN on ELSE modEntries[i].enabled
    BY <1>2 DEF Flagged
  <2>3. Original(modEntries[i]) /\ Original(modEntries[Find(id)])
    BY <1>1, <1>10, <2>2 DEF Original
  <2>4. i = Find(id)
    BY <1>6, <1>7, <2>1, <2>2, <2>3 DEF OneOriginal
  <2> QED
    BY <1>1, <2>1, <2>2, <2>4
<1> QED
  BY <1>1, <1>3, <1>4, <1>9, <1>10, RebuildKeeps

-----------------------------------------------------------------------------
(* Hues, and the specification *)

(* The hue of the spectrum is no matter of trust. *)
LEMMA HueKeeps ==
  ASSUME ExtensionsInv,
         UNCHANGED <<themeFiles, modEntries, enabledSetting, grants, availableThemes, currentTheme,
                     uiExtensions, providerSessions>>,
         hueShown' \in Hues, hueTimer' \in BOOLEAN, savedHue' \in [Ids -> SUBSET Hues]
  PROVE  ExtensionsInv'
<1>1. ExtensionsTyped'
  BY DEF ExtensionsInv, ExtensionsTyped
<1>2. RuntimeFollowsTrust'
  BY DEF ExtensionsInv, RuntimeFollowsTrust, Trusted
<1> QED
  BY <1>1, <1>2 DEF ExtensionsInv

(* A theme file that changes after the scan changes what is trusted no more than that. *)
LEMMA ThemeFileKeeps ==
  ASSUME ExtensionsInv, NEW i \in 1..Roots, NEW content \in {"edited", "broken"},
         ThemeFileChanges(i, content)
  PROVE  ExtensionsInv'
<1> DEFINE r == modEntries[i].root
<1>1. UNCHANGED <<modEntries, enabledSetting, grants, themeSetting, availableThemes,
                  currentTheme, uiExtensions, providerSessions, hueShown, savedHue, hueTimer>>
  BY DEF ThemeFileChanges
<1>2. i \in DOMAIN modEntries /\ themeFiles' = [themeFiles EXCEPT ![r] = content]
  BY DEF ThemeFileChanges
<1>3. themeFiles \in [1..Roots -> Contents] /\ content \in Contents /\ content # "scanned"
  BY DEF ExtensionsInv, ExtensionsTyped, Contents
<1> HIDE DEF r
<1>4. themeFiles' \in [1..Roots -> Contents]
  BY <1>2, <1>3
<1>5. ExtensionsTyped'
  BY <1>1, <1>4 DEF ExtensionsInv, ExtensionsTyped
<1>6. \A j \in DOMAIN modEntries : themeFiles[modEntries[j].root] # "scanned"
        => themeFiles'[modEntries[j].root] # "scanned"
  <2>1. \A j \in DOMAIN modEntries : modEntries[j].root \in 1..Roots
    BY EntryFields DEF ExtensionsInv, EntriesOK, EntriesTyped
  <2>2. \A q \in 1..Roots : themeFiles[q] # "scanned" => themeFiles'[q] # "scanned"
    BY <1>2, <1>3
  <2> QED
    BY <2>1, <2>2
<1>7. RuntimeFollowsTrust'
  <2>1. \A id, digest : Trusted(id, digest) => Trusted(id, digest)'
    BY <1>1 DEF Trusted
  <2> QED
    BY <1>1, <1>6, <2>1 DEF ExtensionsInv, RuntimeFollowsTrust
<1> QED
  BY <1>1, <1>5, <1>7 DEF ExtensionsInv

(* The invariant holds once the first scan is done, *)
LEMMA ExtensionsStartInv == ExtensionsInit => ExtensionsInv
<1> SUFFICES ASSUME ExtensionsInit PROVE ExtensionsInv
  OBVIOUS
<1>1. DOMAIN modEntries = {} /\ DOMAIN modEntries = 1..0
  BY DEF ExtensionsInit
<1>2. EntriesOK(modEntries, enabledSetting, grants)
  <2>1. \E n \in Nat : DOMAIN modEntries = 1..n
    BY <1>1
  <2> QED
    BY <1>1, <2>1 DEF EntriesOK, EntriesTyped, OneOriginal, EnabledInSettings
<1>3. ExtensionsTyped
  BY DEF ExtensionsInit, ExtensionsTyped, AsScanned, Contents
<1>4. RuntimeFollowsTrust
  BY DEF ExtensionsInit, RuntimeFollowsTrust, BuiltIn
<1> QED
  BY <1>2, <1>3, <1>4 DEF ExtensionsInv

(* and every operation keeps it. *)
LEMMA ExtensionsStepKeeps == ExtensionsInv /\ [ExtensionsNext]_extensionVars => ExtensionsInv'
<1> SUFFICES ASSUME ExtensionsInv, [ExtensionsNext]_extensionVars PROVE ExtensionsInv'
  OBVIOUS
<1>1. hueShown \in Hues /\ hueTimer \in BOOLEAN /\ savedHue \in [Ids -> SUBSET Hues]
  BY DEF ExtensionsInv, ExtensionsTyped
<1>2. CASE UNCHANGED extensionVars
  BY <1>1, <1>2, HueKeeps DEF extensionVars
<1>3. CASE \E disk \in Disks : RefreshMods(disk)
  BY <1>3, RefreshKeeps
<1>4. CASE \E id \in Ids, written \in BOOLEAN : GrantDeclared(id, written)
  BY <1>4, GrantKeeps
<1>5. CASE \E id \in Ids : RevokeAll(id)
  BY <1>5, RevokeKeeps
<1>6. CASE \E id \in Ids, on \in BOOLEAN : SetEnabled(id, on)
  BY <1>6, SetModEnabledKeeps DEF SetEnabled
<1>7. CASE \E id \in Ids : ActivateTheme(id)
  BY <1>7, SetModEnabledKeeps DEF ActivateTheme
<1>8. CASE \E hue \in Hues : SetSpectrumHueShift(hue)
  BY <1>1, <1>8, HueKeeps DEF SetSpectrumHueShift
<1>9. CASE CommitSpectrumHueShift
  <2>1. savedHue' \in [Ids -> SUBSET Hues]
    BY <1>1, <1>9 DEF CommitSpectrumHueShift
  <2> QED
    BY <1>1, <1>9, <2>1, HueKeeps DEF CommitSpectrumHueShift
<1>10. CASE \E i \in 1..Roots, content \in {"edited", "broken"} : ThemeFileChanges(i, content)
  BY <1>10, ThemeFileKeeps
<1> QED
  BY <1>2, <1>3, <1>4, <1>5, <1>6, <1>7, <1>8, <1>9, <1>10 DEF ExtensionsNext

(* The list of packages, the settings, the grants and the runtime stay consistent: *)
(* ExtensionsInv is inductive (ModManager.cpp, PermissionStore.cpp).               *)
THEOREM ExtensionsStayConsistent == ExtensionsSpec => []ExtensionsInv
<1>1. ExtensionsInit => ExtensionsInv
  BY ExtensionsStartInv
<1>2. ExtensionsInv /\ [ExtensionsNext]_extensionVars => ExtensionsInv'
  BY ExtensionsStepKeeps
<1> QED
  BY <1>1, <1>2, PTL DEF ExtensionsSpec

(* Every variable of the extensions stays in its domain. *)
THEOREM ExtensionsAreTyped == ExtensionsSpec => []ExtensionsTypeOK
<1>1. ExtensionsInv => ExtensionsTypeOK
  BY EntryFields DEF ExtensionsInv, ExtensionsTyped, EntriesOK, EntriesTyped, ExtensionsTypeOK
<1> QED
  BY <1>1, ExtensionsStayConsistent, PTL

(* Only a package that is enabled and granted at the digest it was scanned with is a *)
(* session, a user interface extension or the theme, however packages are replaced,  *)
(* duplicated, revoked and refreshed; and a theme with another content than the      *)
(* scanned one is current only if its file has changed since the scan                *)
(* (ModManager.cpp:214-245, PermissionStore.cpp:13-40, ThemeManager.cpp:172-187).    *)
THEOREM OnlyTrustedExtensionsRun == ExtensionsSpec => []RuntimeFollowsTrust
<1>1. ExtensionsInv => RuntimeFollowsTrust
  BY DEF ExtensionsInv
<1> QED
  BY <1>1, ExtensionsStayConsistent, PTL

HIDE ExtensionsAssumption

-----------------------------------------------------------------------------
(* Playlists: every item refers to a playlist and a track, and the rows of the query, in
   any order that it may have, read every playlist back *)

(* The items of a playlist are the tracks of a list, at growing positions. *)
PlacedAt(places, items, list, p) ==
  /\ places \in [1..Len(list) -> 1..MaxItems]
  /\ \A i, j \in 1..Len(list) : i < j => places[i] < places[j]
  /\ {item \in items : item.playlist = p} =
       {Item(p, places[k], list[k]) : k \in 1..Len(list)}
ListStored(items, list, p) == \E places : PlacedAt(places, items, list, p)

(* The items of each playlist are the list that it was given, less the tracks gone. *)
PlaylistsInv ==
  /\ PlaylistsTypeOK
  /\ lastSet \in Seq(Seq(TrackIds))
  /\ \A p \in 1..Len(playlistNames) : ListStored(playlistItems, lastSet[p], p)

(* An empty list has no items. *)
LEMMA EmptyStored ==
  ASSUME NEW items, NEW p, \A item \in items : item.playlist # p
  PROVE  ListStored(items, <<>>, p)
<1> DEFINE places == [k \in 1..0 |-> k]
<1>1. Len(<<>>) = 0 /\ 1..0 = {}
  BY EmptySeq
<1>2. places \in [1..0 -> 1..MaxItems]
  OBVIOUS
<1>3. {item \in items : item.playlist = p} = {Item(p, places[k], <<>>[k]) : k \in 1..0}
  BY <1>1
<1>4. PlacedAt(places, items, <<>>, p)
  BY <1>1, <1>2, <1>3 DEF PlacedAt
<1> QED
  BY <1>4 DEF ListStored

(* New items are stored at their index. *)
LEMMA NewStored ==
  ASSUME NEW p, NEW ids \in PlaylistLists
  PROVE  /\ ids \in Seq(TrackIds) /\ Len(ids) \in 0..MaxItems /\ DOMAIN ids = 1..Len(ids)
         /\ \A items : {item \in items : item.playlist = p} = NewItems(p, ids)
                      => ListStored(items, ids, p)
<1>1. PICK n \in 0..MaxItems : ids \in [1..n -> TrackIds]
  BY DEF PlaylistLists
<1>2. n \in Nat /\ MaxItems \in Nat /\ n <= MaxItems
  BY <1>1, PlaylistsAssumption
<1>3. ids \in Seq(TrackIds) /\ Len(ids) = n /\ DOMAIN ids = 1..n
  BY <1>1, <1>2, SeqDef
<1>4. ASSUME NEW items, {item \in items : item.playlist = p} = NewItems(p, ids)
      PROVE  ListStored(items, ids, p)
  <2> DEFINE places == [k \in 1..n |-> k]
  <2>1. places \in [1..n -> 1..MaxItems]
    BY <1>2
  <2>2. \A k \in 1..n : places[k] = k
    OBVIOUS
  <2>3. {item \in items : item.playlist = p} = {Item(p, places[k], ids[k]) : k \in 1..n}
    BY <1>3, <1>4, <2>2 DEF NewItems
  <2>4. \A i, j \in 1..n : i < j => places[i] < places[j]
    BY <2>2
  <2> HIDE DEF places
  <2>5. PlacedAt(places, items, ids, p)
    BY <1>3, <2>1, <2>3, <2>4 DEF PlacedAt
  <2> QED
    BY <2>5 DEF ListStored
<1> QED
  BY <1>2, <1>3, <1>4

(* The items of the tracks that stay are stored where they were. *)
LEMMA KeptStored ==
  ASSUME NEW items, NEW list \in Seq(TrackIds), NEW p, NEW gone, ListStored(items, list, p)
  PROVE  LET kept == Sublist(list, {i \in DOMAIN list : list[i] \notin gone})
         IN  /\ kept \in Seq(TrackIds)
             /\ ListStored({item \in items : item.track \notin gone}, kept, p)
<1> DEFINE n == Len(list)
           stay == {i \in DOMAIN list : list[i] \notin gone}
           m == Cardinality(stay)
           f == InOrder(stay)
           kept == Sublist(list, stay)
           left == {item \in items : item.track \notin gone}
<1> PICK places : PlacedAt(places, items, list, p)
  BY DEF ListStored
<1>1. n \in Nat /\ DOMAIN list = 1..n /\ stay \in SUBSET (1..n)
  BY LenProperties
<1>2. m \in Nat /\ Enumerates(f, m, stay)
  BY <1>1, InOrderEnumerates
<1>3. kept \in Seq(TrackIds) /\ Len(kept) = m
  BY <1>1, SublistProperties
<1>4. kept = [k \in 1..m |-> list[f[k]]]
  BY DEF Sublist
<1>5. \A i \in 1..n : i \in stay <=> list[i] \notin gone
  BY <1>1
<1> HIDE DEF stay, m, f, kept
<1>6. f \in [1..m -> stay] /\ (\A a, b \in 1..m : a < b => f[a] < f[b])
      /\ \A i \in stay : \E k \in 1..m : f[k] = i
  BY <1>2 DEF Enumerates
<1>7. \A k \in 1..m : f[k] \in stay /\ f[k] \in 1..n /\ kept[k] = list[f[k]]
  BY <1>1, <1>4, <1>6
<1> DEFINE there == [k \in 1..m |-> places[f[k]]]
<1>8. places \in [1..n -> 1..MaxItems] /\ (\A i, j \in 1..n : i < j => places[i] < places[j])
      /\ {item \in items : item.playlist = p} = {Item(p, places[k], list[k]) : k \in 1..n}
  BY DEF PlacedAt
<1>9. there \in [1..m -> 1..MaxItems] /\ \A k \in 1..m : there[k] = places[f[k]]
  BY <1>7, <1>8
<1>10. \A i, j \in 1..m : i < j => there[i] < there[j]
  BY <1>6, <1>7, <1>8, <1>9
<1> HIDE DEF there
<1>11. ASSUME NEW item \in left, item.playlist = p
       PROVE  \E k \in 1..m : item = Item(p, there[k], kept[k])
  <2>1. item \in {Item(p, places[k], list[k]) : k \in 1..n} /\ item.track \notin gone
    BY <1>8, <1>11
  <2>2. PICK i \in 1..n : item = Item(p, places[i], list[i])
    BY <2>1
  <2>3. item.track = list[i]
    BY <2>2 DEF Item
  <2>4. i \in stay
    BY <1>5, <2>1, <2>3
  <2>5. PICK k \in 1..m : f[k] = i
    BY <1>6, <2>4
  <2> QED
    BY <1>7, <1>9, <2>2, <2>5
<1>12. ASSUME NEW k \in 1..m
       PROVE  Item(p, there[k], kept[k]) \in left /\ Item(p, there[k], kept[k]).playlist = p
  <2> DEFINE i == f[k]
             item == Item(p, places[i], list[i])
  <2>1. i \in 1..n /\ i \in stay /\ there[k] = places[i] /\ kept[k] = list[i]
    BY <1>7, <1>9
  <2>2. item \in {Item(p, places[j], list[j]) : j \in 1..n}
    BY <2>1
  <2>3. item \in items /\ item.playlist = p
    BY <1>8, <2>2
  <2>4. item.track = list[i]
    BY DEF Item
  <2>5. item.track \notin gone
    BY <1>5, <2>1, <2>4
  <2> HIDE DEF item
  <2>6. item \in left
    BY <2>3, <2>5
  <2> QED
    BY <2>1, <2>3, <2>6 DEF item
<1>13. {item \in left : item.playlist = p} = {Item(p, there[k], kept[k]) : k \in 1..m}
  <2> HIDE DEF left
  <2> QED
    BY <1>11, <1>12
<1>14. PlacedAt(there, left, kept, p)
  BY <1>3, <1>9, <1>10, <1>13 DEF PlacedAt
<1>15. ListStored(left, kept, p)
  BY <1>14 DEF ListStored
<1> QED
  BY <1>3, <1>15 DEF kept, stay

(* There are no playlists at first. *)
LEMMA PlaylistsStart == PlaylistsInit => PlaylistsInv
<1> SUFFICES ASSUME PlaylistsInit PROVE PlaylistsInv
  OBVIOUS
<1>1. <<>> \in Seq(Names) /\ <<>> \in Seq(Seq(TrackIds)) /\ Len(<<>>) = 0 /\ IsInjective(<<>>)
      /\ 1..0 = {}
  BY EmptySeq DEF IsInjective
<1> QED
  BY <1>1 DEF PlaylistsInit, PlaylistsInv, PlaylistsTypeOK

(* What the invariant says of the tables, one by one *)
LEMMA PlaylistsInvTells ==
  ASSUME PlaylistsInv
  PROVE  /\ libraryTracks \subseteq TrackIds /\ playlistNames \in Seq(Names)
         /\ IsInjective(playlistNames) /\ Len(lastSet) = Len(playlistNames)
         /\ \A item \in playlistItems : \E p \in 1..Len(playlistNames), i \in 1..MaxItems,
              t \in libraryTracks : item = Item(p, i, t)
         /\ lastSet \in Seq(Seq(TrackIds))
         /\ \A p \in 1..Len(playlistNames) : ListStored(playlistItems, lastSet[p], p)
         /\ Len(playlistNames) \in Nat /\ DOMAIN playlistNames = 1..Len(playlistNames)
         /\ DOMAIN lastSet = 1..Len(playlistNames)
         /\ \A p \in 1..Len(playlistNames) : lastSet[p] \in Seq(TrackIds)
<1>1. /\ libraryTracks \subseteq TrackIds /\ playlistNames \in Seq(Names)
      /\ IsInjective(playlistNames) /\ Len(lastSet) = Len(playlistNames)
      /\ playlistItems \subseteq
           {Item(p, i, t) : p \in DOMAIN playlistNames, i \in 1..MaxItems, t \in libraryTracks}
      /\ lastSet \in Seq(Seq(TrackIds))
      /\ \A p \in 1..Len(playlistNames) : ListStored(playlistItems, lastSet[p], p)
  BY DEF PlaylistsInv, PlaylistsTypeOK
<1>2. Len(playlistNames) \in Nat /\ DOMAIN playlistNames = 1..Len(playlistNames)
      /\ DOMAIN lastSet = 1..Len(playlistNames)
  BY <1>1, LenProperties
<1>3. \A p \in 1..Len(playlistNames) : lastSet[p] \in Seq(TrackIds)
  BY <1>1, ElementOfSeq
<1> QED
  BY <1>1, <1>2, <1>3

(* A new playlist is empty. *)
LEMMA CreateKeeps ==
  ASSUME PlaylistsInv, NEW name \in Names, CreatePlaylist(name)
  PROVE  PlaylistsInv'
<1> DEFINE n == Len(playlistNames)
<1>1. /\ libraryTracks \subseteq TrackIds /\ playlistNames \in Seq(Names)
      /\ IsInjective(playlistNames) /\ Len(lastSet) = n
      /\ lastSet \in Seq(Seq(TrackIds))
      /\ n \in Nat /\ DOMAIN playlistNames = 1..n
  BY PlaylistsInvTells
<1>2. /\ playlistNames' = Append(playlistNames, name) /\ lastSet' = Append(lastSet, <<>>)
      /\ libraryTracks' = libraryTracks /\ playlistItems' = playlistItems
      /\ name \notin Range(playlistNames)
  BY DEF CreatePlaylist
<1>3. /\ playlistNames' \in Seq(Names) /\ Len(playlistNames') = n + 1
      /\ (\A i \in 1..n : playlistNames'[i] = playlistNames[i])
      /\ playlistNames'[n + 1] = name
  BY <1>1, <1>2, AppendProperties
<1>4. DOMAIN playlistNames' = 1..(n + 1)
  BY <1>3, LenProperties
<1>5. IsInjective(playlistNames')
  <2>1. ASSUME NEW i \in 1..n PROVE playlistNames[i] # name
    BY <1>1, <1>2 DEF Range
  <2>2. ASSUME NEW i \in 1..n, NEW j \in 1..n, playlistNames[i] = playlistNames[j]
        PROVE  i = j
    BY <1>1, <2>2 DEF IsInjective
  <2>3. ASSUME NEW i \in 1..(n + 1), NEW j \in 1..(n + 1), playlistNames'[i] = playlistNames'[j]
        PROVE  i = j
    <3>1. (i \in 1..n \/ i = n + 1) /\ (j \in 1..n \/ j = n + 1)
      BY <1>1
    <3> QED
      BY <1>3, <2>1, <2>2, <2>3, <3>1
  <2> QED
    BY <1>4, <2>3 DEF IsInjective
<1>6. /\ lastSet' \in Seq(Seq(TrackIds)) /\ Len(lastSet') = n + 1
      /\ (\A p \in 1..n : lastSet'[p] = lastSet[p]) /\ lastSet'[n + 1] = <<>>
  <2>1. <<>> \in Seq(TrackIds)
    BY EmptySeq
  <2> QED
    BY <1>1, <1>2, <2>1, AppendProperties
<1>7. \A item \in playlistItems : \E p \in 1..n, i \in 1..MaxItems, t \in libraryTracks :
        item = Item(p, i, t)
  BY PlaylistsInvTells
<1>8. playlistItems' \subseteq
        {Item(p, i, t) : p \in DOMAIN playlistNames', i \in 1..MaxItems, t \in libraryTracks'}
  <2>1. ASSUME NEW item \in playlistItems
        PROVE  item \in {Item(p, i, t) : p \in 1..(n + 1), i \in 1..MaxItems, t \in libraryTracks}
    <3>1. PICK p \in 1..n, i \in 1..MaxItems, t \in libraryTracks : item = Item(p, i, t)
      BY <1>7
    <3>2. p \in 1..(n + 1)
      BY <1>1
    <3> QED
      BY <3>1, <3>2
  <2> QED
    BY <1>2, <1>4, <2>1
<1>9. ASSUME NEW p \in 1..(n + 1) PROVE ListStored(playlistItems', lastSet'[p], p)
  <2>1. CASE p \in 1..n
    <3>1. ListStored(playlistItems, lastSet[p], p)
      BY <2>1, PlaylistsInvTells
    <3> QED
      BY <1>2, <1>6, <2>1, <3>1
  <2>2. CASE p = n + 1
    <3>1. ASSUME NEW item \in playlistItems PROVE item.playlist # p
      <4>1. PICK q \in 1..n, i \in 1..MaxItems, t \in libraryTracks : item = Item(q, i, t)
        BY <1>7
      <4>2. item.playlist = q
        BY <4>1 DEF Item
      <4> QED
        BY <1>1, <2>2, <4>2
    <3>2. ListStored(playlistItems, <<>>, p)
      BY <3>1, EmptyStored
    <3> QED
      BY <1>2, <1>6, <2>2, <3>2
  <2> QED
    BY <1>1, <2>1, <2>2
<1>10. PlaylistsTypeOK'
  BY <1>1, <1>2, <1>3, <1>5, <1>6, <1>8 DEF PlaylistsTypeOK
<1> QED
  BY <1>3, <1>6, <1>9, <1>10 DEF PlaylistsInv

(* Filling a playlist leaves the others alone. *)
LEMMA SetTracksKeeps ==
  ASSUME PlaylistsInv, NEW p \in 1..MaxPlaylists, NEW ids \in PlaylistLists,
         SetPlaylistTracks(p, ids)
  PROVE  PlaylistsInv'
<1> DEFINE n == Len(playlistNames)
<1>1. /\ libraryTracks \subseteq TrackIds /\ playlistNames \in Seq(Names)
      /\ IsInjective(playlistNames) /\ Len(lastSet) = n
      /\ lastSet \in Seq(Seq(TrackIds))
      /\ n \in Nat /\ DOMAIN playlistNames = 1..n /\ DOMAIN lastSet = 1..n
  BY PlaylistsInvTells
<1>2. /\ p \in 1..n /\ Range(ids) \subseteq libraryTracks
      /\ playlistItems' = (playlistItems \ ItemsOf(p)) \cup NewItems(p, ids)
      /\ lastSet' = [lastSet EXCEPT ![p] = ids]
      /\ libraryTracks' = libraryTracks /\ playlistNames' = playlistNames
  BY <1>1 DEF SetPlaylistTracks, Replaced
<1>3. /\ ids \in Seq(TrackIds) /\ Len(ids) \in 0..MaxItems /\ DOMAIN ids = 1..Len(ids)
  BY NewStored
<1>4. \A i \in DOMAIN ids : i \in 1..MaxItems /\ ids[i] \in libraryTracks
  BY <1>2, <1>3, PlaylistsAssumption DEF Range
<1>5. \A item \in NewItems(p, ids) : \E i \in DOMAIN ids : item = Item(p, i, ids[i])
  BY DEF NewItems
<1>6. ASSUME NEW item \in playlistItems'
      PROVE  item \in {Item(q, i, t) : q \in 1..n, i \in 1..MaxItems, t \in libraryTracks}
  <2>1. CASE item \in playlistItems
    BY <2>1, PlaylistsInvTells
  <2>2. CASE item \in NewItems(p, ids)
    BY <1>2, <1>4, <1>5, <2>2
  <2> QED
    BY <1>2, <2>1, <2>2
<1>7. /\ lastSet' \in Seq(Seq(TrackIds)) /\ Len(lastSet') = n
      /\ \A q \in 1..n : lastSet'[q] = IF q = p THEN ids ELSE lastSet[q]
  BY <1>1, <1>2, <1>3, ExceptSeq
<1>8. ASSUME NEW q \in 1..n PROVE ListStored(playlistItems', lastSet'[q], q)
  <2>1. CASE q = p
    <3>1. {item \in playlistItems' : item.playlist = p} = NewItems(p, ids)
      <4>1. \A item \in NewItems(p, ids) : item.playlist = p
        BY <1>5 DEF Item
      <4>2. \A item \in playlistItems \ ItemsOf(p) : item.playlist # p
        BY DEF ItemsOf
      <4> QED
        BY <1>2, <4>1, <4>2
    <3>2. ListStored(playlistItems', ids, p)
      BY <3>1, NewStored
    <3> QED
      BY <1>7, <2>1, <3>2
  <2>2. CASE q # p
    <3>1. {item \in playlistItems' : item.playlist = q}
            = {item \in playlistItems : item.playlist = q}
      <4>1. \A item \in NewItems(p, ids) : item.playlist = p
        BY <1>5 DEF Item
      <4>2. \A item \in ItemsOf(p) : item.playlist = p
        BY DEF ItemsOf
      <4> QED
        BY <1>2, <2>2, <4>1, <4>2
    <3>2. ListStored(playlistItems, lastSet[q], q)
      BY PlaylistsInvTells
    <3>3. ListStored(playlistItems', lastSet[q], q)
      BY <3>1, <3>2 DEF ListStored, PlacedAt
    <3> QED
      BY <1>7, <2>2, <3>3
  <2> QED
    BY <2>1, <2>2
<1>9. playlistItems' \subseteq
        {Item(q, i, t) : q \in DOMAIN playlistNames', i \in 1..MaxItems, t \in libraryTracks'}
  <2>1. DOMAIN playlistNames' = 1..n /\ libraryTracks' = libraryTracks
    BY <1>1, <1>2
  <2> QED
    BY <1>6, <2>1
<1>10. PlaylistsTypeOK'
  BY <1>1, <1>2, <1>7, <1>9 DEF PlaylistsTypeOK
<1> QED
  BY <1>1, <1>2, <1>7, <1>8, <1>10 DEF PlaylistsInv

(* The items of the tracks that are deleted go, in the tables and in the history. *)
LEMMA DeleteKeeps ==
  ASSUME PlaylistsInv, NEW gone \in SUBSET libraryTracks, TracksDeleted(gone)
  PROVE  PlaylistsInv'
<1> DEFINE n == Len(playlistNames)
           Kept(list) == Sublist(list, {i \in DOMAIN list : list[i] \notin gone})
           left == {item \in playlistItems : item.track \notin gone}
<1>1. /\ libraryTracks \subseteq TrackIds /\ playlistNames \in Seq(Names)
      /\ IsInjective(playlistNames) /\ Len(lastSet) = n
      /\ n \in Nat /\ DOMAIN playlistNames = 1..n /\ DOMAIN lastSet = 1..n
  BY PlaylistsInvTells
<1>2. /\ libraryTracks' = libraryTracks \ gone /\ playlistNames' = playlistNames
      /\ playlistItems' = left
      /\ lastSet' = [p \in 1..n |-> Kept(lastSet[p])]
  BY <1>1 DEF TracksDeleted
<1>3. ASSUME NEW p \in 1..n
      PROVE  Kept(lastSet[p]) \in Seq(TrackIds) /\ ListStored(left, Kept(lastSet[p]), p)
  <2>1. lastSet[p] \in Seq(TrackIds) /\ ListStored(playlistItems, lastSet[p], p)
    BY PlaylistsInvTells
  <2> DEFINE list == lastSet[p]
  <2> HIDE DEF list
  <2>2. Kept(list) \in Seq(TrackIds) /\ ListStored(left, Kept(list), p)
    BY <2>1, KeptStored DEF list
  <2> QED
    BY <2>2 DEF list
<1>4. ASSUME NEW item \in left
      PROVE  item \in {Item(q, i, t) : q \in 1..n, i \in 1..MaxItems, t \in libraryTracks \ gone}
  <2>1. item \in playlistItems /\ item.track \notin gone
    OBVIOUS
  <2>2. PICK q \in 1..n, i \in 1..MaxItems, t \in libraryTracks : item = Item(q, i, t)
    BY <2>1, PlaylistsInvTells
  <2>3. item.track = t
    BY <2>2 DEF Item
  <2> QED
    BY <2>1, <2>2, <2>3
<1> HIDE DEF left, Kept
<1>5. /\ lastSet' \in Seq(Seq(TrackIds)) /\ Len(lastSet') = n
      /\ \A p \in 1..n : lastSet'[p] = Kept(lastSet[p])
  <2>1. lastSet' \in [1..n -> Seq(TrackIds)]
    BY <1>2, <1>3
  <2> QED
    BY <1>1, <1>2, <2>1, SeqDef
<1>6. playlistItems' \subseteq
        {Item(q, i, t) : q \in DOMAIN playlistNames', i \in 1..MaxItems, t \in libraryTracks'}
  BY <1>1, <1>2, <1>4
<1>7. PlaylistsTypeOK'
  BY <1>1, <1>2, <1>5, <1>6 DEF PlaylistsTypeOK
<1>8. \A p \in 1..n : ListStored(playlistItems', lastSet'[p], p)
  BY <1>2, <1>3, <1>5
<1> QED
  BY <1>1, <1>2, <1>5, <1>7, <1>8 DEF PlaylistsInv

(* Every operation keeps the items of each playlist the list that it was given. *)
LEMMA PlaylistsStepKeeps == PlaylistsInv /\ [PlaylistsNext]_playlistVars => PlaylistsInv'
<1> SUFFICES ASSUME PlaylistsInv, [PlaylistsNext]_playlistVars PROVE PlaylistsInv'
  OBVIOUS
<1>1. ASSUME NEW t \in TrackIds, TrackStored(t)
      PROVE  PlaylistsInv'
  <2>1. /\ libraryTracks' = libraryTracks \cup {t} /\ playlistNames' = playlistNames
        /\ playlistItems' = playlistItems /\ lastSet' = lastSet
    BY <1>1 DEF TrackStored
  <2>2. PlaylistsTypeOK'
    BY <2>1 DEF PlaylistsInv, PlaylistsTypeOK
  <2> QED
    BY <2>1, <2>2 DEF PlaylistsInv
<1>2. CASE UNCHANGED playlistVars
  BY <1>2 DEF playlistVars, PlaylistsInv, PlaylistsTypeOK
<1> QED
  BY <1>1, <1>2, CreateKeeps, SetTracksKeeps, DeleteKeeps DEF PlaylistsNext

(* The tables of the playlists refer to rows that exist. *)
THEOREM PlaylistsAreTyped == PlaylistsSpec => []PlaylistsTypeOK
<1>1. PlaylistsInv => PlaylistsTypeOK
  BY DEF PlaylistsInv
<1> QED
  BY <1>1, PlaylistsStart, PlaylistsStepKeeps, PTL DEF PlaylistsSpec

-----------------------------------------------------------------------------
(* The rows of a playlist: the k-th item of its list, or one without a track (k = 0) *)
Indexes(p) == IF lastSet[p] = <<>> THEN {0} ELSE 1..Len(lastSet[p])
PositionOf(at, p, k) == IF k = 0 THEN 0 ELSE at[p][k]
TrackOf(p, k) == IF k = 0 THEN NoTrack ELSE lastSet[p][k]
RowOf(at, p, k) == Item(p, PositionOf(at, p, k), TrackOf(p, k))

(* Where the items of each list are in the table *)
Tabled(at) ==
  \A p \in 1..Len(playlistNames) : PlacedAt(at[p], playlistItems, lastSet[p], p)

LEMMA TableExists == ASSUME PlaylistsInv PROVE \E at : Tabled(at)
<1> DEFINE at == [p \in 1..Len(playlistNames) |->
                    CHOOSE places : PlacedAt(places, playlistItems, lastSet[p], p)]
<1>1. ASSUME NEW p \in 1..Len(playlistNames)
      PROVE  PlacedAt(at[p], playlistItems, lastSet[p], p)
  <2>1. ListStored(playlistItems, lastSet[p], p)
    BY PlaylistsInvTells
  <2> QED
    BY <2>1 DEF ListStored
<1>2. Tabled(at)
  BY <1>1 DEF Tabled
<1> QED
  BY <1>2

(* The lists of the playlists, and where their items are *)
LEMMA IndexesTyped ==
  ASSUME PlaylistsInv, NEW at, Tabled(at), NEW p \in 1..Len(playlistNames)
  PROVE  /\ Indexes(p) \subseteq 0..Len(lastSet[p]) /\ Len(lastSet[p]) \in Nat
         /\ lastSet[p] \in Seq(TrackIds) /\ Indexes(p) \subseteq Nat
         /\ \A k \in Indexes(p) :
              /\ PositionOf(at, p, k) \in 0..MaxItems
              /\ k = 0 <=> lastSet[p] = <<>>
              /\ IF k = 0 THEN TrackOf(p, k) = NoTrack /\ PositionOf(at, p, k) = 0
                 ELSE /\ k \in 1..Len(lastSet[p]) /\ TrackOf(p, k) = lastSet[p][k]
                      /\ TrackOf(p, k) \in TrackIds /\ PositionOf(at, p, k) = at[p][k]
                      /\ PositionOf(at, p, k) \in 1..MaxItems
         /\ \A j, k \in Indexes(p) : j < k => PositionOf(at, p, j) < PositionOf(at, p, k)
<1> DEFINE list == lastSet[p]
<1>1. list \in Seq(TrackIds) /\ PlacedAt(at[p], playlistItems, list, p)
  BY PlaylistsInvTells DEF Tabled
<1> DEFINE n == Len(list)
<1>2. n \in Nat /\ (\A k \in 1..n : list[k] \in TrackIds) /\ (list = <<>> <=> n = 0)
  BY <1>1, LenProperties, EmptySeq
<1>3. at[p] \in [1..n -> 1..MaxItems] /\ \A i, j \in 1..n : i < j => at[p][i] < at[p][j]
  BY <1>1 DEF PlacedAt
<1>4. Indexes(p) = IF list = <<>> THEN {0} ELSE 1..n
  BY DEF Indexes
<1>5. MaxItems \in Nat
  BY PlaylistsAssumption
<1> HIDE DEF list, n
<1>6. Indexes(p) \subseteq 0..n /\ Indexes(p) \subseteq Nat
      /\ \A k \in Indexes(p) : (k = 0 <=> list = <<>>) /\ (k # 0 => k \in 1..n)
  BY <1>2, <1>4
<1>7. ASSUME NEW k \in Indexes(p)
      PROVE  /\ PositionOf(at, p, k) \in 0..MaxItems
             /\ IF k = 0 THEN TrackOf(p, k) = NoTrack /\ PositionOf(at, p, k) = 0
                ELSE /\ k \in 1..n /\ TrackOf(p, k) = list[k]
                     /\ TrackOf(p, k) \in TrackIds /\ PositionOf(at, p, k) = at[p][k]
                     /\ PositionOf(at, p, k) \in 1..MaxItems
  <2>1. CASE k = 0
    BY <1>5, <2>1 DEF PositionOf, TrackOf
  <2>2. CASE k # 0
    <3>1. k \in 1..n
      BY <1>6, <2>2
    <3>2. PositionOf(at, p, k) = at[p][k] /\ TrackOf(p, k) = list[k]
      BY <2>2 DEF PositionOf, TrackOf, list
    <3>3. at[p][k] \in 1..MaxItems /\ list[k] \in TrackIds
      BY <1>2, <1>3, <3>1
    <3> QED
      BY <1>5, <2>2, <3>1, <3>2, <3>3
  <2> QED
    BY <2>1, <2>2
<1>8. ASSUME NEW j \in Indexes(p), NEW k \in Indexes(p), j < k
      PROVE  PositionOf(at, p, j) < PositionOf(at, p, k)
  <2>1. j # 0 /\ k # 0
    BY <1>2, <1>6, <1>8
  <2>2. j \in 1..n /\ k \in 1..n
    BY <1>6, <2>1
  <2>3. at[p][j] < at[p][k]
    BY <1>3, <1>8, <2>2
  <2> QED
    BY <2>1, <2>3 DEF PositionOf
<1> QED
  BY <1>1, <1>2, <1>6, <1>7, <1>8 DEF list, n

(* The query returns the rows of every playlist, and no others. *)
LEMMA RowsTabled ==
  ASSUME PlaylistsInv, NEW at, Tabled(at)
  PROVE  /\ \A row \in QueryRows :
              \E p \in 1..Len(playlistNames) : \E k \in Indexes(p) : row = RowOf(at, p, k)
         /\ \A p \in 1..Len(playlistNames) : \A k \in Indexes(p) : RowOf(at, p, k) \in QueryRows
<1> DEFINE P == Len(playlistNames)
<1>1. DOMAIN playlistNames = 1..P
      /\ \A item \in playlistItems : \E p \in 1..P, i \in 1..MaxItems, t \in libraryTracks :
           item = Item(p, i, t)
  BY PlaylistsInvTells
<1>2. ASSUME NEW p \in 1..P
      PROVE  /\ ItemsOf(p) = {Item(p, at[p][k], lastSet[p][k]) : k \in 1..Len(lastSet[p])}
             /\ Len(lastSet[p]) \in Nat /\ (lastSet[p] = <<>> <=> Len(lastSet[p]) = 0)
             /\ (ItemsOf(p) = {} <=> lastSet[p] = <<>>)
  <2>1. PlacedAt(at[p], playlistItems, lastSet[p], p) /\ lastSet[p] \in Seq(TrackIds)
    BY PlaylistsInvTells DEF Tabled
  <2>2. ItemsOf(p) = {Item(p, at[p][k], lastSet[p][k]) : k \in 1..Len(lastSet[p])}
    BY <2>1 DEF PlacedAt, ItemsOf
  <2>3. Len(lastSet[p]) \in Nat /\ (lastSet[p] = <<>> <=> Len(lastSet[p]) = 0)
    BY <2>1, LenProperties, EmptySeq
  <2>4. ItemsOf(p) = {} <=> Len(lastSet[p]) = 0
    <3>1. CASE Len(lastSet[p]) = 0
      BY <2>2, <3>1
    <3>2. CASE Len(lastSet[p]) # 0
      <4>1. 1 \in 1..Len(lastSet[p])
        BY <2>3, <3>2
      <4> QED
        BY <2>2, <3>2, <4>1
    <3> QED
      BY <3>1, <3>2
  <2> QED
    BY <2>2, <2>3, <2>4
<1> HIDE DEF P
<1>3. ASSUME NEW p \in 1..P, NEW k \in Indexes(p) PROVE RowOf(at, p, k) \in QueryRows
  <2>1. CASE lastSet[p] = <<>>
    <3>1. k = 0 /\ ItemsOf(p) = {}
      BY <1>2, <2>1 DEF Indexes
    <3>2. RowOf(at, p, k) = Item(p, 0, NoTrack)
      BY <3>1 DEF RowOf, PositionOf, TrackOf
    <3> QED
      BY <1>1, <3>1, <3>2 DEF QueryRows
  <2>2. CASE lastSet[p] # <<>>
    <3>1. k \in 1..Len(lastSet[p])
      BY <2>2 DEF Indexes
    <3>2. RowOf(at, p, k) = Item(p, at[p][k], lastSet[p][k])
      BY <1>2, <3>1 DEF RowOf, PositionOf, TrackOf
    <3>3. RowOf(at, p, k) \in ItemsOf(p)
      BY <1>2, <3>1, <3>2
    <3> QED
      BY <3>3 DEF QueryRows, ItemsOf
  <2> QED
    BY <2>1, <2>2
<1>4. ASSUME NEW row \in QueryRows
      PROVE  \E p \in 1..P : \E k \in Indexes(p) : row = RowOf(at, p, k)
  <2>1. CASE row \in playlistItems
    <3>1. PICK p \in 1..P, i \in 1..MaxItems, t \in libraryTracks : row = Item(p, i, t)
      BY <1>1, <2>1
    <3>2. row \in ItemsOf(p)
      BY <2>1, <3>1 DEF Item, ItemsOf
    <3>3. PICK k \in 1..Len(lastSet[p]) : row = Item(p, at[p][k], lastSet[p][k])
      BY <1>2, <3>2
    <3>4. lastSet[p] # <<>> /\ k # 0
      BY <1>2, <3>2, <3>3
    <3>5. k \in Indexes(p) /\ row = RowOf(at, p, k)
      BY <3>3, <3>4 DEF Indexes, RowOf, PositionOf, TrackOf
    <3> QED
      BY <3>5
  <2>2. CASE row \notin playlistItems
    <3>1. PICK p \in 1..P : ItemsOf(p) = {} /\ row = Item(p, 0, NoTrack)
      BY <1>1, <2>2 DEF QueryRows
    <3>2. lastSet[p] = <<>>
      BY <1>2, <3>1
    <3>3. 0 \in Indexes(p) /\ row = RowOf(at, p, 0)
      BY <3>1, <3>2 DEF Indexes, RowOf, PositionOf, TrackOf
    <3> QED
      BY <3>3
  <2> QED
    BY <2>1, <2>2
<1> QED
  BY <1>3, <1>4 DEF P

(* Its rows can be counted: a playlist and a position have one row. *)
LEMMA RowsFinite ==
  ASSUME PlaylistsInv
  PROVE  IsFiniteSet(QueryRows) /\ Cardinality(QueryRows) \in Nat
<1> DEFINE P == Len(playlistNames)
           RowKeys == (1..P) \X (0..MaxItems)
           key == [row \in QueryRows |-> <<row.playlist, row.position>>]
<1> PICK at : Tabled(at)
  BY TableExists
<1>1. P \in Nat /\ MaxItems \in Nat
  BY PlaylistsInvTells, PlaylistsAssumption
<1>2. IsFiniteSet(1..P) /\ IsFiniteSet(0..MaxItems)
  BY <1>1, FS_Interval
<1>3. IsFiniteSet(RowKeys)
  <2> DEFINE A == 1..P
             B == 0..MaxItems
  <2>1. IsFiniteSet(A) /\ IsFiniteSet(B)
    BY <1>2
  <2> HIDE DEF A, B
  <2>2. IsFiniteSet(A \X B)
    BY <2>1, FS_Product
  <2> QED
    BY <2>2 DEF A, B
<1>4. ASSUME NEW row \in QueryRows
      PROVE  \E p \in 1..P : \E k \in Indexes(p) :
               /\ row = RowOf(at, p, k) /\ PositionOf(at, p, k) \in 0..MaxItems
               /\ row.playlist = p /\ row.position = PositionOf(at, p, k)
  <2>1. PICK p \in 1..P : \E k \in Indexes(p) : row = RowOf(at, p, k)
    BY RowsTabled
  <2>2. PICK k \in Indexes(p) : row = RowOf(at, p, k)
    BY <2>1
  <2>3. PositionOf(at, p, k) \in 0..MaxItems
    BY IndexesTyped
  <2>4. row.playlist = p /\ row.position = PositionOf(at, p, k)
    BY <2>2 DEF RowOf, Item
  <2> QED
    BY <2>2, <2>3, <2>4
<1>5. key \in [QueryRows -> RowKeys]
  <2>1. ASSUME NEW row \in QueryRows PROVE <<row.playlist, row.position>> \in RowKeys
    BY <1>4
  <2> QED
    BY <2>1
<1>6. ASSUME NEW r \in QueryRows, NEW s \in QueryRows, key[r] = key[s] PROVE r = s
  <2>1. r.playlist = s.playlist /\ r.position = s.position
    BY <1>6
  <2>2. PICK p \in 1..P : \E k \in Indexes(p) :
          /\ r = RowOf(at, p, k) /\ r.playlist = p /\ r.position = PositionOf(at, p, k)
    BY <1>4
  <2>3. PICK k \in Indexes(p) :
          r = RowOf(at, p, k) /\ r.playlist = p /\ r.position = PositionOf(at, p, k)
    BY <2>2
  <2>4. PICK l \in Indexes(p) : s = RowOf(at, p, l) /\ s.position = PositionOf(at, p, l)
    BY <1>4, <2>1, <2>3
  <2>5. Indexes(p) \subseteq Nat
        /\ (\A i \in Indexes(p) : PositionOf(at, p, i) \in 0..MaxItems)
        /\ \A i, j \in Indexes(p) : i < j => PositionOf(at, p, i) < PositionOf(at, p, j)
    BY IndexesTyped
  <2>6. k \in Nat /\ l \in Nat /\ PositionOf(at, p, k) \in Nat
        /\ PositionOf(at, p, k) = PositionOf(at, p, l)
    BY <1>1, <2>1, <2>3, <2>4, <2>5
  <2>7. ~ (k < l) /\ ~ (l < k)
    BY <2>5, <2>6
  <2> QED
    BY <2>3, <2>4, <2>6, <2>7
<1>7. key \in Injection(QueryRows, RowKeys)
  <2>1. DOMAIN key = QueryRows
    OBVIOUS
  <2> HIDE DEF key
  <2> QED
    BY <1>5, <1>6, <2>1 DEF Injection, IsInjective
<1>8. IsFiniteSet(QueryRows)
  <2> DEFINE A == QueryRows
             B == RowKeys
             f == key
  <2>1. f \in Injection(A, B) /\ IsFiniteSet(B)
    BY <1>3, <1>7
  <2> HIDE DEF A, B, f
  <2>2. IsFiniteSet(A)
    BY <2>1, FS_Injection
  <2> QED
    BY <2>2 DEF A
<1> QED
  BY <1>8, FS_CardinalityType

(* Where the rows of a result are: every row once, those of a playlist together and in  *)
(* the order of its list                                                       *)
Sorted(rows, n, pl, ix) ==
  /\ n \in Nat /\ Len(rows) = n
  /\ pl \in [1..n -> 1..Len(playlistNames)]
  /\ \A i \in 1..n : /\ ix[i] \in Indexes(pl[i]) /\ rows[i].playlist = pl[i]
                     /\ rows[i].track = TrackOf(pl[i], ix[i])
  /\ \A i, j \in 1..n : i < j /\ pl[i] = pl[j] => ix[i] < ix[j]
  /\ \A i, j, k \in 1..n : i < j /\ j < k /\ pl[i] = pl[k] => pl[j] = pl[k]
  /\ \A p \in 1..Len(playlistNames) : \A k \in Indexes(p) :
       \E i \in 1..n : pl[i] = p /\ ix[i] = k

NoTwoAlike == IsInjective([p \in DOMAIN playlistNames |-> NoCase[playlistNames[p]]])

LEMMA RowTells ==
  \A at, p, k : /\ RowOf(at, p, k).playlist = p /\ RowOf(at, p, k).track = TrackOf(p, k)
                /\ RowOf(at, p, k).position = PositionOf(at, p, k)
  BY DEF RowOf, Item

(* The rows that the query returns are sorted so, whatever order equal keys have. *)
LEMMA RowsSorted ==
  ASSUME PlaylistsInv, NoTwoAlike, NEW rows \in QueryResults
  PROVE  \E n, pl, ix : Sorted(rows, n, pl, ix)
<1> DEFINE P == Len(playlistNames)
           n == Cardinality(QueryRows)
           class == [p \in 1..P |-> NoCase[playlistNames[p]]]
<1> PICK at : Tabled(at)
  BY TableExists
<1>1. n \in Nat /\ rows \in [1..n -> QueryRows] /\ IsInjective(rows)
      /\ \A i, j \in 1..n : i < j => Follows(rows[j], rows[i])
  BY RowsFinite DEF QueryResults
<1>2. Len(rows) = n
  BY <1>1, SeqDef
<1>3. \A row \in QueryRows : \E i \in 1..n : rows[i] = row
  <2> DEFINE A == 1..n
             B == QueryRows
  <2>1. IsFiniteSet(A) /\ Cardinality(A) = Cardinality(B) /\ IsFiniteSet(B)
    BY <1>1, FS_Interval, RowsFinite
  <2>2. rows \in Injection(A, B)
    BY <1>1 DEF Injection
  <2> HIDE DEF A, B
  <2>3. rows \in Surjection(A, B)
    BY <2>1, <2>2, FS_Injection
  <2> QED
    BY <2>3 DEF Surjection, A, B
<1>4. class \in [1..P -> Nat] /\ \A p, q \in 1..P : class[p] = class[q] => p = q
  <2>1. playlistNames \in Seq(Names) /\ DOMAIN playlistNames = 1..P
    BY PlaylistsInvTells
  <2>2. \A p \in 1..P : playlistNames[p] \in Names
    BY <2>1, ElementOfSeq
  <2>3. class \in [1..P -> Nat]
    BY <2>2, PlaylistsAssumption
  <2>4. IsInjective(class)
    BY <2>1 DEF NoTwoAlike
  <2>5. DOMAIN class = 1..P
    OBVIOUS
  <2> HIDE DEF class
  <2> QED
    BY <2>3, <2>4, <2>5 DEF IsInjective
<1> DEFINE pl == [i \in 1..n |-> rows[i].playlist]
           ix == [i \in 1..n |-> CHOOSE k \in Indexes(pl[i]) : rows[i] = RowOf(at, pl[i], k)]
<1>5. ASSUME NEW i \in 1..n
      PROVE  /\ pl[i] \in 1..P /\ ix[i] \in Indexes(pl[i]) /\ rows[i] = RowOf(at, pl[i], ix[i])
             /\ rows[i].playlist = pl[i]
  <2>1. rows[i] \in QueryRows
    BY <1>1
  <2>2. PICK p \in 1..P : \E k \in Indexes(p) : rows[i] = RowOf(at, p, k)
    BY <2>1, RowsTabled
  <2>3. pl[i] = p
    BY <2>2 DEF RowOf, Item
  <2> QED
    BY <2>2, <2>3
<1>6. pl \in [1..n -> 1..P]
  BY <1>5
<1> HIDE DEF n, pl, ix
<1>7. ASSUME NEW i \in 1..n
      PROVE  /\ ix[i] \in Nat /\ PositionOf(at, pl[i], ix[i]) \in Nat
             /\ rows[i].position = PositionOf(at, pl[i], ix[i])
             /\ rows[i].track = TrackOf(pl[i], ix[i])
  <2>0. rows[i] = RowOf(at, pl[i], ix[i])
    BY <1>5
  <2>1. rows[i].position = PositionOf(at, pl[i], ix[i]) /\ rows[i].track = TrackOf(pl[i], ix[i])
    BY <2>0, RowTells
  <2>2. Indexes(pl[i]) \subseteq Nat /\ PositionOf(at, pl[i], ix[i]) \in 0..MaxItems
    BY <1>5, IndexesTyped
  <2> QED
    BY <1>5, <2>1, <2>2, PlaylistsAssumption
<1>8. ASSUME NEW i \in 1..n, NEW j \in 1..n, i < j
      PROVE  /\ class[pl[i]] <= class[pl[j]]
             /\ class[pl[i]] = class[pl[j]] =>
                  PositionOf(at, pl[i], ix[i]) <= PositionOf(at, pl[j], ix[j])
  <2>1. Follows(rows[j], rows[i])
    BY <1>1, <1>8 DEF n
  <2>2. class[pl[i]] = NoCase[playlistNames[rows[i].playlist]]
        /\ class[pl[j]] = NoCase[playlistNames[rows[j].playlist]]
    BY <1>5
  <2>3. class[pl[i]] \in Nat /\ class[pl[j]] \in Nat
    BY <1>4, <1>5
  <2> HIDE DEF class
  <2>4. \/ class[pl[i]] < class[pl[j]]
        \/ class[pl[i]] = class[pl[j]]
           /\ PositionOf(at, pl[i], ix[i]) <= PositionOf(at, pl[j], ix[j])
    BY <1>7, <2>1, <2>2 DEF Follows
  <2> QED
    BY <2>3, <2>4
<1> HIDE DEF class
<1>9. ASSUME NEW i \in 1..n, NEW j \in 1..n, i < j, pl[i] = pl[j]
      PROVE  ix[i] < ix[j]
  <2>1. PositionOf(at, pl[i], ix[i]) <= PositionOf(at, pl[i], ix[j])
    BY <1>8, <1>9
  <2>2. ~ (ix[j] < ix[i])
    <3>1. ASSUME ix[j] < ix[i]
          PROVE  PositionOf(at, pl[i], ix[j]) < PositionOf(at, pl[i], ix[i])
      BY <1>5, <1>9, <3>1, IndexesTyped
    <3> QED
      BY <1>7, <1>9, <2>1, <3>1
  <2>3. ix[i] # ix[j]
    <3>1. ASSUME ix[i] = ix[j] PROVE rows[i] = rows[j]
      BY <1>5, <1>9, <3>1
    <3>2. rows[i] # rows[j]
      <4>1. DOMAIN rows = 1..n /\ IsInjective(rows) /\ i # j
        BY <1>1, <1>9 DEF n
      <4> QED
        BY <4>1 DEF IsInjective
    <3> QED
      BY <3>1, <3>2
  <2>4. ix[i] \in Nat /\ ix[j] \in Nat
    BY <1>7
  <2> QED
    BY <2>2, <2>3, <2>4
<1>10. ASSUME NEW i \in 1..n, NEW j \in 1..n, NEW k \in 1..n, i < j, j < k, pl[i] = pl[k]
       PROVE  pl[j] = pl[k]
  <2>1. class[pl[i]] <= class[pl[j]] /\ class[pl[j]] <= class[pl[k]]
    BY <1>8, <1>10
  <2>2. class[pl[j]] \in Nat /\ class[pl[k]] \in Nat
    BY <1>4, <1>5
  <2>3. class[pl[j]] = class[pl[k]]
    BY <1>10, <2>1, <2>2
  <2> QED
    BY <1>4, <1>5, <2>3
<1>11. ASSUME NEW p \in 1..P, NEW k \in Indexes(p)
       PROVE  \E i \in 1..n : pl[i] = p /\ ix[i] = k
  <2>1. RowOf(at, p, k) \in QueryRows
    BY RowsTabled
  <2>2. PICK i \in 1..n : rows[i] = RowOf(at, p, k)
    BY <1>3, <2>1 DEF n
  <2>3. pl[i] = p
    <3>1. rows[i].playlist = p
      BY <2>2, RowTells
    <3> QED
      BY <1>5, <3>1
  <2>4. PositionOf(at, p, ix[i]) = PositionOf(at, p, k) /\ ix[i] \in Indexes(p)
    <3>1. rows[i].position = PositionOf(at, p, k)
      BY <2>2, RowTells
    <3> QED
      BY <1>5, <1>7, <2>3, <3>1
  <2>5. /\ ix[i] \in Nat /\ k \in Nat /\ PositionOf(at, p, k) \in Nat
        /\ ~ (ix[i] < k) /\ ~ (k < ix[i])
    <3>1. Indexes(p) \subseteq Nat
          /\ (\A j \in Indexes(p) : PositionOf(at, p, j) \in 0..MaxItems)
          /\ \A j, l \in Indexes(p) : j < l => PositionOf(at, p, j) < PositionOf(at, p, l)
      BY IndexesTyped
    <3>2. PositionOf(at, p, k) \in Nat
      BY <3>1, PlaylistsAssumption
    <3>3. ~ (ix[i] < k) /\ ~ (k < ix[i])
      BY <2>4, <3>1, <3>2
    <3> QED
      BY <2>4, <3>1, <3>2, <3>3
  <2>6. ix[i] = k
    BY <2>5
  <2> QED
    BY <2>3, <2>6
<1>12. n \in Nat /\ Len(rows) = n
  BY <1>1, <1>2 DEF n
<1>13. Sorted(rows, n, pl, ix)
  BY <1>5, <1>6, <1>7, <1>9, <1>10, <1>11, <1>12 DEF Sorted
<1> QED
  BY <1>13

Lists == Seq([id : 1..Len(playlistNames), trackIds : Seq(TrackIds)])

(* A list that is being read has the tracks whose rows were among the first n. *)
ReadPart(entry, n, pl, ix) ==
  /\ Len(entry.trackIds) <= Len(lastSet[entry.id])
  /\ \A k \in 1..Len(entry.trackIds) : entry.trackIds[k] = lastSet[entry.id][k]
  /\ \A k \in 1..Len(lastSet[entry.id]) :
       k <= Len(entry.trackIds) <=> \E i \in 1..n : pl[i] = entry.id /\ ix[i] = k

(* The playlists of the first m rows have a list each, the last row's playlist the last *)
(* one, with the tracks of the first n rows.                                    *)
Read(lists, n, m, pl, ix) ==
  /\ lists \in Lists
  /\ \A a, b \in 1..Len(lists) : lists[a].id = lists[b].id => a = b
  /\ \A a \in 1..Len(lists) : /\ ReadPart(lists[a], n, pl, ix)
                              /\ \E i \in 1..m : pl[i] = lists[a].id
  /\ \A i \in 1..m : \E a \in 1..Len(lists) : lists[a].id = pl[i]
  /\ m > 0 => lists # <<>> /\ lists[Len(lists)].id = pl[m]

LEMMA ListTyped ==
  ASSUME NEW lists \in Lists, NEW a \in 1..Len(lists)
  PROVE  /\ Len(lists) \in Nat /\ lists[a].id \in 1..Len(playlistNames)
         /\ lists[a].trackIds \in Seq(TrackIds) /\ Len(lists[a].trackIds) \in Nat
         /\ lists[a] = [id |-> lists[a].id, trackIds |-> lists[a].trackIds]
<1>1. lists[a] \in [id : 1..Len(playlistNames), trackIds : Seq(TrackIds)]
  BY ElementOfSeq DEF Lists
<1>2. Len(lists) \in Nat
  BY LenProperties DEF Lists
<1>3. /\ lists[a].id \in 1..Len(playlistNames) /\ lists[a].trackIds \in Seq(TrackIds)
      /\ lists[a] = [id |-> lists[a].id, trackIds |-> lists[a].trackIds]
  BY <1>1
<1> QED
  BY <1>2, <1>3, LenProperties

(* A row of another playlist than the last begins a list: none had begun it before. *)
LEMMA OpenedReads ==
  ASSUME PlaylistsInv, NEW rows, NEW n, NEW pl, NEW ix, Sorted(rows, n, pl, ix),
         NEW m \in 0..(n - 1), NEW lists, Read(lists, m, m, pl, ix)
  PROVE  Read(Opened(lists, rows[m + 1]), m, m + 1, pl, ix)
<1> DEFINE p == pl[m + 1]
           size == Len(lists)
<1>1. n \in Nat /\ m \in Nat /\ m + 1 \in 1..n /\ m \in 0..n
      /\ p \in 1..Len(playlistNames) /\ rows[m + 1].playlist = p
      /\ \A i \in 1..(m + 1) : i \in 1..m \/ i = m + 1
  BY DEF Sorted
<1>2. /\ lists \in Lists /\ size \in Nat /\ (lists = <<>> <=> size = 0)
      /\ (\A a, b \in 1..size : lists[a].id = lists[b].id => a = b)
      /\ (\A a \in 1..size : ReadPart(lists[a], m, pl, ix) /\ \E i \in 1..m : pl[i] = lists[a].id)
      /\ (\A i \in 1..m : \E a \in 1..size : lists[a].id = pl[i])
      /\ (m > 0 => lists # <<>> /\ lists[size].id = pl[m])
  <2>1. size \in Nat /\ (lists = <<>> <=> size = 0)
    BY LenProperties, EmptySeq DEF Read, Lists
  <2> QED
    BY <2>1 DEF Read
<1> DEFINE row == rows[m + 1]
<1> HIDE DEF p, size, row
<1>3. CASE lists # <<>> /\ lists[size].id = p
  <2>1. Opened(lists, row) = lists
    BY <1>1, <1>3 DEF Opened, row, size
  <2>2. size \in 1..size /\ lists[size].id = pl[m + 1]
    BY <1>2, <1>3 DEF p
  <2>3. \A i \in 1..(m + 1) : \E a \in 1..size : lists[a].id = pl[i]
    BY <1>1, <1>2, <2>2
  <2>4. \A a \in 1..size : \E i \in 1..(m + 1) : pl[i] = lists[a].id
    <3>1. \A i \in 1..m : i \in 1..(m + 1)
      BY <1>1
    <3> QED
      BY <1>2, <3>1
  <2>5. Read(lists, m, m + 1, pl, ix)
    BY <1>2, <1>3, <2>2, <2>3, <2>4 DEF Read, size
  <2> QED
    BY <2>1, <2>5 DEF row
<1>4. CASE ~ (lists # <<>> /\ lists[size].id = p)
  <2> DEFINE new == [id |-> p, trackIds |-> <<>>]
             more == Append(lists, new)
  <2>1. Opened(lists, row) = more
    BY <1>1, <1>4 DEF Opened, row, size
  <2>2. \A i \in 1..m : pl[i] # p
    <3>1. ASSUME NEW i \in 1..m, pl[i] = p PROVE FALSE
      <4>1. m > 0 /\ m \in 1..n /\ i \in 1..n /\ m < m + 1 /\ (i < m \/ i = m)
        BY <1>1
      <4>2. pl[m] # p
        BY <1>2, <1>4, <4>1
      <4>3. i < m
        BY <3>1, <4>1, <4>2
      <4>4. pl[m] = p
        <5>1. \A a, b, c \in 1..n : a < b /\ b < c /\ pl[a] = pl[c] => pl[b] = pl[c]
          BY DEF Sorted
        <5>2. pl[i] = pl[m + 1]
          BY <3>1 DEF p
        <5> QED
          BY <1>1, <4>1, <4>3, <5>1, <5>2 DEF p
      <4> QED
        BY <4>2, <4>4
    <3> QED
      BY <3>1
  <2>3. new \in [id : 1..Len(playlistNames), trackIds : Seq(TrackIds)]
    BY <1>1, EmptySeq
  <2>4. new.id = p /\ new.trackIds = <<>> /\ Len(<<>>) = 0
    BY EmptySeq
  <2> HIDE DEF new
  <2>5. /\ more \in Lists /\ Len(more) = size + 1 /\ more[size + 1] = new
        /\ \A a \in 1..size : more[a] = lists[a]
    BY <1>2, <2>3, AppendProperties DEF Lists, size
  <2> HIDE DEF more
  <2>6. more # <<>>
    BY <1>2, <2>4, <2>5
  <2>7. \A a \in 1..(size + 1) : a \in 1..size \/ a = size + 1
    BY <1>2
  <2>8. \A a \in 1..size : lists[a].id # p
    BY <1>2, <2>2
  <2>9. ReadPart(new, m, pl, ix)
    <3>1. Len(lastSet[p]) \in Nat
      BY <1>1, PlaylistsInvTells, LenProperties
    <3>2. \A k \in 1..Len(lastSet[p]) : ~ (k <= 0) /\ ~ \E i \in 1..m : pl[i] = p /\ ix[i] = k
      BY <2>2, <3>1
    <3>3. Len(new.trackIds) = 0 /\ new.id = p
      BY <2>4
    <3>4. Len(new.trackIds) <= Len(lastSet[new.id])
      BY <3>1, <3>3
    <3>5. \A k \in 1..Len(new.trackIds) : new.trackIds[k] = lastSet[new.id][k]
      BY <3>3
    <3>6. \A k \in 1..Len(lastSet[new.id]) :
            k <= Len(new.trackIds) <=> \E i \in 1..m : pl[i] = new.id /\ ix[i] = k
      BY <3>2, <3>3
    <3> QED
      BY <3>4, <3>5, <3>6 DEF ReadPart
  <2>10. ASSUME NEW a \in 1..(size + 1), NEW b \in 1..(size + 1), more[a].id = more[b].id
         PROVE  a = b
    <3>1. CASE a \in 1..size /\ b \in 1..size
      <4>1. lists[a].id = lists[b].id
        BY <2>5, <2>10, <3>1
      <4> QED
        BY <1>2, <3>1, <4>1
    <3>2. CASE a \in 1..size /\ b = size + 1
      BY <2>4, <2>5, <2>8, <2>10, <3>2
    <3>3. CASE a = size + 1 /\ b \in 1..size
      BY <2>4, <2>5, <2>8, <2>10, <3>3
    <3> QED
      BY <2>7, <3>1, <3>2, <3>3
  <2>11. ASSUME NEW a \in 1..(size + 1)
         PROVE  ReadPart(more[a], m, pl, ix) /\ \E i \in 1..(m + 1) : pl[i] = more[a].id
    <3>1. CASE a \in 1..size
      <4>1. more[a] = lists[a] /\ ReadPart(lists[a], m, pl, ix)
        BY <1>2, <2>5, <3>1
      <4>2. PICK i \in 1..m : pl[i] = lists[a].id
        BY <1>2, <3>1
      <4>3. i \in 1..(m + 1)
        BY <1>1
      <4> QED
        BY <4>1, <4>2, <4>3
    <3>2. CASE a = size + 1
      <4>1. m + 1 \in 1..(m + 1) /\ pl[m + 1] = more[a].id
        BY <1>1, <2>4, <2>5, <3>2 DEF p
      <4> QED
        BY <2>5, <2>9, <3>2, <4>1
    <3> QED
      BY <2>7, <3>1, <3>2
  <2>12. ASSUME NEW i \in 1..(m + 1) PROVE \E a \in 1..(size + 1) : more[a].id = pl[i]
    <3>1. CASE i \in 1..m
      <4>1. PICK a \in 1..size : lists[a].id = pl[i]
        BY <1>2, <3>1
      <4>2. a \in 1..(size + 1) /\ more[a] = lists[a]
        BY <1>2, <2>5
      <4> QED
        BY <4>1, <4>2
    <3>2. CASE i = m + 1
      <4>1. size + 1 \in 1..(size + 1) /\ more[size + 1].id = p
        BY <1>2, <2>4, <2>5
      <4> QED
        BY <3>2, <4>1 DEF p
    <3> QED
      BY <1>1, <3>1, <3>2
  <2>13. more[Len(more)].id = pl[m + 1]
    BY <2>4, <2>5 DEF p
  <2>14. Read(more, m, m + 1, pl, ix)
    BY <2>5, <2>6, <2>10, <2>11, <2>12, <2>13 DEF Read
  <2> QED
    BY <2>1, <2>14 DEF row
<1> QED
  BY <1>3, <1>4

(* The track of a row is the next one of its list. *)
LEMMA NextTrack ==
  ASSUME PlaylistsInv, NEW rows, NEW n, NEW pl, NEW ix, Sorted(rows, n, pl, ix),
         NEW m \in 0..(n - 1), NEW entry, ReadPart(entry, m, pl, ix),
         Len(entry.trackIds) \in Nat, entry.id = pl[m + 1], ix[m + 1] # 0
  PROVE  ix[m + 1] = Len(entry.trackIds) + 1 /\ ix[m + 1] \in 1..Len(lastSet[pl[m + 1]])
<1> DEFINE p == pl[m + 1]
           k == ix[m + 1]
           size == Len(entry.trackIds)
           full == Len(lastSet[p])
<1>1. n \in Nat /\ m \in Nat /\ m + 1 \in 1..n /\ p \in 1..Len(playlistNames)
      /\ k \in Indexes(p)
  BY DEF Sorted
<1>2. full \in Nat /\ (lastSet[p] = <<>> <=> full = 0)
  <2>1. lastSet[p] \in Seq(TrackIds)
    BY <1>1, PlaylistsInvTells
  <2> QED
    BY <2>1, LenProperties, EmptySeq
<1>3. k \in 1..full /\ Indexes(p) = 1..full
  BY <1>1, <1>2 DEF Indexes
<1>4. \A j \in 1..full : j <= size <=> \E i \in 1..m : pl[i] = p /\ ix[i] = j
  BY DEF ReadPart
<1>5. \A i, j \in 1..n : i < j /\ pl[i] = pl[j] => ix[i] < ix[j]
  BY DEF Sorted
<1>6. \A j \in 1..full : \E i \in 1..n : pl[i] = p /\ ix[i] = j
  <2>1. \A q \in 1..Len(playlistNames) : \A j \in Indexes(q) :
          \E i \in 1..n : pl[i] = q /\ ix[i] = j
    BY DEF Sorted
  <2> QED
    BY <1>1, <1>3, <2>1
<1>7. pl[m + 1] = p /\ ix[m + 1] = k /\ size \in Nat
  OBVIOUS
<1> HIDE DEF p, k, size, full
<1>8. ~ (k <= size)
  <2>1. ASSUME k <= size PROVE FALSE
    <3>1. PICK i \in 1..m : pl[i] = p /\ ix[i] = k
      BY <1>3, <1>4, <2>1
    <3>2. i \in 1..n /\ i < m + 1
      BY <1>1
    <3>3. k < k
      BY <1>1, <1>5, <1>7, <3>1, <3>2
    <3>4. k \in Nat
      BY <1>2, <1>3
    <3> QED
      BY <3>3, <3>4
  <2> QED
    BY <2>1
<1>9. ~ (size + 1 < k)
  <2>1. ASSUME size + 1 < k PROVE FALSE
    <3>1. size + 1 \in 1..full /\ ~ (size + 1 <= size)
      BY <1>2, <1>3, <1>7, <2>1
    <3>2. PICK i \in 1..n : pl[i] = p /\ ix[i] = size + 1
      BY <1>6, <3>1
    <3>3. i \notin 1..m
      BY <1>4, <3>1, <3>2
    <3>4. i # m + 1
      BY <1>3, <1>7, <2>1, <3>2
    <3>5. m + 1 < i
      BY <1>1, <3>3, <3>4
    <3>6. k < size + 1
      BY <1>1, <1>5, <1>7, <3>2, <3>5
    <3> QED
      BY <1>2, <1>3, <1>7, <2>1, <3>6
  <2> QED
    BY <2>1
<1>10. k = size + 1
  BY <1>2, <1>3, <1>7, <1>8, <1>9
<1> QED
  BY <1>3, <1>10 DEF p, k, size, full

(* The rows of other playlists change nothing for a list. *)
LEMMA OthersReadOn ==
  ASSUME NEW m \in Nat, NEW pl, NEW ix, NEW entry, ReadPart(entry, m, pl, ix),
         entry.id # pl[m + 1]
  PROVE  ReadPart(entry, m + 1, pl, ix)
<1>1. ASSUME NEW k
      PROVE  (\E i \in 1..m : pl[i] = entry.id /\ ix[i] = k)
               <=> (\E i \in 1..(m + 1) : pl[i] = entry.id /\ ix[i] = k)
  <2>1. \A i \in 1..(m + 1) : i \in 1..m \/ i = m + 1
    OBVIOUS
  <2>2. \A i \in 1..m : i \in 1..(m + 1)
    OBVIOUS
  <2> QED
    BY <2>1, <2>2
<1> QED
  BY <1>1 DEF ReadPart

(* With its next track, a list has the tracks of one more row. *)
LEMMA ListReadOn ==
  ASSUME PlaylistsInv, NEW rows, NEW n, NEW pl, NEW ix, Sorted(rows, n, pl, ix),
         NEW m \in 0..(n - 1), NEW entry, NEW longer, ReadPart(entry, m, pl, ix),
         entry.trackIds \in Seq(TrackIds), entry.id = pl[m + 1], longer.id = entry.id,
         IF ix[m + 1] = 0 THEN longer.trackIds = entry.trackIds
         ELSE longer.trackIds = Append(entry.trackIds, lastSet[pl[m + 1]][ix[m + 1]])
  PROVE  ReadPart(longer, m + 1, pl, ix) /\ longer.trackIds \in Seq(TrackIds)
<1> DEFINE p == pl[m + 1]
           k == ix[m + 1]
           size == Len(entry.trackIds)
           full == Len(lastSet[p])
<1>1. n \in Nat /\ m \in Nat /\ m + 1 \in 1..n /\ p \in 1..Len(playlistNames)
      /\ k \in Indexes(p)
  BY DEF Sorted
<1>2. full \in Nat /\ size \in Nat /\ (\A j \in 1..full : lastSet[p][j] \in TrackIds)
      /\ (lastSet[p] = <<>> <=> full = 0)
  <2>1. lastSet[p] \in Seq(TrackIds)
    BY <1>1, PlaylistsInvTells
  <2> QED
    BY <2>1, LenProperties, EmptySeq, ElementOfSeq
<1>3. /\ size <= full /\ (\A j \in 1..size : entry.trackIds[j] = lastSet[p][j])
      /\ \A j \in 1..full : j <= size <=> \E i \in 1..m : pl[i] = p /\ ix[i] = j
  BY DEF ReadPart
<1>4. CASE k = 0
  <2>1. full = 0
    BY <1>1, <1>2, <1>4 DEF Indexes
  <2>2. longer.trackIds = entry.trackIds /\ longer.id = p
    BY <1>4
  <2>3. 1..full = {}
    BY <2>1
  <2> HIDE DEF p, full
  <2>4. Len(longer.trackIds) <= Len(lastSet[longer.id])
    BY <1>3, <2>2 DEF full
  <2>5. \A j \in 1..Len(longer.trackIds) : longer.trackIds[j] = lastSet[longer.id][j]
    BY <1>3, <2>2
  <2>6. \A j \in 1..Len(lastSet[longer.id]) :
          j <= Len(longer.trackIds) <=> \E i \in 1..(m + 1) : pl[i] = longer.id /\ ix[i] = j
    BY <2>2, <2>3 DEF full
  <2> QED
    BY <2>2, <2>4, <2>5, <2>6 DEF ReadPart
<1>5. CASE k # 0
  <2> DEFINE track == lastSet[p][k]
             tracks == Append(entry.trackIds, track)
  <2>1. k = size + 1 /\ k \in 1..full
    BY <1>2, <1>5, NextTrack
  <2>2. longer.trackIds = tracks /\ longer.id = p /\ track \in TrackIds
    BY <1>2, <1>5, <2>1
  <2> HIDE DEF track
  <2>3. /\ tracks \in Seq(TrackIds) /\ Len(tracks) = size + 1 /\ tracks[size + 1] = track
        /\ \A j \in 1..size : tracks[j] = entry.trackIds[j]
    BY <2>2, AppendProperties
  <2> HIDE DEF tracks
  <2>4. \A j \in 1..(size + 1) : tracks[j] = lastSet[p][j]
    <3>1. \A j \in 1..(size + 1) : j \in 1..size \/ j = size + 1
      BY <1>2
    <3>2. tracks[size + 1] = lastSet[p][size + 1]
      BY <2>1, <2>3 DEF track
    <3> QED
      BY <1>3, <2>3, <3>1, <3>2
  <2>5. ASSUME NEW j \in 1..full
        PROVE  j <= size + 1 <=> \E i \in 1..(m + 1) : pl[i] = p /\ ix[i] = j
    <3>1. j <= size + 1 <=> (j <= size \/ j = k)
      BY <1>2, <2>1
    <3>2. \A i \in 1..(m + 1) : i \in 1..m \/ i = m + 1
      BY <1>1
    <3>3. \A i \in 1..m : i \in 1..(m + 1)
      BY <1>1
    <3>4. m + 1 \in 1..(m + 1) /\ pl[m + 1] = p /\ ix[m + 1] = k
      BY <1>1
    <3>5. j <= size <=> \E i \in 1..m : pl[i] = p /\ ix[i] = j
      BY <1>3
    <3> HIDE DEF p, k, size
    <3> QED
      BY <3>1, <3>2, <3>3, <3>4, <3>5
  <2>6. size + 1 <= full
    BY <1>2, <2>1
  <2> HIDE DEF p, size
  <2>7. ReadPart(longer, m + 1, pl, ix)
    BY <2>2, <2>3, <2>4, <2>5, <2>6 DEF ReadPart, full
  <2> QED
    BY <2>2, <2>3, <2>7
<1> QED
  BY <1>4, <1>5

(* With the track of the next row, the lists have been read one row further. *)
LEMMA TrackReads ==
  ASSUME PlaylistsInv, NEW rows, NEW n, NEW pl, NEW ix, Sorted(rows, n, pl, ix),
         NEW m \in 0..(n - 1), NEW lists, Read(lists, m, m + 1, pl, ix)
  PROVE  Read(WithTrack(lists, rows[m + 1].track), m + 1, m + 1, pl, ix)
<1> DEFINE p == pl[m + 1]
           k == ix[m + 1]
           track == rows[m + 1].track
           size == Len(lists)
           next == WithTrack(lists, track)
<1>1. n \in Nat /\ m \in Nat /\ m + 1 \in 1..n /\ m + 1 > 0
      /\ p \in 1..Len(playlistNames) /\ k \in Indexes(p) /\ track = TrackOf(p, k)
  BY DEF Sorted
<1>2. /\ lists \in Lists /\ size \in Nat /\ size # 0
      /\ (\A a, b \in 1..size : lists[a].id = lists[b].id => a = b)
      /\ (\A a \in 1..size : ReadPart(lists[a], m, pl, ix)
                             /\ \E i \in 1..(m + 1) : pl[i] = lists[a].id)
      /\ (\A i \in 1..(m + 1) : \E a \in 1..size : lists[a].id = pl[i])
      /\ lists # <<>> /\ lists[size].id = p
  <2>1. lists \in Lists /\ lists # <<>>
    BY <1>1 DEF Read
  <2>2. size \in Nat /\ size # 0
    BY <2>1, LenProperties, EmptySeq DEF Lists
  <2> QED
    BY <1>1, <2>1, <2>2 DEF Read
<1> DEFINE old == lists[size]
<1>3. size \in 1..size /\ old.trackIds \in Seq(TrackIds)
      /\ old = [id |-> old.id, trackIds |-> old.trackIds] /\ old.id = p
  <2>1. size \in 1..Len(lists)
    BY <1>2
  <2>2. \A a \in 1..Len(lists) :
          /\ lists[a].trackIds \in Seq(TrackIds)
          /\ lists[a] = [id |-> lists[a].id, trackIds |-> lists[a].trackIds]
    BY <1>2, ListTyped
  <2> HIDE DEF size
  <2>3. old.trackIds \in Seq(TrackIds) /\ old = [id |-> old.id, trackIds |-> old.trackIds]
    BY <2>1, <2>2
  <2> QED
    BY <1>2, <2>1, <2>3 DEF size
<1> DEFINE longer == [id |-> p,
                      trackIds |-> IF k = 0 THEN old.trackIds
                                   ELSE Append(old.trackIds, lastSet[p][k])]
<1>4. ReadPart(longer, m + 1, pl, ix) /\ longer.trackIds \in Seq(TrackIds)
  <2>1. ReadPart(old, m, pl, ix)
    BY <1>2, <1>3
  <2>2. IF ix[m + 1] = 0 THEN longer.trackIds = old.trackIds
        ELSE longer.trackIds = Append(old.trackIds, lastSet[pl[m + 1]][ix[m + 1]])
    OBVIOUS
  <2>3. longer.id = old.id /\ old.id = pl[m + 1]
    BY <1>3
  <2> HIDE DEF longer, old, p, k
  <2> QED
    BY <1>3, <2>1, <2>2, <2>3, ListReadOn
<1>5. longer.id = p /\ longer \in [id : 1..Len(playlistNames), trackIds : Seq(TrackIds)]
  <2>1. longer.trackIds \in Seq(TrackIds) /\ longer.id = p
        /\ longer = [id |-> longer.id, trackIds |-> longer.trackIds]
    BY <1>4
  <2> HIDE DEF longer, p
  <2> QED
    BY <1>1, <2>1
<1>6. next = [lists EXCEPT ![size] = longer]
  <2>1. CASE k = 0
    <3>1. track = NoTrack /\ longer = old
      BY <1>1, <1>3, <2>1 DEF TrackOf
    <3>2. next = lists
      BY <3>1 DEF WithTrack
    <3>3. [lists EXCEPT ![size] = old] = lists
      <4>1. lists \in [1..size -> [id : 1..Len(playlistNames), trackIds : Seq(TrackIds)]]
        BY <1>2, LenProperties DEF Lists
      <4> QED
        BY <4>1
    <3> QED
      BY <3>1, <3>2, <3>3
  <2>2. CASE k # 0
    <3>1. track = lastSet[p][k] /\ track \in TrackIds
      <4>1. lastSet[p] \in Seq(TrackIds) /\ k \in 1..Len(lastSet[p])
        <5>1. lastSet[p] \in Seq(TrackIds)
          BY <1>1, PlaylistsInvTells
        <5>2. lastSet[p] # <<>>
          BY <1>1, <2>2 DEF Indexes
        <5> QED
          BY <1>1, <5>1, <5>2 DEF Indexes
      <4>2. lastSet[p][k] \in TrackIds
        BY <4>1, ElementOfSeq
      <4> QED
        BY <1>1, <2>2, <4>2 DEF TrackOf
    <3>2. track # NoTrack
      BY <3>1, PlaylistsAssumption
    <3> DEFINE tracks == Append(old.trackIds, track)
    <3> HIDE DEF track
    <3>3. next = [lists EXCEPT ![size] = [old EXCEPT !.trackIds = tracks]]
      BY <3>2 DEF WithTrack
    <3>4. [old EXCEPT !.trackIds = tracks] = [id |-> p, trackIds |-> tracks]
      <4> DEFINE a == old.id
                 b == old.trackIds
      <4>1. old = [id |-> a, trackIds |-> b] /\ a = p
        BY <1>3
      <4> HIDE DEF a, b, old, p, tracks
      <4> QED
        BY <4>1
    <3>5. longer = [id |-> p, trackIds |-> tracks]
      BY <2>2, <3>1
    <3> QED
      BY <3>3, <3>4, <3>5
  <2> QED
    BY <2>1, <2>2
<1> HIDE DEF longer, next
<1>7. /\ next \in Lists /\ Len(next) = size
      /\ \A a \in 1..size : next[a] = IF a = size THEN longer ELSE lists[a]
  <2> DEFINE R == [id : 1..Len(playlistNames), trackIds : Seq(TrackIds)]
  <2>1. lists \in Seq(R) /\ longer \in R /\ size \in 1..Len(lists)
    BY <1>2, <1>3, <1>5 DEF Lists
  <2> HIDE DEF R
  <2>2. /\ next \in Seq(R) /\ Len(next) = Len(lists)
        /\ \A a \in 1..Len(lists) : next[a] = IF a = size THEN longer ELSE lists[a]
    <3> HIDE DEF size
    <3> QED
      BY <1>6, <2>1, ExceptSeq
  <2> QED
    BY <2>2 DEF R, Lists
<1>8. \A a \in 1..size : next[a].id = lists[a].id
  BY <1>3, <1>5, <1>7
<1> HIDE DEF p, k, size, track, old
<1>9. ASSUME NEW a \in 1..size PROVE ReadPart(next[a], m + 1, pl, ix)
  <2>1. CASE a = size
    BY <1>4, <1>7, <2>1
  <2>2. CASE a # size
    <3>1. lists[a].id # p
      BY <1>2, <1>3, <2>2
    <3>2. ReadPart(lists[a], m, pl, ix)
      BY <1>2
    <3>3. ReadPart(lists[a], m + 1, pl, ix)
      BY <1>1, <3>1, <3>2, OthersReadOn DEF p
    <3> QED
      BY <1>7, <2>2, <3>3
  <2> QED
    BY <2>1, <2>2
<1>10. \A a, b \in 1..size : next[a].id = next[b].id => a = b
  BY <1>2, <1>8
<1>11. \A a \in 1..size : \E i \in 1..(m + 1) : pl[i] = next[a].id
  BY <1>2, <1>8
<1>12. \A i \in 1..(m + 1) : \E a \in 1..size : next[a].id = pl[i]
  BY <1>2, <1>8
<1>13. next # <<>> /\ next[size].id = pl[m + 1]
  <2>1. next[size].id = pl[m + 1]
    BY <1>2, <1>3, <1>8 DEF p
  <2>2. next # <<>>
    BY <1>2, <1>7, EmptySeq
  <2> QED
    BY <2>1, <2>2
<1>14. Read(next, m + 1, m + 1, pl, ix)
  BY <1>7, <1>9, <1>10, <1>11, <1>12, <1>13 DEF Read
<1> QED
  BY <1>14 DEF next, track

(* Each row reads the lists on. *)
LEMMA RowReads ==
  ASSUME PlaylistsInv, NEW rows, NEW n, NEW pl, NEW ix, Sorted(rows, n, pl, ix),
         NEW k \in 1..n, NEW lists, Read(lists, k - 1, k - 1, pl, ix)
  PROVE  Read(WithTrack(Opened(lists, rows[k]), rows[k].track), k, k, pl, ix)
<1>1. n \in Nat /\ k \in Nat
  BY DEF Sorted
<1> DEFINE m == k - 1
<1>2. m \in 0..(n - 1) /\ m + 1 = k /\ Read(lists, m, m, pl, ix)
  BY <1>1
<1> HIDE DEF m
<1>3. Read(Opened(lists, rows[m + 1]), m, m + 1, pl, ix)
  BY <1>2, OpenedReads
<1>4. Read(WithTrack(Opened(lists, rows[m + 1]), rows[m + 1].track), m + 1, m + 1, pl, ix)
  BY <1>2, <1>3, TrackReads
<1> QED
  BY <1>2, <1>4

(* No list has been begun before the first row. *)
LEMMA NothingRead == \A pl, ix : Read(<<>>, 0, 0, pl, ix)
<1>1. <<>> \in Lists /\ Len(<<>>) = 0
  BY EmptySeq DEF Lists
<1> QED
  BY <1>1 DEF Read

(* All the rows are read, in any function that goes through them as the loop does. *)
LEMMA AllRead ==
  ASSUME PlaylistsInv, NEW rows, NEW n, NEW pl, NEW ix, Sorted(rows, n, pl, ix),
         NEW f, f[0] = <<>>,
         \A k \in 1..n : \/ f[k] = WithTrack(Opened(f[k - 1], rows[k]), rows[k].track)
                         \/ ~ Read(f[k - 1], k - 1, k - 1, pl, ix)
  PROVE  \A k \in 0..n : Read(f[k], k, k, pl, ix)
<1> DEFINE T == {k \in Nat : k <= n => Read(f[k], k, k, pl, ix)}
<1>1. n \in Nat
  BY DEF Sorted
<1>2. 0 \in T
  BY NothingRead
<1>3. ASSUME NEW k \in T PROVE k + 1 \in T
  <2>1. ASSUME k + 1 <= n PROVE Read(f[k + 1], k + 1, k + 1, pl, ix)
    <3> DEFINE j == k + 1
    <3>1. j \in 1..n /\ j - 1 = k
      BY <1>1, <2>1
    <3>2. Read(f[j - 1], j - 1, j - 1, pl, ix)
      BY <1>1, <2>1, <3>1
    <3> HIDE DEF j
    <3>3. f[j] = WithTrack(Opened(f[j - 1], rows[j]), rows[j].track)
      BY <3>1, <3>2
    <3>4. Read(f[j], j, j, pl, ix)
      BY <3>1, <3>2, <3>3, RowReads
    <3> QED
      BY <3>4 DEF j
  <2> QED
    BY <2>1
<1>4. T = Nat
  <2>1. T \in SUBSET Nat
    OBVIOUS
  <2> HIDE DEF T
  <2> QED
    BY <1>2, <1>3, <2>1, AllNumbers
<1>5. \A k \in 0..n : k \in T /\ k <= n
  BY <1>1, <1>4
<1> QED
  BY <1>5

(* The loop over the rows reads them all. *)
LEMMA GroupedReads ==
  ASSUME PlaylistsInv, NEW rows, NEW n, NEW pl, NEW ix, Sorted(rows, n, pl, ix)
  PROVE  Read(Grouped(rows), n, n, pl, ix)
<1> DEFINE Row(lists, k) == WithTrack(Opened(lists, rows[k]), rows[k].track)
           Loop(f) == [k \in 0..Len(rows) |-> IF k = 0 THEN <<>> ELSE Row(f[k - 1], k)]
           after == CHOOSE f : f = Loop(f)
           step == [x \in Nat \X Lists |->
                      IF Row(x[2], x[1]) \in Lists THEN Row(x[2], x[1]) ELSE x[2]]
<1>1. n \in Nat /\ Len(rows) = n
  BY DEF Sorted
<1>2. Grouped(rows) = after[n]
  BY <1>1 DEF Grouped
<1>3. step \in [Nat \X Lists -> Lists]
  <2> HIDE DEF Row
  <2> QED
    OBVIOUS
<1>4. <<>> \in Lists
  BY EmptySeq DEF Lists
<1>5. PICK f \in [Nat -> Lists] : Iterated(f, step, <<>>)
  <2> DEFINE R == Lists
             g == step
             x == <<>>
  <2>1. g \in [Nat \X R -> R] /\ x \in R
    BY <1>3, <1>4
  <2> HIDE DEF R, g, x
  <2>2. \E f \in [Nat -> R] : Iterated(f, g, x)
    BY <2>1, Iterable
  <2> QED
    BY <2>2 DEF R, g, x
<1> HIDE DEF Row
<1>6. f[0] = <<>> /\ \A k \in Nat \ {0} : f[k] = step[<<k, f[k - 1]>>]
  BY <1>5 DEF Iterated
<1>7. ASSUME NEW k \in 1..n
      PROVE  /\ k \in Nat \ {0} /\ k - 1 \in Nat /\ f[k - 1] \in Lists
             /\ f[k] = IF Row(f[k - 1], k) \in Lists THEN Row(f[k - 1], k) ELSE f[k - 1]
  <2>1. k \in Nat \ {0} /\ k - 1 \in Nat
    BY <1>1
  <2>2. f[k - 1] \in Lists
    BY <2>1
  <2>3. f[k] = step[<<k, f[k - 1]>>]
    BY <1>6, <2>1
  <2> QED
    BY <2>1, <2>2, <2>3
<1>8. ASSUME NEW k \in 1..n, Read(f[k - 1], k - 1, k - 1, pl, ix) PROVE f[k] = Row(f[k - 1], k)
  <2>1. Read(Row(f[k - 1], k), k, k, pl, ix)
    BY <1>8, RowReads DEF Row
  <2>2. Row(f[k - 1], k) \in Lists
    BY <2>1 DEF Read
  <2> QED
    BY <1>7, <2>2
<1>9. \A k \in 0..n : Read(f[k], k, k, pl, ix)
  <2>1. \A k \in 1..n : \/ f[k] = WithTrack(Opened(f[k - 1], rows[k]), rows[k].track)
                        \/ ~ Read(f[k - 1], k - 1, k - 1, pl, ix)
    BY <1>8 DEF Row
  <2> QED
    BY <1>6, <2>1, AllRead
<1> DEFINE h == [k \in 0..n |-> f[k]]
<1>10. h = Loop(h)
  <2>1. ASSUME NEW k \in 0..n PROVE h[k] = IF k = 0 THEN <<>> ELSE Row(h[k - 1], k)
    <3>1. CASE k = 0
      BY <1>6, <3>1
    <3>2. CASE k # 0
      <4>1. k \in 1..n /\ k - 1 \in 0..n
        BY <1>1, <3>2
      <4>2. f[k] = Row(f[k - 1], k)
        BY <1>8, <1>9, <4>1
      <4>3. h[k] = f[k] /\ h[k - 1] = f[k - 1]
        BY <4>1
      <4> QED
        BY <3>2, <4>2, <4>3
    <3> QED
      BY <3>1, <3>2
  <2> HIDE DEF h
  <2>2. h = [k \in 0..n |-> h[k]]
    BY DEF h
  <2> QED
    BY <1>1, <2>1, <2>2
<1>11. after = Loop(after)
  <2> HIDE DEF h
  <2> QED
    BY <1>10
<1> HIDE DEF after
<1>12. \A k \in 0..n : after[k] = IF k = 0 THEN <<>> ELSE Row(after[k - 1], k)
  BY <1>1, <1>11
<1>13. after[0] = <<>> /\ \A k \in 1..n : after[k] = Row(after[k - 1], k)
  <2>1. 0 \in 0..n /\ \A k \in 1..n : k \in 0..n /\ k # 0
    BY <1>1
  <2> QED
    BY <1>12, <2>1
<1>14. \A k \in 0..n : Read(after[k], k, k, pl, ix)
  <2>1. \A k \in 1..n : \/ after[k] = WithTrack(Opened(after[k - 1], rows[k]), rows[k].track)
                        \/ ~ Read(after[k - 1], k - 1, k - 1, pl, ix)
    BY <1>13 DEF Row
  <2> QED
    BY <1>13, <2>1, AllRead
<1> QED
  BY <1>1, <1>2, <1>14

(* When all the rows are read, every playlist has one list, with all of its tracks. *)
LEMMA AllReadBack ==
  ASSUME PlaylistsInv, NEW rows, NEW n, NEW pl, NEW ix, Sorted(rows, n, pl, ix),
         NEW lists, Read(lists, n, n, pl, ix)
  PROVE  ReadsBack(lists)
<1> DEFINE P == Len(playlistNames)
           size == Len(lists)
<1>1. /\ lists \in Lists /\ n \in Nat /\ pl \in [1..n -> 1..P]
      /\ (\A a, b \in 1..size : lists[a].id = lists[b].id => a = b)
      /\ (\A a \in 1..size : ReadPart(lists[a], n, pl, ix))
      /\ (\A i \in 1..n : \E a \in 1..size : lists[a].id = pl[i])
      /\ \A p \in 1..P : \A k \in Indexes(p) : \E i \in 1..n : pl[i] = p /\ ix[i] = k
  BY DEF Read, Sorted
<1>2. P \in Nat /\ size \in Nat /\ DOMAIN playlistNames = 1..P /\ DOMAIN lists = 1..size
  BY <1>1, PlaylistsInvTells, LenProperties DEF Lists
<1>3. ASSUME NEW a \in 1..size
      PROVE  /\ lists[a].id \in 1..P /\ lists[a].trackIds \in Seq(TrackIds)
             /\ lists[a] = [id |-> lists[a].id, trackIds |-> lists[a].trackIds]
  BY <1>1, <1>3, ListTyped
<1>4. ASSUME NEW p \in 1..P
      PROVE  /\ lastSet[p] \in Seq(TrackIds) /\ Len(lastSet[p]) \in Nat
             /\ \A k \in 1..Len(lastSet[p]) : \E i \in 1..n : pl[i] = p /\ ix[i] = k
             /\ \E i \in 1..n : pl[i] = p
  <2>1. lastSet[p] \in Seq(TrackIds)
    BY PlaylistsInvTells
  <2>2. Len(lastSet[p]) \in Nat /\ (lastSet[p] = <<>> <=> Len(lastSet[p]) = 0)
    BY <2>1, LenProperties, EmptySeq
  <2>3. CASE lastSet[p] = <<>>
    <3>1. 0 \in Indexes(p) /\ 1..Len(lastSet[p]) = {}
      BY <2>2, <2>3 DEF Indexes
    <3> QED
      BY <1>1, <2>1, <2>2, <3>1
  <2>4. CASE lastSet[p] # <<>>
    <3>1. Indexes(p) = 1..Len(lastSet[p]) /\ 1 \in 1..Len(lastSet[p])
      BY <2>2, <2>4 DEF Indexes
    <3> QED
      BY <1>1, <2>1, <2>2, <3>1
  <2> QED
    BY <2>3, <2>4
<1> HIDE DEF P, size
<1>5. ASSUME NEW p \in 1..P PROVE \E a \in 1..size : lists[a].id = p
  <2>1. PICK i \in 1..n : pl[i] = p
    BY <1>4
  <2> QED
    BY <1>1, <2>1
<1>6. ASSUME NEW a \in 1..size PROVE lists[a].trackIds = lastSet[lists[a].id]
  <2> DEFINE p == lists[a].id
             tracks == lists[a].trackIds
             full == lastSet[p]
  <2>1. p \in 1..P /\ tracks \in Seq(TrackIds) /\ full \in Seq(TrackIds)
        /\ Len(full) \in Nat /\ Len(tracks) \in Nat
    BY <1>3, <1>4, LenProperties
  <2>2. /\ Len(tracks) <= Len(full) /\ \A k \in 1..Len(tracks) : tracks[k] = full[k]
        /\ \A k \in 1..Len(full) : k <= Len(tracks) <=> \E i \in 1..n : pl[i] = p /\ ix[i] = k
    BY <1>1 DEF ReadPart
  <2>3. \A k \in 1..Len(full) : \E i \in 1..n : pl[i] = p /\ ix[i] = k
    BY <1>4, <2>1
  <2> HIDE DEF p, tracks, full
  <2>4. \A k \in 1..Len(full) : k <= Len(tracks)
    BY <2>2, <2>3
  <2>5. Len(tracks) = Len(full)
    BY <2>1, <2>2, <2>4
  <2>6. tracks = full
    BY <2>1, <2>2, <2>5, SeqEqual
  <2> QED
    BY <2>6 DEF p, tracks, full
<1>7. ASSUME NEW p \in DOMAIN playlistNames
      PROVE  \E a \in DOMAIN lists : lists[a] = [id |-> p, trackIds |-> lastSet[p]]
  <2>1. PICK a \in 1..size : lists[a].id = p
    BY <1>2, <1>5
  <2>2. lists[a] = [id |-> p, trackIds |-> lastSet[p]]
    BY <1>3, <1>6, <2>1
  <2> QED
    BY <1>2, <2>2
<1>8. size = P
  <2> DEFINE A == 1..size
             B == 1..P
             f == [a \in A |-> lists[a].id]
  <2>1. IsFiniteSet(A) /\ Cardinality(A) = size /\ Cardinality(B) = P
    BY <1>2, CountUpTo
  <2>2. f \in [A -> B] /\ \A a \in A : f[a] = lists[a].id
    BY <1>3
  <2>3. DOMAIN f = A
    OBVIOUS
  <2>4. (\A a, b \in A : f[a] = f[b] => a = b) /\ \A p \in B : \E a \in A : f[a] = p
    BY <1>1, <1>5, <2>2 DEF size
  <2> HIDE DEF A, B, f
  <2>5. f \in Bijection(A, B)
    BY <2>2, <2>3, <2>4 DEF Bijection, Injection, Surjection, IsInjective
  <2>6. ExistsBijection(A, B)
    BY <2>5 DEF ExistsBijection
  <2>7. Cardinality(B) = Cardinality(A)
    BY <2>1, <2>6, FS_Bijection
  <2> QED
    BY <2>1, <2>7
<1> QED
  BY <1>7, <1>8 DEF ReadsBack, P, size

(* Every playlist is read back with the tracks it was given, less those deleted, as long *)
(* as no two names differ in case only: PlaylistsReadBack of Playlists, for playlists(). *)
THEOREM PlaylistsAreReadBack == PlaylistsSpec => []PlaylistsReadBack
<1>1. ASSUME PlaylistsInv, NoTwoAlike, NEW rows \in QueryResults
      PROVE  ReadsBack(Grouped(rows))
  <2>1. PICK n, pl, ix : Sorted(rows, n, pl, ix)
    BY <1>1, RowsSorted
  <2>2. Read(Grouped(rows), n, n, pl, ix)
    BY <1>1, <2>1, GroupedReads
  <2> QED
    BY <1>1, <2>1, <2>2, AllReadBack
<1>2. PlaylistsInv => PlaylistsReadBack
  BY <1>1 DEF PlaylistsReadBack, NoTwoAlike
<1> QED
  BY <1>2, PlaylistsStart, PlaylistsStepKeeps, PTL DEF PlaylistsSpec

-----------------------------------------------------------------------------
(* The services: each component does what its specification says *)

(* Each component starts and moves by itself: it moves by its own step, or rests. *)
LEMMA ComponentsStart ==
  ServicesInit =>
    /\ QueueInit
    /\ WindowInit
    /\ AnalysisInit
    /\ RadioInit
    /\ GatewayInit
    /\ AccountsInit
    /\ LinkInit
    /\ CodecInit
    /\ ExtensionsInit
    /\ PlaylistsInit
    /\ ViewInit
  BY DEF ServicesInit

(* A step of the services is a step of every component or leaves it alone. *)
LEMMA ComponentsMove ==
  [ServicesNext]_servicesVars =>
    /\ [QueueNext]_queueVars
    /\ [WindowNext]_windowVars
    /\ [AnalysisNext]_analysisVars
    /\ [RadioNext]_radioVars
    /\ [GatewayNext]_gatewayVars
    /\ [AccountsNext]_accountVars
    /\ [LinkNext]_linkVars
    /\ [CodecNext]_codecVars
    /\ [ExtensionsNext]_extensionVars
    /\ [PlaylistsNext]_playlistVars
    /\ [ViewNext]_viewVars
<1> SUFFICES ASSUME [ServicesNext]_servicesVars
             PROVE  /\ [QueueNext]_queueVars
                    /\ [WindowNext]_windowVars
                    /\ [AnalysisNext]_analysisVars
                    /\ [RadioNext]_radioVars
                    /\ [GatewayNext]_gatewayVars
                    /\ [AccountsNext]_accountVars
                    /\ [LinkNext]_linkVars
                    /\ [CodecNext]_codecVars
                    /\ [ExtensionsNext]_extensionVars
                    /\ [PlaylistsNext]_playlistVars
                    /\ [ViewNext]_viewVars
  OBVIOUS
<1>1. [QueueNext]_queueVars
  BY DEF ServicesNext, OthersAtRest, servicesVars
<1>2. [WindowNext]_windowVars
  BY DEF ServicesNext, OthersAtRest, servicesVars
<1>3. [AnalysisNext]_analysisVars
  BY DEF ServicesNext, OthersAtRest, servicesVars
<1>4. [RadioNext]_radioVars
  BY DEF ServicesNext, OthersAtRest, servicesVars
<1>5. [GatewayNext]_gatewayVars
  BY DEF ServicesNext, OthersAtRest, servicesVars
<1>6. [AccountsNext]_accountVars
  BY DEF ServicesNext, OthersAtRest, servicesVars
<1>7. [LinkNext]_linkVars
  BY DEF ServicesNext, OthersAtRest, servicesVars
<1>8. [CodecNext]_codecVars
  BY DEF ServicesNext, OthersAtRest, servicesVars
<1>9. [ExtensionsNext]_extensionVars
  BY DEF ServicesNext, OthersAtRest, servicesVars
<1>10. [PlaylistsNext]_playlistVars
  BY DEF ServicesNext, OthersAtRest, servicesVars
<1>11. [ViewNext]_viewVars
  BY DEF ServicesNext, OthersAtRest, servicesVars
<1> QED
  BY <1>1, <1>2, <1>3, <1>4, <1>5, <1>6, <1>7, <1>8, <1>9, <1>10, <1>11

(* The services are the components, one per behaviour. *)
LEMMA ServicesAreComponents ==
  ServicesSpec =>
    /\ QueueSpec
    /\ WindowSpec
    /\ AnalysisSpec
    /\ RadioSpec
    /\ GatewaySpec
    /\ AccountsSpec
    /\ LinkSpec
    /\ CodecSpec
    /\ ExtensionsSpec
    /\ PlaylistsSpec
    /\ ViewSpec
  BY ComponentsStart, ComponentsMove, PTL
     DEF ServicesSpec, QueueSpec, WindowSpec, AnalysisSpec, RadioSpec, GatewaySpec,
         AccountsSpec, LinkSpec, CodecSpec, ExtensionsSpec, PlaylistsSpec, ViewSpec

(* Every variable of the services stays in its domain. *)
THEOREM ServicesAreTyped == ServicesSpec => []ServicesTypeOK
<1>1. /\ QueueTypeOK
      /\ WindowTypeOK
      /\ AnalysisTypeOK
      /\ RadioTypeOK
      /\ GatewayTypeOK
      /\ AccountsTypeOK
      /\ LinkTypeOK
      /\ CodecTypeOK
      /\ ExtensionsTypeOK
      /\ PlaylistsTypeOK
      /\ ViewTypeOK /\ LibraryShown
      => ServicesTypeOK
  BY DEF ServicesTypeOK
<1> QED
  BY <1>1, ServicesAreComponents, QueueTyped, WindowTyped, AnalysisTyped, RadioIsTyped,
     GatewayIsTyped, AccountsAreTyped, LinkIsTyped, CodecIsTyped, ExtensionsAreTyped,
     PlaylistsAreTyped, ViewIsCurrent, PTL

(* What the components promise, each by its own specification, holds of the services too. *)
THEOREM ServicesStaySafe ==
  ServicesSpec => /\ [](WindowOnScreen /\ NoStaleSpectrum /\ OneLiveRequest /\ OnlyRetiredMisanswer)
                  /\ [](PendingIsAnswerable /\ RuntimeFollowsTrust /\ StoresAgree /\ ProtocolKept)
                  /\ [](PlaylistsReadBack /\ LibraryShown)
                  /\ CurrentSurvives /\ HandlesOneShot
  BY ServicesAreComponents, WindowStaysOnScreen, SpectrumIsFresh, LoadingHasOneRequest,
     OnlyRetiredSupervisorsMisanswer, PendingAnswersCanCome, OnlyTrustedExtensionsRun,
     AccountStoresAgree, ProtocolIsKept, PlaylistsAreReadBack, ViewIsCurrent,
     RemovalKeepsCurrent, HandlesDiscloseOnce, PTL
=============================================================================
