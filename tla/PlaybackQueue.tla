--------------------------- MODULE PlaybackQueue ---------------------------
(***************************************************************************)
(* PlaybackQueue (src/src/domain): the play order, the entry that plays and    *)
(* the repeat mode.  An entry is one enqueued copy of a track, so that a queue *)
(* holds an entry once although a track may be in it several times.          *)
(***************************************************************************)
EXTENDS Naturals, Sequences, SequencesExt

CONSTANTS Entries, MaxQueued    \* bound: the length of the queue

ASSUME QueueAssumption == MaxQueued \in Nat

VARIABLES
  queued,         \* m_tracks
  currentIndex,   \* m_currentIndex from 1, or 0 for nullopt
  repeatMode      \* m_repeatMode

queueVars == <<queued, currentIndex, repeatMode>>
RepeatModes == {"off", "one", "all"}

QueueInit == queued = <<>> /\ currentIndex = 0 /\ repeatMode = "off"

Enqueue(e) ==
  /\ Len(queued) < MaxQueued
  /\ e \notin Range(queued)
  /\ queued' = Append(queued, e)
  /\ currentIndex' = IF currentIndex = 0 THEN 1 ELSE currentIndex
  /\ UNCHANGED repeatMode

(* Where the current index ends when entry i leaves a queue of n: it follows   *)
(* its entry, and of the current entry the successor or the new last takes over. *)
IndexAfterRemovalUnshifted(n, i, c) ==                \* mutant of IndexAfterRemoval
  IF n = 1 THEN 0 ELSE IF c > n - 1 THEN n - 1 ELSE c

IndexAfterRemoval(n, i, c) ==
  CASE n = 1 -> 0
    [] n > 1 /\ c > i -> c - 1
    [] n > 1 /\ c = i /\ c > n - 1 -> n - 1
    [] OTHER -> c

RemoveEntry(i) ==
  /\ i \in 1..Len(queued)
  /\ queued' = RemoveAt(queued, i)
  /\ currentIndex' = IndexAfterRemoval(Len(queued), i, currentIndex)
  /\ UNCHANGED repeatMode

SelectEntry(i) ==
  /\ i \in 1..Len(queued)
  /\ currentIndex' = i
  /\ UNCHANGED <<queued, repeatMode>>

(* next() and previous() as functions of length, index and mode; at an end     *)
(* without repetition they return no track and leave the index alone.        *)
NextIndexBeyond(n, c, mode) ==                        \* mutant of NextIndex
  CASE c = 0 \/ mode = "one" -> c
    [] c # 0 /\ mode # "one" /\ c <= n -> c + 1
    [] OTHER -> c

NextIndex(n, c, mode) ==
  CASE c = 0 \/ mode = "one" -> c
    [] c # 0 /\ mode # "one" /\ c < n -> c + 1
    [] c # 0 /\ mode = "all" /\ c = n -> 1
    [] OTHER -> c

PreviousIndex(n, c, mode) ==
  CASE c = 0 \/ mode = "one" -> c
    [] c # 0 /\ mode # "one" /\ c > 1 -> c - 1
    [] mode = "all" /\ c = 1 -> n
    [] OTHER -> c

Skip(to) == currentIndex' = to /\ UNCHANGED <<queued, repeatMode>>
SkipNext == Skip(NextIndex(Len(queued), currentIndex, repeatMode))
SkipPrevious == Skip(PreviousIndex(Len(queued), currentIndex, repeatMode))

ClearQueue == queued' = <<>> /\ currentIndex' = 0 /\ UNCHANGED repeatMode

SetRepeatMode == repeatMode' \in RepeatModes /\ UNCHANGED <<queued, currentIndex>>

QueueNext ==
  \/ \E e \in Entries : Enqueue(e)
  \/ \E i \in 1..Len(queued) : RemoveEntry(i)
  \/ \E i \in 1..Len(queued) : SelectEntry(i)
  \/ SkipNext
  \/ SkipPrevious
  \/ ClearQueue
  \/ SetRepeatMode

QueueSpec == QueueInit /\ [][QueueNext]_queueVars

-----------------------------------------------------------------------------
(* The index names an entry exactly while there is one, so that current()      *)
(* never reads past the end of m_tracks.                                    *)
QueueTypeOK ==
  /\ queued \in Seq(Entries)
  /\ currentIndex \in 0..Len(queued)
  /\ (currentIndex = 0) <=> (queued = <<>>)
  /\ repeatMode \in RepeatModes

(* A removal never changes what plays while another entry is removed; when the *)
(* playing entry itself is removed its successor plays, or the last entry left. *)
(* This is about remove(), which shifts every entry behind the removed one.  *)
CurrentSurvives ==
  [][\A i \in 1..Len(queued) :
       RemoveEntry(i) /\ queued' # <<>> =>
         queued'[currentIndex'] =
           IF i # currentIndex THEN queued[currentIndex]
           ELSE IF i < Len(queued) THEN queued[i + 1] ELSE queued[i - 1]]_queueVars

=============================================================================
