-------------------------- MODULE PlayerController --------------------------
(***************************************************************************)
(* PlayerController (src/app) with its MiniaudioOutput: the GUI thread's     *)
(* handlers, the decode jobs they start and retire, and the callbacks those   *)
(* jobs post to the GUI thread's event queue.                               *)
(*                                                                         *)
(* A job is one call of startStream(): its decoder thread and its PcmStream. *)
(* The generation counter is only ever compared for equality, so `current'    *)
(* stands for it: the job m_generation names, or None once the counter has    *)
(* been bumped past every job.  What happens inside a decode is StreamDecoder; *)
(* here a job writes, finishes and returns, and what its stream buffers is     *)
(* one of three levels.                                                     *)
(***************************************************************************)
EXTENDS Naturals, Sequences, PlaybackState

CONSTANTS
  Jobs,             \* identities of decode jobs; one is reused when no trace of it is left
  Files,            \* local files
  Tracks,           \* finite network streams
  Stations,         \* live network streams
  None,
  MaxPlaylistLoads, \* bound: radio playlists being loaded at the same time
  MaxMetadata       \* bound: metadata callbacks of a job queued at the same time

Sources == Files \cup Tracks \cup Stations

ASSUME NoneAssumption == None \notin Jobs \cup Sources
ASSUME KindsAssumption ==
  Files \cap Tracks = {} /\ Files \cap Stations = {} /\ Tracks \cap Stations = {}
ASSUME BoundsAssumption == MaxPlaylistLoads \in Nat /\ MaxMetadata \in Nat

(* Levels of bufferedMilliseconds(): nothing, less than 250 ms, 250 ms or more. *)
Enough == 2

VARIABLES
  state,              \* m_stateMachine
  rejected,           \* transitions it has rejected since startStream() (history)
  source,             \* m_sourcePath or m_sourceUrl, whose kind gives the two flags
  current,            \* the job of m_generation
  thread,             \* the job of m_decodeThread, None when it is not joinable
  stream,             \* the job of m_stream, which is the one m_output plays
  durationKnown,      \* m_durationMilliseconds > 0
  nowPlaying,         \* the source the now-playing metadata came from
  reconnectScheduled, \* m_reconnectScheduled, and m_reconnectTimer is active
  playlistLoads,      \* replies the playlist loader waits for
  shuttingDown,       \* m_shuttingDown
  initialized,        \* the audio device is initialised
  started,            \* the audio device is started
  playing,            \* the stream's m_playing
  hasAudio, buffered, endOfStream, hasDuration,   \* the stream's
  underrun,           \* its underrun count differs from m_lastUnderrunCount
  events,             \* callbacks posted to the GUI thread
  phase,              \* where each job's decoder is
  readySent,          \* jobs that have posted their ready callback
  stopRequested,      \* jobs whose stop source is triggered
  mode, jobSource     \* what each job was started with

outputVars == <<initialized, started, playing>>
contentVars == <<hasAudio, buffered, endOfStream, hasDuration, underrun>>
jobVars == <<phase, readySent, stopRequested, mode, jobSource>>
vars == <<state, rejected, source, current, thread, stream, durationKnown, nowPlaying,
          reconnectScheduled, playlistLoads, shuttingDown, outputVars, contentVars,
          events, jobVars>>

Live == source \in Stations

Init ==
  /\ state = "Empty" /\ rejected = {}
  /\ source = None
  /\ current = None /\ thread = None /\ stream = None
  /\ durationKnown = FALSE
  /\ nowPlaying = None
  /\ reconnectScheduled = FALSE
  /\ playlistLoads = 0
  /\ shuttingDown = FALSE
  /\ initialized = FALSE /\ started = FALSE /\ playing = FALSE
  /\ hasAudio = FALSE /\ buffered = 0 /\ endOfStream = FALSE
  /\ hasDuration = FALSE /\ underrun = FALSE
  /\ events = <<>>
  /\ phase = [j \in Jobs |-> "none"]
  /\ readySent = {} /\ stopRequested = {}
  /\ mode = [j \in Jobs |-> "Ready"]
  /\ jobSource = [j \in Jobs |-> None]

-----------------------------------------------------------------------------
(* Parts of the handlers. *)

EmptyContent ==
  /\ hasAudio' = FALSE /\ buffered' = 0 /\ endOfStream' = FALSE
  /\ hasDuration' = FALSE /\ underrun' = FALSE

(* MiniaudioOutput::pause(). *)
PauseOutput == started' = FALSE /\ playing' = FALSE

(* cancelDecode(): bump the generation, stop the thread and retire it. *)
BumpedNever == current                                \* mutant of Bumped
Bumped == IF thread = None THEN current ELSE None
StoppedNever == stopRequested                         \* mutant of Stopped
Stopped ==
  stopRequested \cup {j \in Jobs : j = thread /\ phase[j] \in {"decoding", "drained"}}

(* m_output.clear(); cancelDecode(); m_stream.reset(). *)
DropStream ==
  /\ PauseOutput /\ UNCHANGED initialized
  /\ current' = Bumped
  /\ stopRequested' = Stopped
  /\ thread' = None
  /\ stream' = None
  /\ EmptyContent
  /\ UNCHANGED <<phase, readySent, mode, jobSource>>

(* setState(): `from' is the state an earlier setState() of the handler left. *)
SetStateFrom(from, to) ==
  /\ state' = Transition(from, to)
  /\ rejected' = rejected \cup Rejected(from, to)

SetState(to) == SetStateFrom(state, to)

(* The same in startStream(), where the history starts anew. *)
SetStateFresh(from, to) ==
  /\ state' = Transition(from, to)
  /\ rejected' = Rejected(from, to)

(* setError(); the reconnect timer is left running. *)
SetErrorFrom(from) == DropStream /\ SetStateFrom(from, "Error")

(* No thread, callback or handler knows the job any more. *)
Fresh(j) ==
  /\ phase[j] \in {"none", "done"}
  /\ j \notin {current, thread, stream}
  /\ \A i \in DOMAIN events : events[i].job # j

(* A fresh job decodes into the stream the output is attached to. *)
Opens(j, src, startMode) ==
  /\ current' = j /\ thread' = j /\ stream' = j
  /\ phase' = [phase EXCEPT ![j] = "decoding"]
  /\ readySent' = readySent \ {j}
  /\ stopRequested' = Stopped \ {j}
  /\ mode' = [mode EXCEPT ![j] = startMode]
  /\ jobSource' = [jobSource EXCEPT ![j] = src]
  /\ initialized' = TRUE
  /\ SetStateFresh(state, "Loading")

(* Attaching fails when the audio device cannot be initialised. *)
AttachFails ==
  /\ ~initialized
  /\ current' = None /\ thread' = None /\ stream' = None
  /\ stopRequested' = Stopped
  /\ SetStateFresh(Transition(state, "Loading"), "Error")
  /\ UNCHANGED <<phase, readySent, mode, jobSource, initialized>>

(* startStream(): replace the stream and its decoder by a new job. *)
StartStream(src, startMode) ==
  /\ source' = src
  /\ durationKnown' = FALSE
  /\ PauseOutput
  /\ EmptyContent
  /\ AttachFails \/ \E j \in {k \in Jobs : Fresh(k)} : Opens(j, src, startMode)

(* Its resetPresentation argument. *)
ResetPresentation == reconnectScheduled' = FALSE /\ nowPlaying' = None
KeepPresentation == UNCHANGED <<reconnectScheduled, nowPlaying>>

(* play() once a stream has audio: MiniaudioOutput::play(), which starts the  *)
(* device even for a stream that is finished, and may fail to.               *)
StreamFinished == stream # None /\ endOfStream /\ buffered = 0

PlayFrom(from) ==
  \/ /\ started' = TRUE
     /\ playing' = (playing \/ ~StreamFinished)
     /\ SetStateFrom(from, "Playing")
     /\ UNCHANGED <<initialized, current, thread, stream, contentVars, jobVars>>
  \/ SetErrorFrom(from)

ScheduleWithoutPause ==                               \* mutant of ScheduleReconnect
  IF reconnectScheduled
  THEN UNCHANGED <<reconnectScheduled, state, rejected, started, playing>>
  ELSE /\ UNCHANGED <<started, playing>>
       /\ SetState(IF state = "Finished" THEN state ELSE "Buffering")
       /\ reconnectScheduled' = TRUE

(* scheduleReconnect(). *)
ScheduleReconnect ==
  IF reconnectScheduled
  THEN UNCHANGED <<reconnectScheduled, state, rejected, started, playing>>
  ELSE /\ PauseOutput
       /\ SetState(IF state = "Finished" THEN state ELSE "Buffering")
       /\ reconnectScheduled' = TRUE

JobsUnaffected == UNCHANGED <<current, thread, stream, contentVars, jobVars>>

-----------------------------------------------------------------------------
(* What the user calls, until the window closes. *)

(* A URL that cannot be opened is an error; the source stays what it was. *)
Refuse == SetErrorFrom(state) /\ UNCHANGED <<source, durationKnown>> /\ KeepPresentation

OpenFile ==
  /\ \/ \E f \in Files : StartStream(f, "Ready") /\ ResetPresentation
     \/ Refuse
  /\ UNCHANGED <<events, playlistLoads, shuttingDown>>

OpenStream ==
  /\ \/ \E s \in Tracks \cup Stations : StartStream(s, "AutoPlay") /\ ResetPresentation
     \/ Refuse
  /\ UNCHANGED <<events, playlistLoads, shuttingDown>>

OpenRadioPlaylist ==
  /\ playlistLoads < MaxPlaylistLoads
  /\ playlistLoads' = playlistLoads + 1
  /\ UNCHANGED <<state, rejected, source, durationKnown, nowPlaying, reconnectScheduled,
                 shuttingDown, outputVars, events>>
  /\ JobsUnaffected

(* Replaying a finished or stopped source opens it again. *)
Reopens == state = "Finished" \/ (state = "Stopped" /\ ~hasAudio /\ source # None)

Play ==
  /\ \/ Reopens /\ StartStream(source, "AutoPlay")
     \/ ~Reopens /\ hasAudio /\ PlayFrom(state) /\ UNCHANGED <<source, durationKnown>>
  /\ KeepPresentation
  /\ UNCHANGED <<events, playlistLoads, shuttingDown>>

Pause ==
  /\ state \in {"Playing", "Buffering"}
  /\ PauseOutput
  /\ SetState("Paused")
  /\ UNCHANGED <<source, durationKnown, initialized, events, playlistLoads, shuttingDown>>
  /\ KeepPresentation /\ JobsUnaffected

Stop ==
  /\ source # None
  /\ reconnectScheduled' = FALSE
  /\ DropStream
  /\ durationKnown' = FALSE
  /\ SetState("Stopped")
  /\ UNCHANGED <<source, nowPlaying, events, playlistLoads, shuttingDown>>

SeekMode ==
  CASE state \in {"Playing", "Buffering"} -> "AutoPlay"
    [] state = "Paused" -> "Paused"
    [] OTHER -> "Ready"

Seek ==
  /\ source \in Files /\ durationKnown
  /\ StartStream(source, SeekMode)
  /\ KeepPresentation
  /\ UNCHANGED <<events, playlistLoads, shuttingDown>>

(* The window closes.  Events already posted and replies still arrive. *)
Shutdown ==
  /\ shuttingDown' = TRUE
  /\ reconnectScheduled' = FALSE
  /\ DropStream
  /\ UNCHANGED <<state, rejected, source, durationKnown, nowPlaying, playlistLoads, events>>

UserCalls ==
  /\ ~shuttingDown
  /\ \/ OpenFile \/ OpenStream \/ OpenRadioPlaylist
     \/ Play \/ Pause \/ Stop \/ Seek \/ Shutdown

-----------------------------------------------------------------------------
(* Replies and timers. *)

(* A playlist names a station, or is an error. *)
PlaylistLoaded ==
  /\ playlistLoads > 0
  /\ playlistLoads' = playlistLoads - 1
  /\ \/ \E s \in Stations : StartStream(s, "AutoPlay") /\ ResetPresentation
     \/ Refuse
  /\ UNCHANGED <<shuttingDown, events>>

ReconnectTimeout ==
  /\ reconnectScheduled
  /\ reconnectScheduled' = FALSE
  /\ StartStream(source, "AutoPlay")
  /\ UNCHANGED <<nowPlaying, events, playlistLoads, shuttingDown>>

(* updatePosition(), every 100 ms: the end of the stream, an underrun, or    *)
(* enough to go on after one.                                               *)
Ended == state \in {"Playing", "Buffering"} /\ StreamFinished
Underran == state = "Playing" /\ ~StreamFinished /\ underrun
MayResumeWhenEnough ==                                \* mutant of MayResume
  state = "Buffering" /\ ~StreamFinished /\ buffered = Enough
MayResume ==
  /\ state = "Buffering" /\ ~StreamFinished
  /\ buffered = Enough \/ (endOfStream /\ buffered > 0)

PollEndedOnly ==                                      \* mutant of PollEnded
  /\ Ended
  /\ PauseOutput
  /\ SetState("Finished")
  /\ UNCHANGED <<reconnectScheduled, initialized>> /\ JobsUnaffected

PollEnded ==
  /\ Ended
  /\ PauseOutput
  /\ SetState("Finished")
  /\ reconnectScheduled' = (reconnectScheduled \/ Live)
  /\ UNCHANGED initialized /\ JobsUnaffected

PollUnderrun ==
  /\ Underran
  /\ underrun' = FALSE
  /\ PauseOutput
  /\ SetState("Buffering")
  /\ UNCHANGED <<reconnectScheduled, initialized, current, thread, stream, hasAudio,
                 buffered, endOfStream, hasDuration, jobVars>>

PollResume ==
  /\ MayResume
  /\ PlayFrom(state)
  /\ UNCHANGED reconnectScheduled

PollProgress ==
  /\ ~Ended /\ ~Underran /\ ~MayResume
  /\ UNCHANGED <<state, rejected, reconnectScheduled, outputVars>> /\ JobsUnaffected

UpdatePosition ==
  /\ ~shuttingDown
  /\ durationKnown' = (durationKnown \/ hasDuration)
  /\ PollEnded \/ PollUnderrun \/ PollResume \/ PollProgress
  /\ UNCHANGED <<source, nowPlaying, playlistLoads, shuttingDown, events>>

-----------------------------------------------------------------------------
(* The callbacks a job posts, in the order they were posted. *)

Superseded(event) == event.job # current

(* The ready callback also compares the stream, the result only the         *)
(* generation.                                                              *)
Ignored(event) ==
  \/ Superseded(event)
  \/ event.kind \in {"ready", "metadata"} /\ event.job # stream
  \/ event.kind = "cancelled"

HandleReady(job) ==
  LET ready == Transition(state, "Ready")
  IN  /\ durationKnown' = hasDuration
      /\ \/ /\ mode[job] = "Ready" \/ (mode[job] = "AutoPlay" /\ ~hasAudio)
            /\ SetState("Ready")
            /\ UNCHANGED outputVars /\ JobsUnaffected
         \/ /\ mode[job] = "Paused"
            /\ SetStateFrom(ready, "Paused")
            /\ UNCHANGED outputVars /\ JobsUnaffected
         \/ /\ mode[job] = "AutoPlay" /\ hasAudio
            /\ PlayFrom(ready)
      /\ UNCHANGED <<nowPlaying, reconnectScheduled>>

HandleMetadata(job) ==
  /\ nowPlaying' = jobSource[job]
  /\ UNCHANGED <<state, rejected, durationKnown, reconnectScheduled, outputVars>>
  /\ JobsUnaffected

HandleError ==
  /\ \/ Live /\ ScheduleReconnect /\ UNCHANGED initialized /\ JobsUnaffected
     \/ ~Live /\ SetErrorFrom(state) /\ UNCHANGED reconnectScheduled
  /\ UNCHANGED <<durationKnown, nowPlaying>>

HandleSuccess ==
  /\ durationKnown' = hasDuration
  /\ UNCHANGED <<state, rejected, nowPlaying, reconnectScheduled, outputVars>>
  /\ JobsUnaffected

IgnoreEvent ==
  /\ UNCHANGED <<state, rejected, durationKnown, nowPlaying, reconnectScheduled, outputVars>>
  /\ JobsUnaffected

HandleEvent ==
  /\ events # <<>>
  /\ events' = Tail(events)
  /\ LET event == Head(events)
     IN  \/ Ignored(event) /\ IgnoreEvent
         \/ /\ ~Ignored(event)
            /\ \/ event.kind = "ready" /\ HandleReady(event.job)
               \/ event.kind = "metadata" /\ HandleMetadata(event.job)
               \/ event.kind = "error" /\ HandleError
               \/ event.kind = "success" /\ HandleSuccess
  /\ UNCHANGED <<source, playlistLoads, shuttingDown>>
-----------------------------------------------------------------------------
(* The decoder threads.  Of a retired job's stream nobody reads the content  *)
(* any more.                                                                *)

Post(job, kinds) == events' = events \o [i \in DOMAIN kinds |-> [kind |-> kinds[i], job |-> job]]
ReadyOnce(job) == IF job \in readySent THEN <<>> ELSE <<"ready">>

GuiUnaffected ==
  UNCHANGED <<state, rejected, source, current, thread, stream, durationKnown, nowPlaying,
              reconnectScheduled, playlistLoads, shuttingDown, outputVars>>
StartedWith == UNCHANGED <<stopRequested, mode, jobSource>>

DecoderConfigures(j) ==
  /\ phase[j] = "decoding" /\ stream = j /\ ~hasAudio
  /\ hasDuration' = TRUE
  /\ GuiUnaffected /\ StartedWith
  /\ UNCHANGED <<hasAudio, buffered, endOfStream, underrun, events, phase, readySent>>

DecoderWritesOver(j) ==                               \* mutant of DecoderWrites
  /\ phase[j] = "decoding" /\ stream = j /\ buffered <= Enough
  /\ hasAudio' = TRUE
  /\ buffered' = buffered + 1
  /\ IF buffered' = Enough
     THEN Post(j, ReadyOnce(j)) /\ readySent' = readySent \cup {j}
     ELSE UNCHANGED <<events, readySent>>
  /\ GuiUnaffected /\ StartedWith
  /\ UNCHANGED <<endOfStream, hasDuration, underrun, phase>>

(* writeSamples(); enough for the prebuffer is enough to be ready. *)
DecoderWrites(j) ==
  /\ phase[j] = "decoding" /\ stream = j /\ buffered < Enough
  /\ hasAudio' = TRUE
  /\ buffered' = buffered + 1
  /\ IF buffered' = Enough
     THEN Post(j, ReadyOnce(j)) /\ readySent' = readySent \cup {j}
     ELSE UNCHANGED <<events, readySent>>
  /\ GuiUnaffected /\ StartedWith
  /\ UNCHANGED <<endOfStream, hasDuration, underrun, phase>>

DecoderFinishesUnready(j) ==                          \* mutant of DecoderFinishes
  /\ phase[j] = "decoding"
  /\ stream = j => hasAudio
  /\ phase' = [phase EXCEPT ![j] = "drained"]
  /\ endOfStream' = (endOfStream \/ stream = j)
  /\ GuiUnaffected /\ StartedWith
  /\ UNCHANGED <<hasAudio, buffered, hasDuration, underrun, events, readySent>>

(* The input is exhausted: a short one is ready only now. *)
DecoderFinishes(j) ==
  /\ phase[j] = "decoding"
  /\ stream = j => hasAudio
  /\ phase' = [phase EXCEPT ![j] = "drained"]
  /\ Post(j, ReadyOnce(j)) /\ readySent' = readySent \cup {j}
  /\ endOfStream' = (endOfStream \/ stream = j)
  /\ GuiUnaffected /\ StartedWith
  /\ UNCHANGED <<hasAudio, buffered, hasDuration, underrun>>

DecoderMetadata(j) ==
  /\ phase[j] = "decoding" /\ jobSource[j] \notin Files
  /\ Len(SelectSeq(events, LAMBDA e : e = [kind |-> "metadata", job |-> j])) < MaxMetadata
  /\ Post(j, <<"metadata">>)
  /\ GuiUnaffected /\ UNCHANGED <<contentVars, jobVars>>

(* The thread's function posts the outcome of the decode last; what the     *)
(* thread knew is forgotten.                                                *)
DecoderReturns(j) ==
  /\ \/ phase[j] = "decoding" /\ Post(j, <<"error">>)
     \/ phase[j] = "decoding" /\ j \in stopRequested /\ Post(j, <<"cancelled">>)
     \/ phase[j] = "drained" /\ Post(j, <<"success">>)
  /\ phase' = [phase EXCEPT ![j] = "done"]
  /\ readySent' = readySent \ {j} /\ stopRequested' = stopRequested \ {j}
  /\ GuiUnaffected /\ UNCHANGED <<contentVars, mode, jobSource>>

(* The device callback. *)
Render ==
  /\ started /\ playing
  /\ \/ /\ buffered > 0
        /\ buffered' = buffered - 1
        /\ UNCHANGED underrun
     \/ /\ buffered = 0 /\ ~endOfStream
        /\ underrun' = TRUE
        /\ UNCHANGED buffered
  /\ GuiUnaffected /\ UNCHANGED <<hasAudio, endOfStream, hasDuration, events, jobVars>>

Decode(j) == DecoderWrites(j) \/ DecoderFinishes(j) \/ DecoderReturns(j)

Next ==
  \/ UserCalls
  \/ PlaylistLoaded \/ ReconnectTimeout \/ UpdatePosition \/ HandleEvent
  \/ \E j \in Jobs : DecoderConfigures(j) \/ Decode(j) \/ DecoderMetadata(j)
  \/ Render

(* Timers and replies fire and posted callbacks are delivered while the event *)
(* loop runs.  A decoder thread goes on writing, or ends: the I/O deadline    *)
(* sees to the latter.  Nothing obliges the user, or the device.            *)
Fairness ==
  /\ WF_vars(ReconnectTimeout)
  /\ WF_vars(UpdatePosition)
  /\ WF_vars(HandleEvent)
  /\ \A j \in Jobs : WF_vars(Decode(j))

Spec == Init /\ [][Next]_vars /\ Fairness

-----------------------------------------------------------------------------
OptionalJob == Jobs \cup {None}

TypeOK ==
  /\ state \in PlaybackStates
  /\ rejected \subseteq PlaybackStates \X PlaybackStates
  /\ source \in Sources \cup {None} /\ nowPlaying \in Sources \cup {None}
  /\ current \in OptionalJob /\ thread \in OptionalJob /\ stream \in OptionalJob
  /\ {durationKnown, reconnectScheduled, shuttingDown, initialized, started, playing,
      hasAudio, endOfStream, hasDuration, underrun} \subseteq BOOLEAN
  /\ playlistLoads \in 0 .. MaxPlaylistLoads
  /\ buffered \in 0 .. Enough
  /\ events \in Seq([kind : {"ready", "metadata", "error", "success", "cancelled"},
                     job : Jobs])
  /\ phase \in [Jobs -> {"none", "decoding", "drained", "done"}]
  /\ readySent \subseteq Jobs /\ stopRequested \subseteq Jobs
  /\ mode \in [Jobs -> {"Ready", "Paused", "AutoPlay"}]
  /\ jobSource \in [Jobs -> Sources \cup {None}]

(* The metadata on display came from the source that is open, however late   *)
(* the previous source's callbacks arrive.                                  *)
MetadataOfSource == nowPlaying \in {None, source}

(* The generation is enough to recognise a callback of the stream in use:    *)
(* whatever drops or replaces the stream also bumps it, so the result        *)
(* callback, which does not compare the stream, still never acts for another *)
(* job (PlayerController.cpp:277-282, 345-347, 468-480), and what is shown is *)
(* the open source's.                                                     *)
GenerationNamesStream ==
  /\ MetadataOfSource
  /\ current = stream /\ thread = stream
  /\ \A i \in DOMAIN events : events[i].job = current => events[i].job = stream

(* A decoder thread that is not the player's own has been asked to stop: a   *)
(* second decoder never runs on unnoticed behind the one that is heard.      *)
NoOrphanDecoder ==
  \A j \in Jobs : phase[j] \in {"decoding", "drained"} /\ j # thread => j \in stopRequested

(* Which transitions the state machine ever refuses the player: playing      *)
(* while it still loads, buffering again while it is paused, and an error     *)
(* after the end of the stream.  Every other setState() succeeds; the ready    *)
(* callback, however late, always finds a player that may become Ready.       *)
OnlyKnownRejections ==
  rejected \subseteq {<<"Loading", "Playing">>, <<"Paused", "Buffering">>,
                     <<"Finished", "Error">>}

(* Only a live station is ever opened again by the reconnect timer           *)
(* (tests/PlayerControllerTests.cpp:78).                                    *)
OnlyLiveReconnects == reconnectScheduled => Live

(* The state agrees with the audio output.  Sound outside Playing is heard   *)
(* only after play() came before the ready callback, which starts the device  *)
(* although the transition to Playing is refused.  Besides the refusals above *)
(* no transition fails, and only a live station is opened again.             *)
StateMatchesOutput ==
  /\ OnlyKnownRejections /\ OnlyLiveReconnects
  /\ state \in {"Loading", "Ready", "Playing", "Buffering", "Paused"} /\ ~shuttingDown =>
       stream # None
  /\ state = "Playing" /\ ~shuttingDown => started /\ (playing \/ StreamFinished)
  /\ started /\ state # "Playing" =>
       state \in {"Loading", "Ready", "Paused"} /\ <<"Loading", "Playing">> \in rejected

(* Loading does not last: the stream becomes ready, fails, or is replaced,   *)
(* unless play() came early: a device that drains the stream as fast as it   *)
(* is decoded keeps the prebuffer, and so the ready callback, away for ever.  *)
LoadingSettles ==
  \A j \in Jobs :
    state = "Loading" /\ stream = j ~>
      state # "Loading" \/ stream # j \/ started \/ shuttingDown

(* Neither does buffering: it ends in playing, in the end of the stream, in   *)
(* an error, or in a reconnect.                                             *)
BufferingSettles ==
  \A j \in Jobs :
    state = "Buffering" /\ stream = j ~> state # "Buffering" \/ stream # j \/ shuttingDown

(* A live station whose response ended is opened again.                      *)
LiveReopens == state = "Finished" /\ Live ~> state # "Finished" \/ ~Live \/ shuttingDown

(* "Stops real-time output and requests cancellation of background work"     *)
(* (PlayerController.hpp:86): after shutdown() the device stays stopped and   *)
(* no decoder runs that has not been asked to stop.                         *)
ShutdownIsFinal ==
  shuttingDown =>
    /\ ~started
    /\ \A j \in Jobs : phase[j] \in {"decoding", "drained"} => j \in stopRequested
=============================================================================
