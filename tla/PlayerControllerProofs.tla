----------------------- MODULE PlayerControllerProofs -----------------------
(***************************************************************************)
(* What the player shows is what the output does, its generation names its    *)
(* stream, and no decoder of its is forgotten, for any number of decode jobs,  *)
(* files, tracks and stations.                                              *)
(***************************************************************************)
EXTENDS PlayerController, SequenceTheorems, TLAPS

USE NoneAssumption, KindsAssumption

-----------------------------------------------------------------------------
(* Types. *)

Callbacks == [kind : {"ready", "metadata", "error", "success", "cancelled"}, job : Jobs]

(* TypeOK by parts: the variables startStream(), setError() and the other resets assign. *)
StreamTyped ==
  /\ state \in PlaybackStates
  /\ rejected \subseteq PlaybackStates \X PlaybackStates
  /\ current \in OptionalJob /\ thread \in OptionalJob /\ stream \in OptionalJob
  /\ initialized \in BOOLEAN /\ started \in BOOLEAN /\ playing \in BOOLEAN
  /\ hasAudio \in BOOLEAN /\ endOfStream \in BOOLEAN
  /\ hasDuration \in BOOLEAN /\ underrun \in BOOLEAN
  /\ buffered \in 0 .. Enough
  /\ phase \in [Jobs -> {"none", "decoding", "drained", "done"}]
  /\ readySent \subseteq Jobs /\ stopRequested \subseteq Jobs
  /\ mode \in [Jobs -> {"Ready", "Paused", "AutoPlay"}]
  /\ jobSource \in [Jobs -> Sources \cup {None}]

(* The others. *)
RestTyped ==
  /\ source \in Sources \cup {None} /\ nowPlaying \in Sources \cup {None}
  /\ durationKnown \in BOOLEAN /\ reconnectScheduled \in BOOLEAN
  /\ shuttingDown \in BOOLEAN

QueuesTyped ==
  /\ playlistLoads \in 0 .. MaxPlaylistLoads
  /\ events \in Seq(Callbacks)

Typed == StreamTyped /\ RestTyped /\ QueuesTyped

(* The parts are the type invariant. *)
LEMMA TypedIsTypeOK == TypeOK <=> Typed
  BY DEF TypeOK, Typed, StreamTyped, RestTyped, QueuesTyped, Callbacks

(* Which transitions the table allows, as far as the player relies on it. *)
LEMMA TransitionTable ==
  /\ \A s \in PlaybackStates : CanTransition(s, "Loading")
  /\ \A s \in PlaybackStates \ {"Finished"} : CanTransition(s, "Error")
  /\ \A s \in {"Ready", "Playing", "Buffering", "Paused", "Stopped", "Finished"} :
       CanTransition(s, "Playing")
  /\ \A s \in PlaybackStates \ {"Empty"} : CanTransition(s, "Stopped")
  /\ \A s \in {"Loading", "Ready"} : CanTransition(s, "Ready")
  /\ \A s \in {"Ready", "Playing", "Buffering", "Paused"} : CanTransition(s, "Paused")
  /\ \A s \in {"Loading", "Ready", "Playing", "Buffering"} : CanTransition(s, "Buffering")
  /\ \A s \in {"Playing", "Buffering", "Finished"} : CanTransition(s, "Finished")
  /\ ~CanTransition("Loading", "Playing")
  BY DEF PlaybackStates, CanTransition, Successors

(* A transition of the state machine ends in a state and records only pairs of states. *)
LEMMA TransitionTyped ==
  ASSUME NEW s \in PlaybackStates, NEW t \in PlaybackStates
  PROVE  /\ Transition(s, t) \in PlaybackStates
         /\ Rejected(s, t) \subseteq PlaybackStates \X PlaybackStates
  BY DEF Transition, Rejected

(* Posting appends what there is to post. *)
LEMMA PostOne ==
  ASSUME NEW j, NEW k, Post(j, <<k>>)
  PROVE  events' = events \o <<[kind |-> k, job |-> j]>>
  BY DEF Post

(* Posting nothing leaves the queued callbacks as they are. *)
LEMMA PostNone ==
  ASSUME NEW j, Post(j, <<>>), events \in Seq(Callbacks)
  PROVE  events' = events
<1>1. [i \in DOMAIN <<>> |-> [kind |-> <<>>[i], job |-> j]] = <<>>
  OBVIOUS
<1> QED
  BY <1>1 DEF Post

-----------------------------------------------------------------------------
(* Every step keeps the types, and first the parts of the handlers do. *)

(* What stopping the output and dropping a stream leave is typed. *)
LEMMA StoppedTyped ==
  ASSUME StreamTyped
  PROVE  Stopped \subseteq Jobs
  BY DEF StreamTyped, Stopped

(* What stopping the output and dropping a stream leave is typed. *)
LEMMA DropTyped ==
  ASSUME StreamTyped, DropStream, state' \in PlaybackStates,
         rejected' \subseteq PlaybackStates \X PlaybackStates
  PROVE  StreamTyped'
<1>1. stopRequested' \subseteq Jobs
  BY StoppedTyped DEF StreamTyped, DropStream
<1>2. current' \in OptionalJob /\ thread' \in OptionalJob /\ stream' \in OptionalJob
  BY DEF StreamTyped, DropStream, Bumped, OptionalJob
<1>4. buffered' \in 0 .. Enough
  BY DEF DropStream, EmptyContent, Enough
<1>3. /\ initialized' \in BOOLEAN /\ started' \in BOOLEAN /\ playing' \in BOOLEAN
      /\ hasAudio' \in BOOLEAN /\ endOfStream' \in BOOLEAN
      /\ hasDuration' \in BOOLEAN /\ underrun' \in BOOLEAN
  BY DEF StreamTyped, DropStream, PauseOutput, EmptyContent
<1> QED
  BY <1>1, <1>2, <1>3, <1>4 DEF StreamTyped, DropStream

(* setError() keeps the types, *)
LEMMA ErrorTyped ==
  ASSUME StreamTyped, NEW from \in PlaybackStates, SetErrorFrom(from)
  PROVE  StreamTyped'
<1>1. "Error" \in PlaybackStates
  BY DEF PlaybackStates
<1>2. state' \in PlaybackStates /\ rejected' \subseteq PlaybackStates \X PlaybackStates
  BY <1>1, TransitionTyped DEF SetErrorFrom, SetStateFrom, StreamTyped
<1> QED
  BY <1>2, DropTyped DEF SetErrorFrom

(* and so do startStream(), *)
LEMMA StartTyped ==
  ASSUME StreamTyped, NEW src \in Sources \cup {None},
         NEW m \in {"Ready", "Paused", "AutoPlay"}, StartStream(src, m)
  PROVE  StreamTyped'
<1>1. {"Error", "Loading"} \subseteq PlaybackStates
  BY DEF PlaybackStates
<1>2. state' \in PlaybackStates /\ rejected' \subseteq PlaybackStates \X PlaybackStates
  BY <1>1, TransitionTyped DEF StartStream, StreamTyped, Opens, AttachFails, SetStateFresh
<1>6. buffered' \in 0 .. Enough
  BY DEF StartStream, EmptyContent, Enough
<1>3. /\ started' \in BOOLEAN /\ playing' \in BOOLEAN
      /\ hasAudio' \in BOOLEAN /\ endOfStream' \in BOOLEAN
      /\ hasDuration' \in BOOLEAN /\ underrun' \in BOOLEAN
  BY DEF StartStream, PauseOutput, EmptyContent
<1>4. CASE \E j \in {k \in Jobs : Fresh(k)} : Opens(j, src, m)
  <2>1. PICK j \in Jobs : Opens(j, src, m)
    BY <1>4
  <2>2. stopRequested' \subseteq Jobs
    BY <2>1, StoppedTyped DEF Opens
  <2>3. current' \in OptionalJob /\ thread' \in OptionalJob /\ stream' \in OptionalJob
    BY <2>1 DEF Opens, OptionalJob
  <2>4. /\ phase' \in [Jobs -> {"none", "decoding", "drained", "done"}]
        /\ mode' \in [Jobs -> {"Ready", "Paused", "AutoPlay"}]
        /\ jobSource' \in [Jobs -> Sources \cup {None}]
    BY <2>1 DEF Opens, StreamTyped
  <2>5. readySent' \subseteq Jobs /\ initialized' \in BOOLEAN
    BY <2>1 DEF Opens, StreamTyped
  <2> QED
    BY <1>2, <1>3, <1>6, <2>2, <2>3, <2>4, <2>5 DEF StreamTyped
<1>5. CASE AttachFails
  <2>1. stopRequested' \subseteq Jobs
    BY <1>5, StoppedTyped DEF AttachFails
  <2>2. current' \in OptionalJob /\ thread' \in OptionalJob /\ stream' \in OptionalJob
    BY <1>5 DEF AttachFails, OptionalJob
  <2> QED
    BY <1>2, <1>3, <1>5, <1>6, <2>1, <2>2 DEF StreamTyped, AttachFails
<1> QED
  BY <1>4, <1>5 DEF StartStream

(* play(), *)
LEMMA PlayTyped ==
  ASSUME StreamTyped, NEW from \in PlaybackStates, PlayFrom(from)
  PROVE  StreamTyped'
<1>1. CASE SetErrorFrom(from)
  BY <1>1, ErrorTyped
<1>2. CASE /\ started' = TRUE
           /\ playing' = (playing \/ ~StreamFinished)
           /\ SetStateFrom(from, "Playing")
           /\ UNCHANGED <<initialized, current, thread, stream, contentVars, jobVars>>
  <2>1. "Playing" \in PlaybackStates
    BY DEF PlaybackStates
  <2>2. state' \in PlaybackStates /\ rejected' \subseteq PlaybackStates \X PlaybackStates
    BY <1>2, <2>1, TransitionTyped DEF SetStateFrom, StreamTyped
  <2>3. started' \in BOOLEAN /\ playing' \in BOOLEAN
    BY <1>2 DEF StreamTyped
  <2> QED
    BY <1>2, <2>2, <2>3 DEF StreamTyped, contentVars, jobVars
<1> QED
  BY <1>1, <1>2 DEF PlayFrom

(* setState() outside the parts above. *)
LEMMA SetStateTyped ==
  ASSUME StreamTyped, NEW to \in PlaybackStates, SetState(to)
  PROVE  state' \in PlaybackStates /\ rejected' \subseteq PlaybackStates \X PlaybackStates
  BY TransitionTyped DEF SetState, SetStateFrom, StreamTyped

(* the other calls of the user, *)
LEMMA UserTyped ==
  ASSUME Typed, UserCalls
  PROVE  Typed'
<1>1. StreamTyped /\ RestTyped /\ QueuesTyped
  BY DEF Typed
<1>13. UNCHANGED <<events, playlistLoads>> => QueuesTyped'
  BY <1>1 DEF QueuesTyped
<1>2. \A t \in {"Playing", "Paused", "Stopped"} : t \in PlaybackStates
  BY DEF PlaybackStates
<1>3. state \in PlaybackStates
  BY <1>1 DEF StreamTyped
<1>4. CASE Refuse /\ UNCHANGED <<events, playlistLoads, shuttingDown>>
  <2>1. StreamTyped'
    BY <1>1, <1>3, <1>4, ErrorTyped DEF Refuse
  <2>2. RestTyped'
    BY <1>1, <1>4 DEF Refuse, RestTyped, KeepPresentation
  <2> QED
    BY <1>4, <1>13, <2>1, <2>2 DEF Typed
<1>5. CASE OpenFile
  <2>1. CASE \E f \in Files : StartStream(f, "Ready") /\ ResetPresentation
    <3>1. PICK f \in Files : StartStream(f, "Ready") /\ ResetPresentation
      BY <2>1
    <3>2. StreamTyped'
      BY <1>1, <3>1, StartTyped DEF Sources
    <3>3. RestTyped'
      BY <1>1, <1>5, <3>1 DEF OpenFile, StartStream, ResetPresentation, RestTyped, Sources
    <3> QED
      BY <1>5, <1>13, <3>2, <3>3 DEF OpenFile, Typed
  <2> QED
    BY <1>4, <1>5, <2>1 DEF OpenFile
<1>6. CASE OpenStream
  <2>1. CASE \E t \in Tracks \cup Stations : StartStream(t, "AutoPlay") /\ ResetPresentation
    <3>1. PICK t \in Tracks \cup Stations : StartStream(t, "AutoPlay") /\ ResetPresentation
      BY <2>1
    <3>2. StreamTyped'
      BY <1>1, <3>1, StartTyped DEF Sources
    <3>3. RestTyped'
      BY <1>1, <1>6, <3>1 DEF OpenStream, StartStream, ResetPresentation, RestTyped, Sources
    <3> QED
      BY <1>6, <1>13, <3>2, <3>3 DEF OpenStream, Typed
  <2> QED
    BY <1>4, <1>6, <2>1 DEF OpenStream
<1>7. CASE OpenRadioPlaylist
  <2>1. QueuesTyped'
    BY <1>1, <1>7, BoundsAssumption DEF OpenRadioPlaylist, QueuesTyped
  <2>2. StreamTyped'
    BY <1>1, <1>7 DEF OpenRadioPlaylist, StreamTyped, JobsUnaffected, outputVars, contentVars,
      jobVars
  <2>3. RestTyped'
    BY <1>1, <1>7 DEF OpenRadioPlaylist, RestTyped
  <2> QED
    BY <2>1, <2>2, <2>3 DEF Typed
<1>8. CASE Play
  <2>1. StreamTyped'
    BY <1>1, <1>3, <1>8, StartTyped, PlayTyped DEF Play, RestTyped
  <2>2. RestTyped'
    BY <1>1, <1>8 DEF Play, RestTyped, StartStream, KeepPresentation
  <2> QED
    BY <1>8, <1>13, <2>1, <2>2 DEF Play, Typed
<1>9. CASE Pause
  <2>1. state' \in PlaybackStates /\ rejected' \subseteq PlaybackStates \X PlaybackStates
    BY <1>1, <1>2, <1>9, SetStateTyped DEF Pause
  <2>2. StreamTyped'
    BY <1>1, <1>9, <2>1 DEF Pause, PauseOutput, StreamTyped, JobsUnaffected, contentVars, jobVars
  <2>3. RestTyped'
    BY <1>1, <1>9 DEF Pause, RestTyped, KeepPresentation
  <2> QED
    BY <1>9, <1>13, <2>2, <2>3 DEF Pause, Typed
<1>10. CASE Stop
  <2>1. state' \in PlaybackStates /\ rejected' \subseteq PlaybackStates \X PlaybackStates
    BY <1>1, <1>2, <1>10, SetStateTyped DEF Stop
  <2>2. StreamTyped'
    BY <1>1, <1>10, <2>1, DropTyped DEF Stop
  <2>3. RestTyped'
    BY <1>1, <1>10 DEF Stop, RestTyped
  <2> QED
    BY <1>10, <1>13, <2>2, <2>3 DEF Stop, Typed
<1>11. CASE Seek
  <2>1. SeekMode \in {"Ready", "Paused", "AutoPlay"}
    BY DEF SeekMode
  <2>2. StreamTyped'
    BY <1>1, <1>11, <2>1, StartTyped DEF Seek, RestTyped
  <2>3. RestTyped'
    BY <1>1, <1>11 DEF Seek, RestTyped, StartStream, KeepPresentation
  <2> QED
    BY <1>11, <1>13, <2>2, <2>3 DEF Seek, Typed
<1>12. CASE Shutdown
  <2>1. StreamTyped'
    BY <1>1, <1>12, DropTyped DEF Shutdown, StreamTyped
  <2>2. RestTyped'
    BY <1>1, <1>12 DEF Shutdown, RestTyped
  <2> QED
    BY <1>12, <1>13, <2>1, <2>2 DEF Shutdown, Typed
<1> QED
  BY <1>5, <1>6, <1>7, <1>8, <1>9, <1>10, <1>11, <1>12 DEF UserCalls

(* the answers of a playlist download and the reconnect timer, *)
LEMMA ReplyTyped ==
  ASSUME Typed, PlaylistLoaded \/ ReconnectTimeout
  PROVE  Typed'
<1>1. CASE PlaylistLoaded
  <2>1. QueuesTyped'
    BY <1>1, BoundsAssumption DEF PlaylistLoaded, Typed, QueuesTyped
  <2>2. CASE \E t \in Stations : StartStream(t, "AutoPlay") /\ ResetPresentation
    <3>1. PICK t \in Stations : StartStream(t, "AutoPlay") /\ ResetPresentation
      BY <2>2
    <3>2. StreamTyped'
      BY <3>1, StartTyped DEF Typed, Sources
    <3>3. RestTyped'
      BY <1>1, <3>1 DEF PlaylistLoaded, StartStream, ResetPresentation, RestTyped, Typed, Sources
    <3> QED
      BY <2>1, <3>2, <3>3 DEF Typed
  <2>3. CASE Refuse
    <3>1. StreamTyped'
      BY <2>3, ErrorTyped DEF Refuse, Typed, StreamTyped
    <3>2. RestTyped'
      BY <1>1, <2>3 DEF PlaylistLoaded, Refuse, RestTyped, Typed, KeepPresentation
    <3> QED
      BY <2>1, <3>1, <3>2 DEF Typed
  <2> QED
    BY <1>1, <2>2, <2>3 DEF PlaylistLoaded
<1>2. CASE ReconnectTimeout
  <2>1. StreamTyped'
    BY <1>2, StartTyped DEF ReconnectTimeout, Typed, RestTyped
  <2>2. RestTyped'
    BY <1>2 DEF ReconnectTimeout, StartStream, RestTyped, Typed
  <2>3. QueuesTyped'
    BY <1>2 DEF ReconnectTimeout, QueuesTyped, Typed
  <2> QED
    BY <2>1, <2>2, <2>3 DEF Typed
<1> QED
  BY <1>1, <1>2

(* the position timer, *)
LEMMA PollTyped ==
  ASSUME Typed, UpdatePosition
  PROVE  Typed'
<1>1. StreamTyped /\ RestTyped /\ QueuesTyped /\ state \in PlaybackStates
  BY DEF Typed, StreamTyped
<1>2. {"Finished", "Buffering"} \subseteq PlaybackStates
  BY DEF PlaybackStates
<1>3. QueuesTyped'
  BY <1>1 DEF UpdatePosition, QueuesTyped
<1>4. StreamTyped' /\ reconnectScheduled' \in BOOLEAN
  <2>1. CASE PollEnded
    <3>1. state' \in PlaybackStates /\ rejected' \subseteq PlaybackStates \X PlaybackStates
      BY <1>1, <1>2, <2>1, SetStateTyped DEF PollEnded
    <3>2. reconnectScheduled' \in BOOLEAN
      BY <1>1, <2>1 DEF PollEnded, RestTyped
    <3> QED
      BY <1>1, <2>1, <3>1, <3>2 DEF PollEnded, PauseOutput, StreamTyped, JobsUnaffected,
        contentVars, jobVars
  <2>2. CASE PollUnderrun
    <3>1. state' \in PlaybackStates /\ rejected' \subseteq PlaybackStates \X PlaybackStates
      BY <1>1, <1>2, <2>2, SetStateTyped DEF PollUnderrun
    <3>2. reconnectScheduled' \in BOOLEAN
      BY <1>1, <2>2 DEF PollUnderrun, RestTyped
    <3> QED
      BY <1>1, <2>2, <3>1, <3>2 DEF PollUnderrun, PauseOutput, StreamTyped, jobVars
  <2>3. CASE PollResume
    BY <1>1, <2>3, PlayTyped DEF PollResume, RestTyped
  <2>4. CASE PollProgress
    BY <1>1, <2>4 DEF PollProgress, StreamTyped, RestTyped, JobsUnaffected, outputVars,
      contentVars, jobVars
  <2> QED
    BY <2>1, <2>2, <2>3, <2>4 DEF UpdatePosition
<1>5. durationKnown' \in BOOLEAN
  BY <1>1 DEF UpdatePosition, RestTyped, StreamTyped
<1>6. RestTyped'
  BY <1>1, <1>4, <1>5 DEF UpdatePosition, RestTyped
<1> QED
  BY <1>3, <1>4, <1>6 DEF Typed

(* the callbacks the GUI thread handles, *)
LEMMA EventTyped ==
  ASSUME Typed, HandleEvent
  PROVE  Typed'
<1> DEFINE event == Head(events)
<1>1. StreamTyped /\ RestTyped /\ QueuesTyped /\ state \in PlaybackStates
  BY DEF Typed, StreamTyped
<1>2. {"Finished", "Buffering", "Ready", "Paused"} \subseteq PlaybackStates
  BY DEF PlaybackStates
<1>3. event \in Callbacks /\ QueuesTyped'
  BY <1>1 DEF HandleEvent, QueuesTyped
<1>4. event.job \in Jobs
  BY <1>3 DEF Callbacks
<1>5. StreamTyped' /\ nowPlaying' \in Sources \cup {None}
      /\ durationKnown' \in BOOLEAN /\ reconnectScheduled' \in BOOLEAN
  <2>1. CASE IgnoreEvent
    BY <1>1, <2>1 DEF IgnoreEvent, StreamTyped, RestTyped, JobsUnaffected, outputVars,
      contentVars, jobVars
  <2>2. CASE HandleReady(event.job)
    <3>1. durationKnown' \in BOOLEAN /\ reconnectScheduled' \in BOOLEAN
          /\ nowPlaying' \in Sources \cup {None}
      BY <1>1, <2>2 DEF HandleReady, RestTyped, StreamTyped
    <3>2. Transition(state, "Ready") \in PlaybackStates
      BY <1>1, <1>2, TransitionTyped
    <3>3. CASE PlayFrom(Transition(state, "Ready"))
      BY <1>1, <3>1, <3>2, <3>3, PlayTyped
    <3>4. CASE (SetState("Ready") \/ SetStateFrom(Transition(state, "Ready"), "Paused"))
               /\ UNCHANGED outputVars /\ JobsUnaffected
      <4>1. state' \in PlaybackStates /\ rejected' \subseteq PlaybackStates \X PlaybackStates
        BY <1>1, <1>2, <3>2, <3>4, SetStateTyped, TransitionTyped DEF SetStateFrom, StreamTyped
      <4> QED
        BY <1>1, <3>1, <3>4, <4>1 DEF StreamTyped, JobsUnaffected, outputVars, contentVars,
          jobVars
    <3> QED
      BY <2>2, <3>3, <3>4 DEF HandleReady
  <2>3. CASE HandleMetadata(event.job)
    <3>1. nowPlaying' \in Sources \cup {None}
      BY <1>1, <1>4, <2>3 DEF HandleMetadata, StreamTyped
    <3> QED
      BY <1>1, <2>3, <3>1 DEF HandleMetadata, StreamTyped, RestTyped, JobsUnaffected, outputVars,
        contentVars, jobVars
  <2>4. CASE HandleError
    <3>1. durationKnown' \in BOOLEAN /\ nowPlaying' \in Sources \cup {None}
      BY <1>1, <2>4 DEF HandleError, RestTyped
    <3>2. CASE SetErrorFrom(state) /\ UNCHANGED reconnectScheduled
      BY <1>1, <3>1, <3>2, ErrorTyped DEF RestTyped
    <3>3. CASE ScheduleReconnect /\ UNCHANGED initialized /\ JobsUnaffected
      <4>1. CASE reconnectScheduled
        BY <1>1, <3>1, <3>3, <4>1 DEF ScheduleReconnect, StreamTyped, RestTyped, JobsUnaffected,
          contentVars, jobVars
      <4>2. CASE ~reconnectScheduled
        <5>1. SetState(IF state = "Finished" THEN state ELSE "Buffering")
          BY <3>3, <4>2 DEF ScheduleReconnect
        <5>2. state' \in PlaybackStates /\ rejected' \subseteq PlaybackStates \X PlaybackStates
          BY <1>1, <1>2, <5>1, SetStateTyped
        <5> QED
          BY <1>1, <3>1, <3>3, <4>2, <5>2 DEF ScheduleReconnect, PauseOutput, StreamTyped,
            JobsUnaffected, contentVars, jobVars
      <4> QED
        BY <4>1, <4>2
    <3> QED
      BY <2>4, <3>2, <3>3 DEF HandleError
  <2>5. CASE HandleSuccess
    <3>1. durationKnown' \in BOOLEAN
      BY <1>1, <2>5 DEF HandleSuccess, StreamTyped
    <3> QED
      BY <1>1, <2>5, <3>1 DEF HandleSuccess, StreamTyped, RestTyped, JobsUnaffected, outputVars,
        contentVars, jobVars
  <2> QED
    BY <2>1, <2>2, <2>3, <2>4, <2>5 DEF HandleEvent
<1>6. RestTyped'
  BY <1>1, <1>5 DEF HandleEvent, RestTyped
<1> QED
  BY <1>3, <1>5, <1>6 DEF Typed

(* A posted callback is a callback. *)
LEMMA PostTyped ==
  ASSUME Typed, NEW j \in Jobs,
         NEW k \in {"ready", "metadata", "error", "success", "cancelled"},
         Post(j, <<k>>) \/ Post(j, <<>>)
  PROVE  events' \in Seq(Callbacks)
<1>1. events \in Seq(Callbacks) /\ [kind |-> k, job |-> j] \in Callbacks
  BY DEF Typed, QueuesTyped, Callbacks
<1>2. CASE Post(j, <<k>>)
  <2>1. events' = events \o <<[kind |-> k, job |-> j]>>
    BY <1>2, PostOne
  <2> QED
    BY <1>1, <2>1
<1>3. CASE Post(j, <<>>)
  BY <1>1, <1>3, PostNone
<1> QED
  BY <1>2, <1>3

(* the decoder threads *)
LEMMA DecoderTyped ==
  ASSUME Typed, NEW j \in Jobs, DecoderConfigures(j) \/ Decode(j) \/ DecoderMetadata(j)
  PROVE  Typed'
<1>1. StreamTyped /\ RestTyped /\ QueuesTyped
  BY DEF Typed
<1>2. GuiUnaffected => RestTyped'
  BY <1>1 DEF GuiUnaffected, RestTyped
<1>3. GuiUnaffected => UNCHANGED playlistLoads
  BY DEF GuiUnaffected
<1>4. events' \in Seq(Callbacks) /\ GuiUnaffected => QueuesTyped'
  BY <1>1, <1>3 DEF QueuesTyped
<1>5. CASE DecoderConfigures(j)
  <2>1. StreamTyped'
    BY <1>1, <1>5 DEF DecoderConfigures, GuiUnaffected, StartedWith, StreamTyped, outputVars
  <2> QED
    BY <1>1, <1>2, <1>4, <1>5, <2>1 DEF DecoderConfigures, QueuesTyped, Typed
<1>6. CASE DecoderWrites(j)
  <2>1. buffered' \in 0 .. Enough
    BY <1>1, <1>6 DEF DecoderWrites, StreamTyped, Enough
  <2>2. readySent' \subseteq Jobs
    BY <1>1, <1>6 DEF DecoderWrites, StreamTyped
  <2>3. hasAudio' \in BOOLEAN /\ endOfStream' \in BOOLEAN
        /\ hasDuration' \in BOOLEAN /\ underrun' \in BOOLEAN
    BY <1>1, <1>6 DEF DecoderWrites, StreamTyped
  <2>4. StreamTyped'
    BY <1>1, <1>6, <2>1, <2>2, <2>3 DEF DecoderWrites, GuiUnaffected, StartedWith, StreamTyped,
      outputVars
  <2>5. events' \in Seq(Callbacks)
    BY <1>1, <1>6, PostTyped DEF DecoderWrites, ReadyOnce, QueuesTyped
  <2> QED
    BY <1>2, <1>4, <1>6, <2>4, <2>5 DEF DecoderWrites, Typed
<1>7. CASE DecoderFinishes(j)
  <2>1. readySent' \subseteq Jobs /\ phase' \in [Jobs -> {"none", "decoding", "drained", "done"}]
    BY <1>1, <1>7 DEF DecoderFinishes, StreamTyped
  <2>2. hasAudio' \in BOOLEAN /\ endOfStream' \in BOOLEAN
        /\ hasDuration' \in BOOLEAN /\ underrun' \in BOOLEAN
    BY <1>1, <1>7 DEF DecoderFinishes, StreamTyped
  <2>3. buffered' \in 0 .. Enough
    BY <1>1, <1>7 DEF DecoderFinishes, StreamTyped
  <2>4. StreamTyped'
    BY <1>1, <1>7, <2>1, <2>2, <2>3 DEF DecoderFinishes, GuiUnaffected, StartedWith, StreamTyped,
      outputVars
  <2>5. events' \in Seq(Callbacks)
    BY <1>1, <1>7, PostTyped DEF DecoderFinishes, ReadyOnce
  <2> QED
    BY <1>2, <1>4, <1>7, <2>4, <2>5 DEF DecoderFinishes, Typed
<1>8. CASE DecoderReturns(j)
  <2>1. readySent' \subseteq Jobs /\ stopRequested' \subseteq Jobs
        /\ phase' \in [Jobs -> {"none", "decoding", "drained", "done"}]
    BY <1>1, <1>8 DEF DecoderReturns, StreamTyped
  <2>2. StreamTyped'
    BY <1>1, <1>8, <2>1 DEF DecoderReturns, GuiUnaffected, StreamTyped, outputVars, contentVars
  <2>3. events' \in Seq(Callbacks)
    BY <1>1, <1>8, PostTyped DEF DecoderReturns
  <2> QED
    BY <1>2, <1>4, <1>8, <2>2, <2>3 DEF DecoderReturns, Typed
<1>9. CASE DecoderMetadata(j)
  <2>1. StreamTyped'
    BY <1>1, <1>9 DEF DecoderMetadata, GuiUnaffected, StreamTyped, outputVars, contentVars,
      jobVars
  <2>2. events' \in Seq(Callbacks)
    BY <1>1, <1>9, PostTyped DEF DecoderMetadata
  <2> QED
    BY <1>2, <1>4, <1>9, <2>1, <2>2 DEF DecoderMetadata, Typed
<1> QED
  BY <1>5, <1>6, <1>7, <1>8, <1>9 DEF Decode

(* and the device. *)
LEMMA RenderTyped ==
  ASSUME Typed, Render
  PROVE  Typed'
<1>1. StreamTyped /\ RestTyped /\ QueuesTyped
  BY DEF Typed
<1>2. buffered' \in 0 .. Enough
  BY <1>1 DEF Render, StreamTyped, Enough
<1>3. underrun' \in BOOLEAN
  BY <1>1 DEF Render, StreamTyped
<1>4. StreamTyped'
  BY <1>1, <1>2, <1>3 DEF Render, GuiUnaffected, StreamTyped, outputVars, jobVars
<1>5. RestTyped'
  BY <1>1 DEF Render, GuiUnaffected, RestTyped
<1>6. QueuesTyped'
  BY <1>1 DEF Render, GuiUnaffected, QueuesTyped
<1> QED
  BY <1>4, <1>5, <1>6 DEF Typed

(* The program starts typed, ... *)
LEMMA InitTyped ==
  ASSUME Init
  PROVE  Typed
<1>1. StreamTyped
  <2>1. buffered \in 0 .. Enough
    BY DEF Init, Enough
  <2> QED
    BY <2>1 DEF Init, StreamTyped, PlaybackStates, OptionalJob
<1>2. RestTyped
  BY DEF Init, RestTyped
<1>3. QueuesTyped
  BY BoundsAssumption DEF Init, QueuesTyped
<1> QED
  BY <1>1, <1>2, <1>3 DEF Typed

(* ... and every step keeps it so. *)
LEMMA NextTyped ==
  ASSUME Typed, [Next]_vars
  PROVE  Typed'
<1>1. CASE UNCHANGED vars
  <2>1. StreamTyped'
    BY <1>1 DEF vars, outputVars, contentVars, jobVars, Typed, StreamTyped
  <2>2. RestTyped'
    BY <1>1 DEF vars, Typed, RestTyped
  <2>3. QueuesTyped'
    BY <1>1 DEF vars, Typed, QueuesTyped
  <2> QED
    BY <2>1, <2>2, <2>3 DEF Typed
<1> QED
  BY <1>1, UserTyped, ReplyTyped, PollTyped, EventTyped, DecoderTyped, RenderTyped DEF Next

(* PlayerTyped.  Every variable keeps its type. *)
THEOREM PlayerTyped == Spec => []TypeOK
<1>1. Init => Typed
  BY InitTyped
<1>2. Typed /\ [Next]_vars => Typed'
  BY NextTyped
<1>3. Typed => TypeOK
  BY TypedIsTypeOK
<1> QED
  BY <1>1, <1>2, <1>3, PTL DEF Spec

-----------------------------------------------------------------------------
(* The stream in use, its decoder and its source. *)

(* There is one stream, one thread decoding into it, and it is of the open source;    *)
(* what is heard is its audio, and its end is known only when it has been decoded.     *)
StreamInv ==
  /\ current = stream /\ thread = stream
  /\ NoOrphanDecoder
  /\ nowPlaying \in {None, source}
  /\ stream # None => jobSource[stream] = source
  /\ stream # None /\ endOfStream => phase[stream] # "decoding"
  /\ hasAudio => stream # None

(* What a step does to the stream: nothing, drop it, replace it, or decode. *)
Keeps ==
  /\ UNCHANGED <<current, thread, stream, jobVars, source, hasAudio, endOfStream, hasDuration>>
  /\ \/ UNCHANGED nowPlaying
     \/ current # None /\ nowPlaying' = jobSource[current]

Drops == DropStream /\ UNCHANGED <<source, nowPlaying>>

Starts(src, startMode) ==
  /\ StartStream(src, startMode)
  /\ nowPlaying' = None \/ (src = source /\ UNCHANGED nowPlaying)
  /\ UNCHANGED <<events, shuttingDown>>

Decodes == \E j \in Jobs : DecoderConfigures(j) \/ Decode(j) \/ DecoderMetadata(j)

(* play() touches neither the jobs nor the generation. *)
LEMMA PlaySteps ==
  ASSUME NEW from, PlayFrom(from)
  PROVE  \/ DropStream
         \/ UNCHANGED <<current, thread, stream, jobVars, hasAudio, endOfStream, hasDuration>>
  BY DEF PlayFrom, SetErrorFrom, contentVars

(* What each step of the GUI thread does to the stream and its jobs. *)
LEMMA StreamSteps ==
  ASSUME Typed, [Next]_vars
  PROVE  Keeps \/ Drops \/ Decodes \/ \E src, startMode : Starts(src, startMode)
<1>1. CASE UserCalls
  <2>1. CASE OpenFile
    BY <2>1 DEF OpenFile, Refuse, SetErrorFrom, Drops, Starts, ResetPresentation, KeepPresentation
  <2>2. CASE OpenStream
    BY <2>2 DEF OpenStream, Refuse, SetErrorFrom, Drops, Starts, ResetPresentation,
      KeepPresentation
  <2>3. CASE OpenRadioPlaylist
    BY <2>3 DEF OpenRadioPlaylist, Keeps, JobsUnaffected, contentVars
  <2>4. CASE Play
    BY <2>4, PlaySteps DEF Play, Keeps, Drops, Starts, KeepPresentation
  <2>5. CASE Pause
    BY <2>5 DEF Pause, Keeps, JobsUnaffected, contentVars, KeepPresentation
  <2>6. CASE Stop
    BY <2>6 DEF Stop, Drops
  <2>7. CASE Seek
    BY <2>7 DEF Seek, Starts, KeepPresentation
  <2>8. CASE Shutdown
    BY <2>8 DEF Shutdown, Drops
  <2> QED
    BY <1>1, <2>1, <2>2, <2>3, <2>4, <2>5, <2>6, <2>7, <2>8 DEF UserCalls
<1>2. CASE PlaylistLoaded
  BY <1>2 DEF PlaylistLoaded, Refuse, SetErrorFrom, Drops, Starts, ResetPresentation,
    KeepPresentation
<1>3. CASE ReconnectTimeout
  BY <1>3 DEF ReconnectTimeout, Starts
<1>4. CASE UpdatePosition
  <2>1. CASE PollResume
    BY <1>4, <2>1, PlaySteps DEF UpdatePosition, PollResume, Keeps, Drops
  <2>2. CASE PollEnded \/ PollUnderrun \/ PollProgress
    BY <1>4, <2>2 DEF UpdatePosition, PollEnded, PollUnderrun, PollProgress, Keeps,
      JobsUnaffected,
      contentVars
  <2> QED
    BY <1>4, <2>1, <2>2 DEF UpdatePosition
<1>5. CASE HandleEvent
  <2> DEFINE event == Head(events)
  <2>1. CASE IgnoreEvent
    BY <1>5, <2>1 DEF HandleEvent, IgnoreEvent, Keeps, JobsUnaffected, contentVars
  <2>2. CASE HandleReady(event.job)
    <3>1. \/ DropStream
          \/ UNCHANGED <<current, thread, stream, jobVars, hasAudio, endOfStream, hasDuration>>
      BY <2>2, PlaySteps DEF HandleReady, JobsUnaffected, contentVars
    <3> QED
      BY <1>5, <2>2, <3>1 DEF HandleEvent, HandleReady, Keeps, Drops
  <2>3. CASE HandleMetadata(event.job) /\ ~Ignored(event)
    <3>0. event \in Callbacks
      BY <1>5 DEF HandleEvent, Typed, QueuesTyped
    <3>1. event.job \in Jobs
      BY <3>0 DEF Callbacks
    <3>2. current = event.job /\ current # None
      BY <2>3, <3>1 DEF Ignored, Superseded
    <3> QED
      BY <1>5, <2>3, <3>2 DEF HandleEvent, HandleMetadata, Keeps, JobsUnaffected, contentVars
  <2>4. CASE HandleError
    BY <1>5, <2>4 DEF HandleEvent, HandleError, SetErrorFrom, Keeps, Drops, JobsUnaffected,
      contentVars
  <2>5. CASE HandleSuccess
    BY <1>5, <2>5 DEF HandleEvent, HandleSuccess, Keeps, JobsUnaffected, contentVars
  <2> QED
    BY <1>5, <2>1, <2>2, <2>3, <2>4, <2>5 DEF HandleEvent
<1>6. CASE Decodes
  BY <1>6
<1>7. CASE Render
  BY <1>7 DEF Render, GuiUnaffected, Keeps
<1>8. CASE UNCHANGED vars
  BY <1>8 DEF vars, contentVars, Keeps
<1> QED
  BY <1>1, <1>2, <1>3, <1>4, <1>5, <1>6, <1>7, <1>8 DEF Next, Decodes

(* Every step keeps the streams and their generations paired. *)
LEMMA StreamStep ==
  ASSUME Typed, StreamInv, [Next]_vars
  PROVE  StreamInv'
<1>1. /\ phase \in [Jobs -> {"none", "decoding", "drained", "done"}]
      /\ jobSource \in [Jobs -> Sources \cup {None}]
      /\ stream \in Jobs \cup {None}
  BY DEF Typed, StreamTyped, OptionalJob
<1>2. CASE Keeps
  BY <1>2 DEF Keeps, StreamInv, NoOrphanDecoder, jobVars
<1>3. CASE Drops
  BY <1>3 DEF Drops, DropStream, EmptyContent, Bumped, Stopped, StreamInv, NoOrphanDecoder
<1>4. ASSUME NEW src, NEW startMode, Starts(src, startMode)
      PROVE  StreamInv'
  <2>1. nowPlaying' \in {None, source'} /\ endOfStream' = FALSE /\ hasAudio' = FALSE
    BY <1>4 DEF Starts, StartStream, EmptyContent, StreamInv
  <2>2. CASE AttachFails
    BY <2>1, <2>2 DEF AttachFails, Stopped, StreamInv, NoOrphanDecoder
  <2>3. CASE \E j \in {k \in Jobs : Fresh(k)} : Opens(j, src, startMode)
    <3>1. PICK j \in Jobs : Fresh(j) /\ Opens(j, src, startMode)
      BY <2>3
    <3>2. current' = stream' /\ thread' = stream' /\ jobSource'[stream'] = source'
      BY <1>1, <1>4, <3>1 DEF Opens, Starts, StartStream
    <3>3. NoOrphanDecoder'
      BY <1>1, <3>1 DEF Opens, Fresh, Stopped, StreamInv, NoOrphanDecoder
    <3> QED
      BY <2>1, <3>2, <3>3 DEF StreamInv
  <2> QED
    BY <1>4, <2>2, <2>3 DEF Starts, StartStream
<1>5. CASE Decodes
  <2>1. PICK j \in Jobs : DecoderConfigures(j) \/ Decode(j) \/ DecoderMetadata(j)
    BY <1>5 DEF Decodes
  <2>2. UNCHANGED <<current, thread, stream, source, nowPlaying, jobSource>>
    BY <2>1 DEF DecoderConfigures, Decode, DecoderWrites, DecoderFinishes, DecoderReturns,
      DecoderMetadata, GuiUnaffected, StartedWith, jobVars
  <2>3. NoOrphanDecoder'
    BY <1>1, <2>1 DEF DecoderConfigures, Decode, DecoderWrites, DecoderFinishes, DecoderReturns,
      DecoderMetadata, GuiUnaffected, StartedWith, jobVars, StreamInv, NoOrphanDecoder
  <2>4. stream # None /\ endOfStream' => phase'[stream] # "decoding"
    BY <1>1, <2>1 DEF DecoderConfigures, Decode, DecoderWrites, DecoderFinishes, DecoderReturns,
      DecoderMetadata, contentVars, jobVars, StreamInv
  <2>5. hasAudio' => stream # None
    BY <2>1 DEF DecoderConfigures, Decode, DecoderWrites, DecoderFinishes, DecoderReturns,
      DecoderMetadata, contentVars, StreamInv
  <2> QED
    BY <2>2, <2>3, <2>4, <2>5 DEF StreamInv
<1> QED
  BY <1>2, <1>3, <1>4, <1>5, StreamSteps

(* GenerationIsEnough.  The generation names the stream in use, so that comparing it    *)
(* alone recognises a callback of that stream, and what is shown is of the open source.  *)
THEOREM GenerationIsEnough == Spec => []GenerationNamesStream
<1>1. Init => Typed /\ StreamInv
  BY InitTyped DEF Init, StreamInv, NoOrphanDecoder
<1>2. Typed /\ StreamInv /\ [Next]_vars => (Typed /\ StreamInv)'
  BY NextTyped, StreamStep
<1>3. StreamInv => GenerationNamesStream
  BY DEF StreamInv, GenerationNamesStream, MetadataOfSource
<1> QED
  BY <1>1, <1>2, <1>3, PTL DEF Spec

(* DecodersAreAccountedFor.  Every decoder thread that still runs is the player's own   *)
(* or has been asked to stop.                                                      *)
THEOREM DecodersAreAccountedFor == Spec => []NoOrphanDecoder
<1>1. Init => Typed /\ StreamInv
  BY InitTyped DEF Init, StreamInv, NoOrphanDecoder
<1>2. Typed /\ StreamInv /\ [Next]_vars => (Typed /\ StreamInv)'
  BY NextTyped, StreamStep
<1>3. StreamInv => NoOrphanDecoder
  BY DEF StreamInv
<1> QED
  BY <1>1, <1>2, <1>3, PTL DEF Spec

-----------------------------------------------------------------------------
(* The state and the output. *)

(* The states of a player whose stream is attached. *)
WithStream == {"Loading", "Ready", "Playing", "Buffering", "Paused", "Finished"}

(* StateMatchesOutput but for the reconnect timer, and where each state comes from:    *)
(* a stream excludes Error, Stopped and Empty, and only a player that never opened     *)
(* anything is Empty.                                                             *)
SoundInv ==
  /\ OnlyKnownRejections
  /\ state \in WithStream \ {"Finished"} /\ ~shuttingDown => stream # None
  /\ state = "Playing" /\ ~shuttingDown => started /\ (playing \/ StreamFinished)
  /\ started /\ state # "Playing" =>
       state \in {"Loading", "Ready", "Paused"} /\ <<"Loading", "Playing">> \in rejected
  /\ stream # None => state \in WithStream
  /\ state = "Empty" => source = None

(* After setError() the player is silent and says so, *)
LEMMA ErrorSound ==
  ASSUME SoundInv, NEW from \in PlaybackStates, SetErrorFrom(from)
  PROVE  SoundInv'
<1>1. state' \in {"Error", "Finished"} /\ rejected' \subseteq rejected \cup {<<"Finished", "Error">>}
  BY TransitionTable DEF SetErrorFrom, SetStateFrom, Transition, Rejected
<1>2. stream' = None /\ started' = FALSE
  BY DEF SetErrorFrom, DropStream, PauseOutput
<1> QED
  BY <1>1, <1>2 DEF SoundInv, OnlyKnownRejections, WithStream

(* after startStream() it loads, *)
LEMMA StartSound ==
  ASSUME Typed, NEW src, NEW startMode, StartStream(src, startMode)
  PROVE  SoundInv'
<1>1. state \in PlaybackStates /\ started' = FALSE
  BY DEF Typed, StreamTyped, StartStream, PauseOutput
<1>2. Transition(state, "Loading") = "Loading" /\ Rejected(state, "Loading") = {}
  BY <1>1, TransitionTable DEF Transition, Rejected
<1>3. Transition("Loading", "Error") = "Error" /\ Rejected("Loading", "Error") = {}
  BY TransitionTable DEF Transition, Rejected, PlaybackStates
<1>4. CASE AttachFails
  <2>1. state' = "Error" /\ rejected' = {} /\ stream' = None
    BY <1>2, <1>3, <1>4 DEF AttachFails, SetStateFresh
  <2> QED
    BY <1>1, <2>1 DEF SoundInv, OnlyKnownRejections, WithStream
<1>5. CASE \E j \in {k \in Jobs : Fresh(k)} : Opens(j, src, startMode)
  <2>1. state' = "Loading" /\ rejected' = {} /\ stream' # None
    BY <1>2, <1>5 DEF Opens, SetStateFresh
  <2> QED
    BY <1>1, <2>1 DEF SoundInv, OnlyKnownRejections, WithStream
<1> QED
  BY <1>4, <1>5 DEF StartStream

(* after play() it plays or says why not; *)
LEMMA PlaySound ==
  ASSUME SoundInv, stream # None, NEW from \in {"Loading", "Ready", "Playing", "Buffering", "Paused"},
         PlayFrom(from), UNCHANGED <<shuttingDown, source>>
  PROVE  SoundInv'
<1>1. CASE SetErrorFrom(from)
  BY <1>1, ErrorSound DEF PlaybackStates
<1>2. CASE /\ started' = TRUE
           /\ playing' = (playing \/ ~StreamFinished)
           /\ SetStateFrom(from, "Playing")
           /\ UNCHANGED <<initialized, current, thread, stream, contentVars, jobVars>>
  <2>1. StreamFinished' = StreamFinished /\ stream' = stream
    BY <1>2 DEF StreamFinished, contentVars
  <2>2. CASE from = "Loading"
    <3>1. state' = "Loading" /\ rejected' = rejected \cup {<<"Loading", "Playing">>}
      BY <1>2, <2>2, TransitionTable DEF SetStateFrom, Transition, Rejected
    <3> QED
      BY <2>1, <3>1 DEF SoundInv, OnlyKnownRejections, WithStream
  <2>3. CASE from # "Loading"
    <3>1. state' = "Playing" /\ rejected' = rejected
      BY <1>2, <2>3, TransitionTable DEF SetStateFrom, Transition, Rejected
    <3>2. started' /\ (playing' \/ StreamFinished')
      BY <1>2, <2>1
    <3> QED
      BY <2>1, <3>1, <3>2 DEF SoundInv, OnlyKnownRejections, WithStream
  <2> QED
    BY <2>2, <2>3
<1> QED
  BY <1>1, <1>2 DEF PlayFrom

(* Until it has been handled, a job's ready callback finds the player Loading, and it   *)
(* overtakes the job's result: nothing but metadata is posted before it.                *)
OnlyMetadata(last) ==
  \A i \in 1 .. last : events[i].job = stream => events[i].kind = "metadata"

ReadyComesFirst ==
  stream # None =>
    /\ phase[stream] = "decoding" /\ stream \notin readySent =>
         state = "Loading" /\ OnlyMetadata(Len(events))
    /\ \A i \in DOMAIN events :
         events[i].kind = "ready" /\ events[i].job = stream =>
           state = "Loading" /\ OnlyMetadata(i - 1)

(* the other calls of the user keep the state true, *)
LEMMA UserSound ==
  ASSUME Typed, StreamInv, SoundInv, UserCalls
  PROVE  SoundInv'
<1>1. state \in PlaybackStates
  BY DEF Typed, StreamTyped
<1>2. CASE Refuse /\ UNCHANGED shuttingDown
  BY <1>1, <1>2, ErrorSound DEF Refuse
<1>3. CASE OpenFile
  BY <1>2, <1>3, StartSound DEF OpenFile
<1>4. CASE OpenStream
  BY <1>2, <1>4, StartSound DEF OpenStream
<1>5. CASE OpenRadioPlaylist
  BY <1>5 DEF OpenRadioPlaylist, JobsUnaffected, outputVars, contentVars, SoundInv,
    OnlyKnownRejections,
    StreamFinished
<1>6. CASE Play
  <2>1. CASE Reopens
    BY <1>6, <2>1, StartSound DEF Play
  <2>2. CASE ~Reopens /\ hasAudio /\ PlayFrom(state)
    <3>1. stream # None /\ state \in {"Loading", "Ready", "Playing", "Buffering", "Paused"}
      BY <2>2 DEF StreamInv, SoundInv, WithStream, Reopens
    <3> QED
      BY <1>6, <2>2, <3>1, PlaySound DEF Play
  <2> QED
    BY <1>6, <2>1, <2>2 DEF Play
<1>7. CASE Pause
  <2>1. state' = "Paused" /\ rejected' = rejected
    BY <1>7, TransitionTable DEF Pause, SetState, SetStateFrom, Transition, Rejected
  <2> QED
    BY <1>7, <2>1 DEF Pause, PauseOutput, JobsUnaffected, SoundInv, OnlyKnownRejections,
      WithStream
<1>8. CASE Stop
  <2>1. state' = "Stopped" /\ rejected' = rejected
    BY <1>1, <1>8, TransitionTable DEF Stop, SetState, SetStateFrom, Transition, Rejected,
      SoundInv
  <2> QED
    BY <1>8, <2>1 DEF Stop, DropStream, PauseOutput, SoundInv, OnlyKnownRejections, WithStream
<1>9. CASE Seek
  BY <1>9, StartSound DEF Seek
<1>10. CASE Shutdown
  BY <1>10 DEF Shutdown, DropStream, PauseOutput, SoundInv, OnlyKnownRejections, WithStream
<1> QED
  BY <1>3, <1>4, <1>5, <1>6, <1>7, <1>8, <1>9, <1>10 DEF UserCalls

(* as do the answers of a playlist download and the reconnect timer, *)
LEMMA ReplySound ==
  ASSUME Typed, SoundInv, PlaylistLoaded \/ ReconnectTimeout
  PROVE  SoundInv'
<1>1. state \in PlaybackStates
  BY DEF Typed, StreamTyped
<1> QED
  BY <1>1, ErrorSound, StartSound DEF PlaylistLoaded, ReconnectTimeout, Refuse

(* the position timer, *)
LEMMA PollSound ==
  ASSUME Typed, StreamInv, SoundInv, UpdatePosition
  PROVE  SoundInv'
<1>1. CASE PollEnded
  <2>1. state' = "Finished" /\ rejected' = rejected
    BY <1>1, TransitionTable DEF PollEnded, Ended, SetState, SetStateFrom, Transition, Rejected
  <2> QED
    BY <1>1, <2>1 DEF PollEnded, PauseOutput, SoundInv, OnlyKnownRejections, WithStream
<1>2. CASE PollUnderrun
  <2>1. state' = "Buffering" /\ rejected' = rejected
    BY <1>2, TransitionTable DEF PollUnderrun, Underran, SetState, SetStateFrom, Transition,
      Rejected
  <2> QED
    BY <1>2, <2>1 DEF PollUnderrun, Underran, PauseOutput, UpdatePosition, SoundInv,
      OnlyKnownRejections, WithStream
<1>3. CASE PollResume
  <2>1. state = "Buffering" /\ stream # None
    BY <1>3 DEF PollResume, MayResume, UpdatePosition, SoundInv, WithStream
  <2> QED
    BY <1>3, <2>1, PlaySound DEF PollResume, UpdatePosition
<1>4. CASE PollProgress
  BY <1>4 DEF PollProgress, UpdatePosition, JobsUnaffected, outputVars, contentVars, SoundInv,
    OnlyKnownRejections, StreamFinished
<1> QED
  BY <1>1, <1>2, <1>3, <1>4 DEF UpdatePosition

(* the callbacks of the stream in use and of the dropped ones, *)
LEMMA EventSound ==
  ASSUME Typed, StreamInv, SoundInv, ReadyComesFirst, HandleEvent
  PROVE  SoundInv'
<1> DEFINE event == Head(events)
<1>1. state \in PlaybackStates /\ UNCHANGED <<shuttingDown, source>>
  BY DEF Typed, StreamTyped, HandleEvent
<1>2. event \in Callbacks /\ 1 \in DOMAIN events /\ event = events[1]
  BY DEF HandleEvent, Typed, QueuesTyped
<1>3. event.job \in Jobs
  BY <1>2 DEF Callbacks
<1>4. CASE IgnoreEvent \/ HandleMetadata(event.job) \/ HandleSuccess
  BY <1>1, <1>4 DEF IgnoreEvent, HandleMetadata, HandleSuccess, JobsUnaffected, outputVars,
    contentVars,
    SoundInv, OnlyKnownRejections, StreamFinished
<1>5. ASSUME ~Ignored(event)
      PROVE  event.job = stream /\ stream # None /\ state \in WithStream
  BY <1>3, <1>5 DEF Ignored, Superseded, StreamInv, SoundInv
<1>6. CASE ~Ignored(event) /\ event.kind = "ready" /\ HandleReady(event.job)
  <2>1. state = "Loading" /\ stream # None
    BY <1>2, <1>5, <1>6 DEF ReadyComesFirst
  <2>2. Transition(state, "Ready") = "Ready" /\ Rejected(state, "Ready") = {}
    BY <2>1, TransitionTable DEF Transition, Rejected
  <2>3. CASE SetState("Ready") /\ UNCHANGED outputVars /\ JobsUnaffected
    <3>1. state' = "Ready" /\ rejected' = rejected
      BY <2>2, <2>3 DEF SetState, SetStateFrom
    <3> QED
      BY <2>1, <2>3, <3>1 DEF outputVars, JobsUnaffected, SoundInv, OnlyKnownRejections,
        WithStream
  <2>4. CASE SetStateFrom("Ready", "Paused") /\ UNCHANGED outputVars /\ JobsUnaffected
    <3>1. state' = "Paused" /\ rejected' = rejected
      BY <2>4, TransitionTable DEF SetStateFrom, Transition, Rejected
    <3> QED
      BY <2>1, <2>4, <3>1 DEF outputVars, JobsUnaffected, SoundInv, OnlyKnownRejections,
        WithStream
  <2>5. CASE PlayFrom("Ready")
    BY <1>1, <2>1, <2>5, PlaySound
  <2> QED
    BY <1>6, <2>2, <2>3, <2>4, <2>5 DEF HandleReady
<1>7. CASE ~Ignored(event) /\ HandleError
  <2>1. CASE SetErrorFrom(state)
    BY <1>1, <2>1, ErrorSound
  <2>2. CASE ScheduleReconnect /\ JobsUnaffected
    <3>1. CASE reconnectScheduled
      BY <1>1, <2>2, <3>1 DEF ScheduleReconnect, JobsUnaffected, contentVars, SoundInv,
        OnlyKnownRejections, StreamFinished
    <3>2. CASE ~reconnectScheduled
      <4>1. started' = FALSE /\ SetState(IF state = "Finished" THEN state ELSE "Buffering")
        BY <2>2, <3>2 DEF ScheduleReconnect, PauseOutput
      <4>2. CASE state \in {"Finished", "Paused"}
        <5>1. state' = state /\ rejected' \subseteq rejected \cup {<<"Paused", "Buffering">>}
          BY <1>1, <4>1, <4>2 DEF SetState, SetStateFrom, Transition, Rejected, CanTransition,
            Successors
        <5> QED
          BY <1>1, <2>2, <4>1, <4>2, <5>1 DEF JobsUnaffected, SoundInv, OnlyKnownRejections,
            WithStream
      <4>3. CASE state \notin {"Finished", "Paused"}
        <5>1. state' = "Buffering" /\ rejected' = rejected
          BY <1>5, <1>7, <4>1, <4>3, TransitionTable DEF SetState, SetStateFrom, Transition,
            Rejected, WithStream
        <5> QED
          BY <1>1, <1>5, <1>7, <2>2, <4>1, <5>1 DEF JobsUnaffected, SoundInv,
            OnlyKnownRejections, WithStream
      <4> QED
        BY <4>2, <4>3
    <3> QED
      BY <3>1, <3>2
  <2> QED
    BY <1>7, <2>1, <2>2 DEF HandleError
<1> QED
  BY <1>4, <1>6, <1>7 DEF HandleEvent

(* and the threads, which never move the state. *)
LEMMA ThreadSound ==
  ASSUME Typed, StreamInv, SoundInv, Decodes \/ Render \/ UNCHANGED vars
  PROVE  SoundInv'
<1>1. UNCHANGED <<state, rejected, source, stream, started, playing, shuttingDown>>
  BY DEF Decodes, DecoderConfigures, Decode, DecoderWrites, DecoderFinishes, DecoderReturns,
    DecoderMetadata, Render, GuiUnaffected, outputVars, vars
<1>2. playing \/ (StreamFinished => StreamFinished')
  <2>1. CASE Decodes
    <3>1. PICK j \in Jobs : DecoderConfigures(j) \/ Decode(j) \/ DecoderMetadata(j)
      BY <2>1 DEF Decodes
    <3>2. CASE DecoderWrites(j)
      BY <3>2 DEF DecoderWrites, StreamInv, StreamFinished
    <3>3. CASE DecoderFinishes(j)
      BY <1>1, <3>3 DEF DecoderFinishes, StreamFinished
    <3>4. CASE DecoderReturns(j) \/ DecoderMetadata(j) \/ DecoderConfigures(j)
      BY <1>1, <3>4 DEF DecoderReturns, DecoderMetadata, DecoderConfigures, contentVars,
        StreamFinished
    <3> QED
      BY <3>1, <3>2, <3>3, <3>4 DEF Decode
  <2>2. CASE Render
    BY <2>2 DEF Render
  <2>3. CASE UNCHANGED vars
    BY <2>3 DEF vars, contentVars, StreamFinished
  <2> QED
    BY <2>1, <2>2, <2>3
<1> QED
  BY <1>1, <1>2 DEF SoundInv, OnlyKnownRejections

(* Every step keeps what the player says true of its output. *)
LEMMA SoundStep ==
  ASSUME Typed, StreamInv, SoundInv, ReadyComesFirst, [Next]_vars
  PROVE  SoundInv'
  BY UserSound, ReplySound, PollSound, EventSound, ThreadSound DEF Next, Decodes

-----------------------------------------------------------------------------
(* The order of a job's callbacks. *)

(* Loading lasts until a callback is handled or the stream is dropped or replaced. *)
LEMMA LoadingLasts ==
  ASSUME [Next]_vars, ~HandleEvent, ~Decodes, Keeps, stream # None
  PROVE  events' = events /\ (state = "Loading" => state' = "Loading")
<1>1. ~DropStream
  BY DEF Keeps, DropStream
<1>2. ASSUME NEW src, NEW startMode
      PROVE  ~StartStream(src, startMode)
  BY DEF Keeps, StartStream, AttachFails, Opens, Fresh
<1>3. CASE UserCalls
  <2>1. CASE OpenFile \/ OpenStream \/ Seek \/ Stop \/ Shutdown
    BY <1>1, <1>2, <2>1 DEF OpenFile, OpenStream, Refuse, SetErrorFrom, Seek, Stop, Shutdown
  <2>2. CASE OpenRadioPlaylist
    BY <2>2 DEF OpenRadioPlaylist
  <2>3. CASE Play
    <3>1. PlayFrom(state) /\ events' = events
      BY <1>2, <2>3 DEF Play
    <3>2. SetState("Playing")
      BY <1>1, <3>1 DEF PlayFrom, SetErrorFrom, SetState
    <3> QED
      BY <3>1, <3>2, TransitionTable DEF SetState, SetStateFrom, Transition
  <2>4. CASE Pause
    BY <2>4 DEF Pause
  <2> QED
    BY <1>3, <2>1, <2>2, <2>3, <2>4 DEF UserCalls
<1>4. CASE PlaylistLoaded \/ ReconnectTimeout
  BY <1>1, <1>2, <1>4 DEF PlaylistLoaded, ReconnectTimeout, Refuse, SetErrorFrom
<1>5. CASE UpdatePosition
  BY <1>5 DEF UpdatePosition, PollEnded, Ended, PollUnderrun, Underran, PollResume, MayResume,
    PollProgress
<1>6. CASE Render
  BY <1>6 DEF Render, GuiUnaffected
<1>7. CASE UNCHANGED vars
  BY <1>7 DEF vars
<1> QED
  BY <1>3, <1>4, <1>5, <1>6, <1>7 DEF Next, Decodes

(* A posted callback is the last one. *)
LEMMA PostedLast ==
  ASSUME Typed, NEW j \in Jobs, NEW k \in {"ready", "metadata", "error", "success", "cancelled"},
         Post(j, <<k>>)
  PROVE  /\ Len(events) \in Nat /\ Len(events') = Len(events) + 1
         /\ \A i \in 1 .. Len(events) : events'[i] = events[i]
         /\ events'[Len(events) + 1].kind = k /\ events'[Len(events) + 1].job = j
         /\ DOMAIN events = 1 .. Len(events) /\ DOMAIN events' = 1 .. Len(events) + 1
<1> DEFINE posted == [kind |-> k, job |-> j]
<1>1. events \in Seq(Callbacks) /\ posted \in Callbacks
  BY DEF Typed, QueuesTyped, Callbacks
<1>2. events' = events \o <<posted>>
  BY PostOne
<1>3. posted.kind = k /\ posted.job = j
  OBVIOUS
<1> HIDE DEF posted
<1>6. events' = Append(events, posted)
  BY <1>1, <1>2, AppendIsConcat
<1>5. /\ events' \in Seq(Callbacks) /\ Len(events') = Len(events) + 1
      /\ \A i \in 1 .. Len(events) : events'[i] = events[i]
      /\ events'[Len(events) + 1] = posted
  BY <1>1, <1>6, AppendProperties
<1>4. /\ Len(events) \in Nat /\ Len(events') = Len(events) + 1
      /\ \A i \in 1 .. Len(events) : events'[i] = events[i]
      /\ events'[Len(events) + 1] = posted
      /\ DOMAIN events = 1 .. Len(events) /\ DOMAIN events' = 1 .. Len(events) + 1
  BY <1>1, <1>5
<1> QED
  BY <1>3, <1>4

(* What keeps a job's callbacks in order: nothing is posted, ... *)
LEMMA SameKeepsOrder ==
  ASSUME ReadyComesFirst, UNCHANGED <<stream, events>>, stream # None,
         state = "Loading" => state' = "Loading",
         phase'[stream] = "decoding" /\ stream \notin readySent' =>
           phase[stream] = "decoding" /\ stream \notin readySent
  PROVE  ReadyComesFirst'
  BY DEF ReadyComesFirst, OnlyMetadata

(* ... or what is posted may be the last one, ... *)
LEMMA PostKeepsOrder ==
  ASSUME Typed, ReadyComesFirst, UNCHANGED <<state, stream>>, stream # None,
         NEW j \in Jobs, NEW k \in {"ready", "metadata", "error", "success", "cancelled"},
         Post(j, <<k>>),
         phase'[stream] = "decoding" /\ stream \notin readySent' =>
           /\ phase[stream] = "decoding" /\ stream \notin readySent
           /\ j = stream => k = "metadata",
         j = stream /\ k = "ready" => phase[stream] = "decoding" /\ stream \notin readySent
  PROVE  ReadyComesFirst'
<1> DEFINE n == Len(events)
<1>1. /\ n \in Nat /\ Len(events') = n + 1
      /\ \A i \in 1 .. n : events'[i] = events[i]
      /\ events'[n + 1].kind = k /\ events'[n + 1].job = j
      /\ DOMAIN events = 1 .. n /\ DOMAIN events' = 1 .. n + 1
  BY PostedLast
<1>2. ASSUME phase'[stream] = "decoding", stream \notin readySent'
      PROVE  state' = "Loading" /\ OnlyMetadata(Len(events))'
  <2>1. state = "Loading" /\ OnlyMetadata(n) /\ (j = stream => k = "metadata")
    BY <1>2 DEF ReadyComesFirst
  <2> QED
    BY <1>1, <2>1 DEF OnlyMetadata
<1>3. ASSUME NEW i \in DOMAIN events', events'[i].kind = "ready", events'[i].job = stream'
      PROVE  state' = "Loading" /\ \A m \in 1 .. (i - 1) : events'[m].job = stream' => events'[m].kind = "metadata"
  <2>1. CASE i \in 1 .. n
    <3>1. state = "Loading" /\ OnlyMetadata(i - 1)
      BY <1>1, <1>3, <2>1 DEF ReadyComesFirst
    <3> QED
      BY <1>1, <2>1, <3>1 DEF OnlyMetadata
  <2>2. CASE i = n + 1
    <3>1. state = "Loading" /\ OnlyMetadata(n)
      BY <1>1, <1>3, <2>2 DEF ReadyComesFirst
    <3> QED
      BY <1>1, <2>2, <3>1 DEF OnlyMetadata
  <2> QED
    BY <1>1, <2>1, <2>2
<1> QED
  BY <1>2, <1>3 DEF ReadyComesFirst, OnlyMetadata

(* ... or the first one is taken, and ends Loading only if it is not metadata. *)
LEMMA TakeKeepsOrder ==
  ASSUME Typed, ReadyComesFirst, events # <<>>, events' = Tail(events), stream # None,
         UNCHANGED <<stream, phase, readySent>>,
         state = "Loading" /\ (events[1].job = stream => events[1].kind = "metadata") =>
           state' = "Loading"
  PROVE  ReadyComesFirst'
<1> DEFINE n == Len(events)
<1>1. /\ n \in Nat \ {0} /\ Len(events') = n - 1
      /\ \A i \in 1 .. (n - 1) : events'[i] = events[i + 1]
      /\ DOMAIN events = 1 .. n /\ DOMAIN events' = 1 .. (n - 1)
  <2>1. events \in Seq(Callbacks)
    BY DEF Typed, QueuesTyped
  <2>2. /\ events' \in Seq(Callbacks) /\ Len(events') = n - 1
        /\ \A i \in 1 .. Len(events') : events'[i] = events[i + 1]
    BY <2>1, HeadTailProperties
  <2> QED
    BY <2>1, <2>2
<1>2. ASSUME phase[stream] = "decoding", stream \notin readySent
      PROVE  state' = "Loading" /\ \A m \in 1 .. (n - 1) : events'[m].job = stream => events'[m].kind = "metadata"
  <2>1. state = "Loading" /\ OnlyMetadata(n)
    BY <1>2 DEF ReadyComesFirst
  <2> QED
    BY <1>1, <2>1 DEF OnlyMetadata
<1>3. ASSUME NEW i \in DOMAIN events', events'[i].kind = "ready", events'[i].job = stream
      PROVE  state' = "Loading" /\ \A m \in 1 .. (i - 1) : events'[m].job = stream => events'[m].kind = "metadata"
  <2>1. i \in Int /\ i + 1 \in DOMAIN events /\ events[i + 1] = events'[i]
    BY <1>1
  <2>2. state = "Loading" /\ OnlyMetadata((i + 1) - 1)
    BY <1>3, <2>1 DEF ReadyComesFirst
  <2> QED
    BY <1>1, <2>1, <2>2 DEF OnlyMetadata
<1> QED
  BY <1>1, <1>2, <1>3 DEF ReadyComesFirst, OnlyMetadata

(* A queue that only loses its head, or gets a callback that may be last, stays in order. *)
LEMMA ReadyStep ==
  ASSUME Typed, StreamInv, SoundInv, ReadyComesFirst, [Next]_vars
  PROVE  ReadyComesFirst'
<1>1. /\ events \in Seq(Callbacks) /\ DOMAIN events = 1 .. Len(events) /\ Len(events) \in Nat
      /\ phase \in [Jobs -> {"none", "decoding", "drained", "done"}]
      /\ state \in PlaybackStates
  BY DEF Typed, QueuesTyped, StreamTyped
<1>2. CASE Drops
  BY <1>2 DEF Drops, DropStream, ReadyComesFirst
<1>3. ASSUME NEW src, NEW startMode, Starts(src, startMode)
      PROVE  ReadyComesFirst'
  <2>1. events' = events /\ StartStream(src, startMode)
    BY <1>3 DEF Starts
  <2>2. CASE AttachFails
    BY <2>2 DEF AttachFails, ReadyComesFirst
  <2>3. CASE \E j \in {k \in Jobs : Fresh(k)} : Opens(j, src, startMode)
    <3>1. PICK j \in Jobs : Fresh(j) /\ Opens(j, src, startMode)
      BY <2>3
    <3>2. state' = "Loading" /\ stream' = j
      BY <1>1, <3>1, TransitionTable DEF Opens, SetStateFresh, Transition
    <3>3. \A i \in DOMAIN events' : events'[i].job # stream'
      BY <2>1, <3>1, <3>2 DEF Fresh
    <3> QED
      BY <1>1, <2>1, <3>2, <3>3 DEF ReadyComesFirst, OnlyMetadata
  <2> QED
    BY <2>1, <2>2, <2>3 DEF StartStream
<1>4. CASE Decodes
  <2>1. PICK j \in Jobs : DecoderConfigures(j) \/ Decode(j) \/ DecoderMetadata(j)
    BY <1>4 DEF Decodes
  <2>2. UNCHANGED <<state, stream>> /\ (stream = None => ReadyComesFirst')
    BY <2>1 DEF DecoderConfigures, Decode, DecoderWrites, DecoderFinishes, DecoderReturns,
      DecoderMetadata, GuiUnaffected, ReadyComesFirst
  <2> SUFFICES ASSUME stream # None
               PROVE  ReadyComesFirst'
    BY <2>2
  <2>3. CASE DecoderConfigures(j)
    BY <2>2, <2>3, SameKeepsOrder DEF DecoderConfigures
  <2>4. CASE DecoderMetadata(j)
    BY <2>2, <2>4, PostKeepsOrder DEF DecoderMetadata, jobVars
  <2>5. CASE DecoderWrites(j)
    <3>1. CASE UNCHANGED <<events, readySent>>
      BY <2>2, <2>5, <3>1, SameKeepsOrder DEF DecoderWrites
    <3>2. CASE Post(j, ReadyOnce(j)) /\ readySent' = readySent \cup {j}
      <4>1. CASE j \in readySent
        BY <1>1, <2>2, <2>5, <3>2, <4>1, PostNone, SameKeepsOrder DEF DecoderWrites, ReadyOnce
      <4>2. CASE j \notin readySent
        BY <2>2, <2>5, <3>2, <4>2, PostKeepsOrder DEF DecoderWrites, ReadyOnce
      <4> QED
        BY <4>1, <4>2
    <3> QED
      BY <2>5, <3>1, <3>2 DEF DecoderWrites
  <2>6. CASE DecoderFinishes(j)
    <3>1. stream = j \/ phase'[stream] = phase[stream]
      BY <1>1, <2>6 DEF DecoderFinishes
    <3>2. phase[j] = "decoding" /\ readySent' = readySent \cup {j} /\ Post(j, ReadyOnce(j))
      BY <2>6 DEF DecoderFinishes
    <3>3. CASE j \in readySent
      BY <1>1, <2>2, <3>1, <3>2, <3>3, PostNone, SameKeepsOrder DEF ReadyOnce
    <3>4. CASE j \notin readySent
      BY <2>2, <3>1, <3>2, <3>4, PostKeepsOrder DEF ReadyOnce
    <3> QED
      BY <3>3, <3>4
  <2>7. CASE DecoderReturns(j)
    <3>1. /\ stream = j => phase'[stream] = "done"
          /\ stream # j => phase'[stream] = phase[stream]
      BY <1>1, <2>7 DEF DecoderReturns, Typed, StreamTyped, OptionalJob
    <3>2. readySent' = readySent \ {j}
      BY <2>7 DEF DecoderReturns
    <3>3. PICK k \in {"error", "cancelled", "success"} : Post(j, <<k>>)
      BY <2>7 DEF DecoderReturns
    <3> QED
      BY <2>2, <3>1, <3>2, <3>3, PostKeepsOrder
  <2> QED
    BY <2>1, <2>3, <2>4, <2>5, <2>6, <2>7 DEF Decode
<1>5. CASE Keeps /\ ~Decodes
  <2>1. UNCHANGED <<stream, phase, readySent>>
    BY <1>5 DEF Keeps, jobVars
  <2>2. CASE stream = None
    BY <2>1, <2>2 DEF ReadyComesFirst
  <2>3. CASE stream # None /\ ~HandleEvent
    BY <1>5, <2>1, <2>3, LoadingLasts, SameKeepsOrder
  <2>4. CASE stream # None /\ HandleEvent
    <3> DEFINE event == Head(events)
    <3>1. events # <<>> /\ events' = Tail(events) /\ event = events[1]
      BY <1>1, <2>4 DEF HandleEvent
    <3>2. ASSUME state = "Loading", event.job = stream => event.kind = "metadata"
          PROVE  state' = "Loading"
      <4>1. CASE Ignored(event)
        BY <2>4, <3>2, <4>1 DEF HandleEvent, IgnoreEvent
      <4>2. CASE ~Ignored(event)
        <5>1. event.job = stream
          BY <4>2 DEF Ignored, Superseded, StreamInv
        <5> QED
          BY <2>4, <3>2, <4>2, <5>1 DEF HandleEvent, HandleMetadata
      <4> QED
        BY <4>1, <4>2
    <3> QED
      BY <2>1, <2>4, <3>1, <3>2, TakeKeepsOrder
  <2> QED
    BY <2>2, <2>3, <2>4
<1> QED
  BY <1>2, <1>3, <1>4, <1>5, StreamSteps

-----------------------------------------------------------------------------
(* The reconnect timer, and the theorem. *)

(* Only a live stream is ever to be opened again. *)
LEMMA LiveStep ==
  ASSUME OnlyLiveReconnects, [Next]_vars
  PROVE  OnlyLiveReconnects'
<1>1. CASE UserCalls
  BY <1>1 DEF UserCalls, OpenFile, OpenStream, OpenRadioPlaylist, Play, Pause, Stop, Seek,
    Shutdown, Refuse,
    StartStream, ResetPresentation, KeepPresentation, OnlyLiveReconnects, Live
<1>2. CASE PlaylistLoaded \/ ReconnectTimeout
  BY <1>2 DEF PlaylistLoaded, ReconnectTimeout, Refuse, StartStream, ResetPresentation,
    KeepPresentation,
    OnlyLiveReconnects, Live
<1>3. CASE UpdatePosition
  BY <1>3 DEF UpdatePosition, PollEnded, PollUnderrun, PollResume, PollProgress,
    OnlyLiveReconnects, Live
<1>4. CASE HandleEvent
  BY <1>4 DEF HandleEvent, IgnoreEvent, HandleReady, HandleMetadata, HandleError, HandleSuccess,
    ScheduleReconnect, OnlyLiveReconnects, Live
<1>5. CASE Decodes \/ Render
  BY <1>5 DEF Decodes, DecoderConfigures, Decode, DecoderWrites, DecoderFinishes, DecoderReturns,
    DecoderMetadata, Render, GuiUnaffected, OnlyLiveReconnects, Live
<1>6. CASE UNCHANGED vars
  BY <1>6 DEF vars, OnlyLiveReconnects, Live
<1> QED
  BY <1>1, <1>2, <1>3, <1>4, <1>5, <1>6 DEF Next, Decodes

(* The inductive invariant: neither half of what the player shows can be kept without   *)
(* the order of the callbacks, nor that order without the rest.                        *)
PlayerInv ==
  Typed /\ StreamInv /\ SoundInv /\ ReadyComesFirst /\ OnlyLiveReconnects

(* PlayerStateIsTrue.  The state agrees with the audio output, the only transitions the  *)
(* state machine ever refuses are the three known ones, and only a live station is       *)
(* opened again.                                                                   *)
THEOREM PlayerStateIsTrue == Spec => []StateMatchesOutput
<1>1. Init => PlayerInv
  BY InitTyped DEF Init, PlayerInv, StreamInv, NoOrphanDecoder, SoundInv, OnlyKnownRejections,
    ReadyComesFirst, OnlyLiveReconnects, WithStream
<1>2. PlayerInv /\ [Next]_vars => PlayerInv'
  BY NextTyped, StreamStep, SoundStep, ReadyStep, LiveStep DEF PlayerInv
<1>3. PlayerInv => StateMatchesOutput
  BY DEF PlayerInv, SoundInv, StateMatchesOutput, WithStream
<1> QED
  BY <1>1, <1>2, <1>3, PTL DEF Spec
=============================================================================
