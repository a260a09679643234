--------------------------- MODULE PlaybackState ---------------------------
(***************************************************************************)
(* PlaybackStateMachine (src/core/PlaybackState.cpp): which playback state   *)
(* may follow which.  A rejected transition leaves the machine as it is; the *)
(* caller only logs the rejection.                                          *)
(***************************************************************************)
PlaybackStates == {"Empty", "Loading", "Ready", "Playing", "Buffering", "Paused",
                   "Stopped", "Finished", "Error"}

Successors ==
  [Empty     |-> {"Loading", "Error"},
   Loading   |-> {"Ready", "Buffering", "Stopped", "Error", "Empty"},
   Ready     |-> {"Playing", "Buffering", "Paused", "Stopped", "Loading", "Empty", "Error"},
   Playing   |-> {"Buffering", "Paused", "Stopped", "Finished", "Loading", "Error"},
   Buffering |-> {"Playing", "Paused", "Stopped", "Finished", "Loading", "Error"},
   Paused    |-> {"Playing", "Stopped", "Loading", "Error"},
   Stopped   |-> {"Playing", "Loading", "Empty", "Error"},
   Finished  |-> {"Playing", "Stopped", "Loading", "Empty"},
   Error     |-> {"Loading", "Stopped", "Empty"}]

CanTransition(from, to) == to = from \/ to \in Successors[from]

(* transitionTo(): the state it leaves the machine in. *)
Transition(from, to) == IF CanTransition(from, to) THEN to ELSE from

(* What setState() logs as rejected. *)
Rejected(from, to) == IF CanTransition(from, to) THEN {} ELSE {<<from, to>>}
=============================================================================
