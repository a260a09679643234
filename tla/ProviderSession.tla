-------------------------- MODULE ProviderSession --------------------------
(***************************************************************************)
(* One provider extension: its ProviderProcessSupervisor (src/               *)
(* provider_runtime) and the session ProviderExtensionManager keeps for it.  *)
(* The provider process and Qt's QProcess and QLocalSocket are external: a    *)
(* process may start or fail to, handshake, answer, misbehave, hang up, exit  *)
(* or crash whenever it likes.                                              *)
(*                                                                         *)
(* Everything runs on the host's event loop, so a handler is a step.  A timer *)
(* holds the time it has left; time passes only when none is due.            *)
(***************************************************************************)
EXTENDS Naturals, Sequences, FiniteSets, Sublists

CONSTANTS
  Requests,                \* bound: the requests the host ever sends
  MaxOutstanding,          \* maximumOutstandingRequests
  RestartDelay,            \* after the first failure; doubled after the second
  TerminateDelay, KillDelay,
  StartupTimeout, RequestTimeout, CrashWindow

ASSUME DelaysAssumption ==
  /\ {RestartDelay, TerminateDelay, KillDelay, StartupTimeout, RequestTimeout,
      CrashWindow} \subseteq Nat \ {0}
  /\ TerminateDelay < KillDelay /\ KillDelay < RequestTimeout
ASSUME CapAssumption == MaxOutstanding \in Nat

VARIABLES
  process,       \* m_process.state()
  listening,     \* m_server.isListening()
  connected,     \* m_socket is a connected socket
  ready,         \* m_ready
  stopping,      \* m_stopping
  failed,        \* m_errorMessage is not empty
  startup,       \* m_startupTimer, 0 when due
  terminations, kills,   \* stop()'s single shots, by the time left
  stoppedPosts,  \* processStopped() emissions posted by stop()
  killed,        \* a signal the process cannot survive is on its way
  status,        \* of each request
  deadline,      \* the time left of each outstanding request
  crashTimes,    \* crashTimesUtc, as ages
  restarts,      \* the manager's restart single shots
  refused,       \* start() was refused, and no process is left
  suppressed,    \* runtimeError says that restarting is suppressed
  session,       \* "current", "retiring" or "released" by reconcile()
  culprit,       \* who made the process fail first (history)
  failures       \* processes that failed by their own doing, up to 3 (history)

processVars == <<process, listening, connected, killed>>
supervisorVars == <<ready, stopping, failed, startup, terminations, kills, stoppedPosts>>
requestVars == <<status, deadline>>
managerVars == <<crashTimes, restarts, refused, suppressed, session>>
history == <<culprit, failures>>
vars == <<processVars, supervisorVars, requestVars, managerVars, history>>

Off == StartupTimeout + 1    \* of a timer that is not active
Outstanding == {r \in Requests : status[r] = "outstanding"}

Init ==
  /\ process = "starting" /\ listening = TRUE
  /\ connected = FALSE /\ killed = FALSE
  /\ ready = FALSE /\ stopping = FALSE /\ failed = FALSE
  /\ startup = StartupTimeout
  /\ terminations = {} /\ kills = {} /\ stoppedPosts = 0
  /\ status = [r \in Requests |-> "unsent"]
  /\ deadline = [r \in Requests |-> 0]
  /\ crashTimes = <<>> /\ restarts = {} /\ suppressed = FALSE /\ refused = FALSE
  /\ session = "current"
  /\ culprit = "nobody" /\ failures = 0

-----------------------------------------------------------------------------
(* The first one to make a process fail is to blame for its end. *)
Blame(who) ==
  IF culprit # "nobody" THEN UNCHANGED history
  ELSE /\ culprit' = who
       /\ failures' = IF who = "provider" /\ failures < 3 THEN failures + 1 ELSE failures

(* stop(): ask for shutdown, then terminate, then kill; or, with no process   *)
(* left, post processStopped.  The shutdown request's own deadline is never   *)
(* reached: the kill comes first, and the end of the process clears it.      *)
StopTerminating(running) ==                           \* mutant of StopWhen
  /\ stopping' = TRUE
  /\ startup' = Off
  /\ terminations' = IF running THEN terminations \cup {TerminateDelay} ELSE terminations
  /\ stoppedPosts' = IF running THEN stoppedPosts ELSE stoppedPosts + 1
  /\ UNCHANGED kills

StopUnposted(running) ==                              \* mutant of StopWhen
  /\ stopping' = TRUE
  /\ startup' = Off
  /\ terminations' = IF running THEN terminations \cup {TerminateDelay} ELSE terminations
  /\ kills' = IF running THEN kills \cup {KillDelay} ELSE kills
  /\ UNCHANGED stoppedPosts

StopWhen(running) ==
  /\ stopping' = TRUE
  /\ startup' = Off
  /\ IF running
     THEN /\ terminations' = terminations \cup {TerminateDelay}
          /\ kills' = kills \cup {KillDelay}
          /\ UNCHANGED stoppedPosts
     ELSE /\ stoppedPosts' = stoppedPosts + 1
          /\ UNCHANGED <<terminations, kills>>

FailAndStop(running) == failed' = TRUE /\ StopWhen(running)

KeepStopState == UNCHANGED <<stopping, failed, startup, terminations, kills, stoppedPosts>>

(* processStopped as the manager hears it, with the error message set or not: *)
(* a failure of a current session is counted; a retiring one is released.    *)
Recent == Sublist(crashTimes, {i \in DOMAIN crashTimes : crashTimes[i] <= CrashWindow})

RestartAfterTwice(n) ==                               \* mutant of RestartAfter
  IF n = 1 THEN 2 * RestartDelay ELSE 4 * RestartDelay
(* of the first failure in the window, and of the second *)
RestartAfter(n) == IF n = 1 THEN RestartDelay ELSE 2 * RestartDelay

ProcessStopped(withError) ==
  LET counted == Append(Recent, 0)
      n == Len(counted)
  IN  \/ /\ session = "current" /\ withError
         /\ crashTimes' = counted
         /\ suppressed' = (suppressed \/ n >= 3)
         /\ restarts' = IF n >= 3 THEN restarts
                        ELSE restarts \cup {RestartAfter(n)}
         /\ UNCHANGED <<refused, session>>
      \/ session = "current" /\ ~withError /\ UNCHANGED managerVars
      \/ /\ session # "current"
         /\ session' = "released"
         /\ UNCHANGED <<crashTimes, restarts, refused, suppressed>>

-----------------------------------------------------------------------------
(* The provider process. *)

Launched ==
  /\ process = "starting"
  /\ process' = "running"
  /\ UNCHANGED <<listening, connected, killed, supervisorVars, requestVars, managerVars, history>>

(* QProcess::FailedToStart: there is no finished() signal to close the server. *)
(* Where the failure is signalled inside QProcess::start(), start() arms the   *)
(* startup timer after it.                                                 *)
FailsToStart ==
  /\ process = "starting"
  /\ process' = "none"
  /\ killed' = FALSE
  /\ \/ stopping /\ KeepStopState
     \/ ~stopping /\ FailAndStop(FALSE)
     \/ /\ ~stopping
        /\ failed' = TRUE /\ stopping' = TRUE
        /\ stoppedPosts' = stoppedPosts + 1
        /\ UNCHANGED <<startup, terminations, kills>>
  /\ Blame("provider")
  /\ UNCHANGED <<listening, connected, ready, requestVars, managerVars>>

Connects ==
  /\ process = "running" /\ listening /\ ~connected
  /\ connected' = TRUE
  /\ UNCHANGED <<process, listening, killed, supervisorVars, requestVars, managerVars, history>>

SaysHello ==
  /\ process = "running" /\ connected /\ ~ready
  /\ ready' = TRUE
  /\ startup' = Off
  /\ UNCHANGED <<processVars, stopping, failed, terminations, kills, stoppedPosts,
                 requestVars, managerVars, history>>

(* A frame, protocol version or handshake the host does not accept. *)
Misbehaves ==
  /\ process = "running" /\ connected
  /\ FailAndStop(TRUE)
  /\ Blame("provider")
  /\ UNCHANGED <<processVars, ready, requestVars, managerVars>>

(* An unexpected message, or a response to a request that is not outstanding: *)
(* the error is shown, the process goes on.                                 *)
Confuses ==
  /\ process = "running" /\ connected /\ ready
  /\ failed' = TRUE
  /\ UNCHANGED <<processVars, ready, stopping, startup, terminations, kills, stoppedPosts,
                 requestVars, managerVars, history>>

HangsUp ==
  /\ process = "running" /\ connected
  /\ connected' = FALSE
  /\ IF stopping THEN KeepStopState ELSE FailAndStop(TRUE)
  /\ IF stopping THEN UNCHANGED history ELSE Blame("provider")
  /\ UNCHANGED <<process, listening, killed, ready, requestVars, managerVars>>

(* The process ends, and its state is NotRunning from then on.  A crash is first *)
(* reported as an error, whose stop() finds no process.  Then finished() aborts   *)
(* the socket, whose disconnected() does the same where no error came before,     *)
(* closes the server and forgets the outstanding requests.                   *)
ClearedButRequests ==                                 \* mutant of Cleared
  /\ process' = "none" /\ listening' = FALSE /\ connected' = FALSE /\ killed' = FALSE
  /\ ready' = FALSE
  /\ UNCHANGED requestVars

Cleared ==
  /\ process' = "none" /\ listening' = FALSE /\ connected' = FALSE /\ killed' = FALSE
  /\ ready' = FALSE
  /\ status' = [r \in Requests |-> IF r \in Outstanding THEN "dropped" ELSE status[r]]
  /\ deadline' = [r \in Requests |-> 0]

Gone ==
  /\ Cleared
  /\ IF stopping THEN UNCHANGED history ELSE Blame("provider")

Crashes ==
  /\ process = "running"
  /\ IF stopping THEN KeepStopState ELSE FailAndStop(FALSE)
  /\ Gone
  /\ ProcessStopped(failed')

Exits ==
  /\ process = "running"
  /\ IF stopping \/ ~connected THEN KeepStopState ELSE FailAndStop(FALSE)
  /\ Gone
  /\ ProcessStopped(failed')

Provider ==
  Launched \/ FailsToStart \/ Connects \/ SaysHello \/ Misbehaves \/ Confuses \/ HangsUp
  \/ Crashes \/ Exits

-----------------------------------------------------------------------------
(* Requests. *)

SendRequest(r) ==
  /\ session = "current" /\ ready /\ connected
  /\ status[r] = "unsent" /\ Cardinality(Outstanding) < MaxOutstanding
  /\ status' = [status EXCEPT ![r] = "outstanding"]
  /\ deadline' = [deadline EXCEPT ![r] = RequestTimeout]
  /\ UNCHANGED <<processVars, supervisorVars, managerVars, history>>

(* cancel(): the provider is told by a request of its own, when one can be    *)
(* sent.                                                                   *)
Cancel(r) ==
  /\ session = "current" /\ ready /\ r \in Outstanding
  /\ \/ \E c \in Requests :
          /\ connected /\ status[c] = "unsent"
          /\ status' = [status EXCEPT ![r] = "cancelled", ![c] = "outstanding"]
          /\ deadline' = [deadline EXCEPT ![r] = 0, ![c] = RequestTimeout]
     \/ /\ ~connected
        /\ status' = [status EXCEPT ![r] = "cancelled"]
        /\ deadline' = [deadline EXCEPT ![r] = 0]
  /\ UNCHANGED <<processVars, supervisorVars, managerVars, history>>

Answers(r) ==
  /\ process = "running" /\ connected /\ ready /\ r \in Outstanding
  /\ status' = [status EXCEPT ![r] = "answered"]
  /\ deadline' = [deadline EXCEPT ![r] = 0]
  /\ UNCHANGED <<processVars, supervisorVars, managerVars, history>>

(* The request's 20 seconds are over. *)
Expires(r) ==
  /\ r \in Outstanding /\ deadline[r] = 0
  /\ status' = [status EXCEPT ![r] = "timed out"]
  /\ FailAndStop(process # "none")
  /\ Blame("provider")
  /\ UNCHANGED <<processVars, ready, deadline, managerVars>>
-----------------------------------------------------------------------------
(* Timers of the supervisor, which end with it, and of the manager. *)
Held == session # "released"

StartupExpires ==
  /\ Held /\ startup = 0
  /\ FailAndStop(process # "none")
  /\ Blame("provider")
  /\ UNCHANGED <<processVars, ready, requestVars, managerVars>>

(* A process may survive terminate(), never kill().  Neither single shot asks *)
(* whether the process it finds is the one stop() was called for.            *)
Terminates ==
  /\ Held /\ 0 \in terminations
  /\ terminations' = terminations \ {0}
  /\ \/ process # "none" /\ killed' = TRUE /\ Blame("host")
     \/ UNCHANGED <<killed, history>>
  /\ UNCHANGED <<process, listening, connected, ready, stopping, failed, startup, kills,
                 stoppedPosts, requestVars, managerVars>>

Kills ==
  /\ Held /\ 0 \in kills
  /\ kills' = kills \ {0}
  /\ IF process # "none" THEN killed' = TRUE /\ Blame("host")
                         ELSE UNCHANGED <<killed, history>>
  /\ UNCHANGED <<process, listening, connected, ready, stopping, failed, startup,
                 terminations, stoppedPosts, requestVars, managerVars>>

(* The destructor of a released supervisor ends a process that is left. *)
StoppedPost ==
  /\ Held /\ stoppedPosts > 0
  /\ stoppedPosts' = stoppedPosts - 1
  /\ ProcessStopped(failed)
  /\ IF session = "current" THEN UNCHANGED <<processVars, ready, requestVars>> ELSE Cleared
  /\ UNCHANGED <<stopping, failed, startup, terminations, kills, history>>

(* start(): refused while a process or its server is left, and when the      *)
(* executable or the server cannot be had.                                  *)
Start ==
  \/ /\ process = "none" /\ ~listening
     /\ process' = "starting" /\ listening' = TRUE
     /\ ready' = FALSE /\ stopping' = FALSE /\ failed' = FALSE
     /\ startup' = StartupTimeout
     /\ culprit' = "nobody"
     /\ refused' = FALSE
     /\ UNCHANGED <<connected, killed, terminations, kills, stoppedPosts, requestVars, failures>>
  \/ /\ failed' = TRUE
     /\ stopping' \in IF process = "none" /\ ~listening THEN {stopping, FALSE} ELSE {stopping}
     /\ refused' = (process = "none")
     /\ UNCHANGED <<processVars, ready, startup, terminations, kills, stoppedPosts,
                    requestVars, history>>

RestartDue ==
  /\ 0 \in restarts
  /\ restarts' = restarts \ {0}
  /\ \/ session = "current" /\ Start
     \/ /\ session # "current"
        /\ UNCHANGED <<processVars, supervisorVars, requestVars, refused, history>>
  /\ UNCHANGED <<crashTimes, suppressed, session>>

(* reconcile(): the session's supervisor is stopped, and kept until it has.  *)
RetireUnstopped ==                                    \* mutant of Retire
  /\ session = "current"
  /\ session' = "retiring"
  /\ UNCHANGED <<processVars, supervisorVars, requestVars, crashTimes, restarts, refused,
                 suppressed, history>>

Retire ==
  /\ session = "current"
  /\ session' = "retiring"
  /\ StopWhen(process # "none")
  /\ UNCHANGED <<processVars, ready, failed, requestVars, crashTimes, restarts, refused,
                 suppressed, history>>

(* Time passes once everything due has happened and the launch of a process  *)
(* has come out one way or the other; crash times older than the window are   *)
(* all alike.                                                              *)
NothingDue ==
  /\ process # "starting"
  /\ startup # 0 /\ stoppedPosts = 0 /\ ~killed
  /\ 0 \notin terminations \cup kills \cup restarts
  /\ \A r \in Outstanding : deadline[r] > 0

Sooner(timers) == {t - 1 : t \in timers}

Tick ==
  /\ Held /\ NothingDue
  /\ startup' = IF startup = Off THEN Off ELSE startup - 1
  /\ terminations' = Sooner(terminations) /\ kills' = Sooner(kills)
  /\ restarts' = Sooner(restarts)
  /\ deadline' = [r \in Requests |-> IF r \in Outstanding THEN deadline[r] - 1 ELSE 0]
  /\ crashTimes' = [i \in DOMAIN crashTimes |->
                      IF crashTimes[i] <= CrashWindow THEN crashTimes[i] + 1 ELSE crashTimes[i]]
  /\ UNCHANGED <<processVars, ready, stopping, failed, stoppedPosts, status, refused,
                 suppressed, session, history>>

Due ==
  StartupExpires \/ Terminates \/ Kills \/ StoppedPost \/ RestartDue \/ \E r \in Requests : Expires(r)

Next ==
  \/ Provider \/ Due \/ Tick \/ Retire
  \/ \E r \in Requests : SendRequest(r) \/ Cancel(r) \/ Answers(r)

(* Time passes, what is due happens, and a process that was sent a deadly     *)
(* signal dies.  The provider owes the host nothing.                        *)
Fairness ==
  /\ WF_vars(Tick)
  /\ WF_vars(Due)
  /\ WF_vars(Launched \/ (killed /\ Crashes))

Spec == Init /\ [][Next]_vars /\ Fairness

-----------------------------------------------------------------------------
TypeOK ==
  /\ process \in {"none", "starting", "running"}
  /\ {listening, connected, killed, ready, stopping, failed, refused, suppressed} \subseteq BOOLEAN
  /\ startup \in 0 .. Off
  /\ terminations \subseteq 0 .. TerminateDelay /\ kills \subseteq 0 .. KillDelay
  /\ stoppedPosts \in Nat
  /\ status \in [Requests -> {"unsent", "outstanding", "answered", "timed out", "cancelled",
                              "dropped"}]
  /\ deadline \in [Requests -> 0 .. RequestTimeout]
  /\ crashTimes \in Seq(0 .. CrashWindow + 1)
  /\ restarts \subseteq 0 .. 2 * RestartDelay
  /\ session \in {"current", "retiring", "released"}
  /\ culprit \in {"nobody", "provider", "host"} /\ failures \in 0 .. 3

(* Cancelling, which sends a request of its own, stays within the cap.       *)
OutstandingBounded == Cardinality(Outstanding) <= MaxOutstanding

(* The deadline of a request never stops a process that was not sent it:     *)
(* only the process that runs has outstanding requests, and only through a    *)
(* handshake that disarmed the startup timer; there are never too many.      *)
RequestsOfThisProcess ==
  /\ OutstandingBounded
  /\ Outstanding # {} => ready
  /\ ready => process = "running" /\ startup = Off

(* A process that stop() was called for ends, even one that ignores shutdown *)
(* and survives terminate().                                                *)
StopEndsProcess == stopping /\ process # "none" ~> process = "none"

(* A session whose process has ended starts another, or says that it is      *)
(* suppressed; unless the manager gave it up or start() was refused, it does  *)
(* not stay dead without a word.                                            *)
NeverSilentlyDead ==
  process = "none" ~> process # "none" \/ suppressed \/ refused \/ session # "current"

(* A supervisor that retires with its process is destroyed in the end.  (One  *)
(* whose process fails to start after stop() hears nothing more of it.)      *)
RetiredIsReleased == session = "retiring" /\ process = "running" ~> session = "released"

(* "suppresses crash loops after three failures" (docs/provider-protocol.md:51): *)
(* not before three processes have failed by their own doing.  This is about the  *)
(* processStopped that stop() posts beside the one that finished() emits.       *)
SuppressedAfterThree == suppressed => failures = 3

(* "The host applies a 20-second request deadline"                          *)
(* (docs/provider-protocol.md:50): every request is answered, timed out or    *)
(* cancelled; none is forgotten.                                           *)
DeadlineApplies == \A r \in Requests : status[r] # "dropped"
=============================================================================
