----------------------- MODULE ProviderSessionProofs ------------------------
(*****************************************************************************)
(* The requests that are outstanding were sent to the process that runs, there*)
(* are never too many, and every timer stays within its delay, for any delays, any*)
(* cap and any number of requests, and however Qt reports the end of a process.*)
(*****************************************************************************)
EXTENDS ProviderSession, SublistsProofs

USE CapAssumption

Statuses == {"unsent", "outstanding", "answered", "timed out", "cancelled", "dropped"}

(* RequestsOfThisProcess is inductive once the outstanding requests can be counted. *)
SessionInv ==
  /\ status \in [Requests -> Statuses]
  /\ IsFiniteSet(Outstanding)
  /\ RequestsOfThisProcess

-----------------------------------------------------------------------------
(* What a step may do to the requests. *)

(* It leaves them alone, and the process they were sent to. *)
LEMMA SameRequests ==
  ASSUME SessionInv, UNCHANGED <<status, ready>>,
         ready => process' = "running" /\ startup' = Off
  PROVE  SessionInv'
  BY DEF SessionInv, RequestsOfThisProcess, OutstandingBounded, Outstanding, Off

(* It forgets them all, with the process. *)
LEMMA NoRequests ==
  ASSUME SessionInv, Cleared
  PROVE  SessionInv'
<1>1. status' \in [Requests -> Statuses] /\ Outstanding' = {} /\ ready' = FALSE
  BY DEF SessionInv, Cleared, Outstanding, Statuses
<1>2. IsFiniteSet({}) /\ Cardinality({}) = 0
  BY FS_EmptySet
<1> QED
  BY <1>1, <1>2 DEF SessionInv, RequestsOfThisProcess, OutstandingBounded

(* It settles one of them. *)
LEMMA OneRequestLess ==
  ASSUME SessionInv, NEW r \in Outstanding, NEW end \in Statuses \ {"outstanding"},
         status' = [status EXCEPT ![r] = end],
         UNCHANGED <<process, ready>>, startup' \in {startup, Off}
  PROVE  SessionInv'
<1>1. status' \in [Requests -> Statuses] /\ Outstanding' = Outstanding \ {r}
  BY DEF SessionInv, Outstanding, Statuses
<1>2. /\ IsFiniteSet(Outstanding \ {r})
      /\ Cardinality(Outstanding \ {r}) = Cardinality(Outstanding) - 1
      /\ Cardinality(Outstanding) \in Nat
  BY FS_RemoveElement, FS_CardinalityType DEF SessionInv
<1>3. OutstandingBounded'
  BY <1>1, <1>2 DEF SessionInv, RequestsOfThisProcess, OutstandingBounded
<1> QED
  BY <1>1, <1>2, <1>3 DEF SessionInv, RequestsOfThisProcess, Off

(* The calls of the gateway keep the requests with their process, *)
LEMMA UserStep ==
  ASSUME SessionInv, NEW r \in Requests, SendRequest(r) \/ Cancel(r) \/ Answers(r)
  PROVE  SessionInv'
<1>1. CASE SendRequest(r)
  <2>1. status' \in [Requests -> Statuses] /\ Outstanding' = Outstanding \cup {r} /\ r \notin Outstanding
    BY <1>1 DEF SendRequest, SessionInv, Outstanding, Statuses
  <2>2. /\ IsFiniteSet(Outstanding \cup {r})
        /\ Cardinality(Outstanding \cup {r}) = Cardinality(Outstanding) + 1
        /\ Cardinality(Outstanding) \in Nat
    BY <2>1, FS_AddElement, FS_CardinalityType DEF SessionInv
  <2>3. OutstandingBounded'
    BY <1>1, <2>1, <2>2 DEF SendRequest, OutstandingBounded
  <2>4. ready /\ UNCHANGED <<process, ready, startup>>
    BY <1>1 DEF SendRequest, processVars, supervisorVars
  <2> QED
    BY <2>1, <2>2, <2>3, <2>4 DEF SessionInv, RequestsOfThisProcess, Off
<1>2. CASE Cancel(r)
  <2>1. r \in Outstanding /\ UNCHANGED <<process, ready, startup>> /\ ready
    BY <1>2 DEF Cancel, processVars, supervisorVars
  <2>2. CASE status' = [status EXCEPT ![r] = "cancelled"]
    BY <2>1, <2>2, OneRequestLess DEF Statuses
  <2>3. ASSUME NEW c \in Requests, status[c] = "unsent",
               status' = [status EXCEPT ![r] = "cancelled", ![c] = "outstanding"]
        PROVE  SessionInv'
    <3>1. /\ status' \in [Requests -> Statuses]
          /\ Outstanding' = (Outstanding \ {r}) \cup {c} /\ c \notin Outstanding \ {r}
      BY <2>1, <2>3 DEF SessionInv, Outstanding, Statuses
    <3>2. /\ IsFiniteSet(Outstanding \ {r}) /\ Cardinality(Outstanding) \in Nat
          /\ Cardinality(Outstanding \ {r}) = Cardinality(Outstanding) - 1
      BY <2>1, FS_RemoveElement, FS_CardinalityType DEF SessionInv
    <3>3. /\ IsFiniteSet((Outstanding \ {r}) \cup {c})
          /\ Cardinality((Outstanding \ {r}) \cup {c}) = Cardinality(Outstanding \ {r}) + 1
      BY <3>1, <3>2, FS_AddElement
    <3>4. OutstandingBounded'
      BY <3>1, <3>2, <3>3 DEF SessionInv, RequestsOfThisProcess, OutstandingBounded
    <3> QED
      BY <2>1, <3>1, <3>3, <3>4 DEF SessionInv, RequestsOfThisProcess, Off
  <2> QED
    BY <1>2, <2>2, <2>3 DEF Cancel
<1>3. CASE Answers(r)
  BY <1>3, OneRequestLess DEF Answers, processVars, supervisorVars, Statuses
<1> QED
  BY <1>1, <1>2, <1>3

(* as do the messages and the death of the process *)
LEMMA ProviderStep ==
  ASSUME SessionInv, Provider
  PROVE  SessionInv'
<1>1. ready => process = "running" /\ startup = Off
  BY DEF SessionInv, RequestsOfThisProcess
<1>2. CASE Launched
  BY <1>1, <1>2, SameRequests DEF Launched, supervisorVars, requestVars
<1>3. CASE FailsToStart
  BY <1>1, <1>3, SameRequests DEF FailsToStart, requestVars
<1>4. CASE Connects
  BY <1>1, <1>4, SameRequests DEF Connects, supervisorVars, requestVars
<1>5. CASE SaysHello
  <2>1. ready' = TRUE /\ UNCHANGED <<process, status>> /\ process = "running" /\ startup' = Off
    BY <1>5 DEF SaysHello, processVars, requestVars
  <2> QED
    BY <2>1 DEF SessionInv, RequestsOfThisProcess, OutstandingBounded, Outstanding, Off
<1>6. CASE Misbehaves
  BY <1>1, <1>6, SameRequests DEF Misbehaves, FailAndStop, StopWhen, processVars, requestVars
<1>7. CASE Confuses
  BY <1>1, <1>7, SameRequests DEF Confuses, processVars, requestVars
<1>8. CASE HangsUp
  BY <1>1, <1>8, SameRequests DEF HangsUp, FailAndStop, StopWhen, KeepStopState, requestVars
<1>9. CASE Crashes \/ Exits
  BY <1>9, NoRequests DEF Crashes, Exits, Gone
<1> QED
  BY <1>2, <1>3, <1>4, <1>5, <1>6, <1>7, <1>8, <1>9 DEF Provider

(* and the timers of the host. *)
LEMMA TimerStep ==
  ASSUME SessionInv, Due \/ Tick \/ Retire
  PROVE  SessionInv'
<1>1. ready => process = "running" /\ startup = Off
  BY DEF SessionInv, RequestsOfThisProcess
<1>2. CASE StartupExpires
  BY <1>1, <1>2, SameRequests DEF StartupExpires, FailAndStop, StopWhen, processVars, requestVars
<1>3. CASE Terminates \/ Kills
  BY <1>1, <1>3, SameRequests DEF Terminates, Kills, requestVars
<1>4. CASE StoppedPost
  BY <1>1, <1>4, SameRequests, NoRequests DEF StoppedPost, processVars, requestVars
<1>5. CASE RestartDue
  <2>1. CASE session = "current" /\ Start
    <3>1. CASE process = "none" /\ status' = status /\ ready' = FALSE
      <4>1. ready => FALSE
        BY <1>1, <3>1
      <4>2. Outstanding = {}
        BY <4>1 DEF SessionInv, RequestsOfThisProcess
      <4> QED
        BY <3>1, <4>2 DEF SessionInv, RequestsOfThisProcess, OutstandingBounded, Outstanding
    <3>2. CASE UNCHANGED <<process, status, ready, startup>>
      BY <1>1, <3>2, SameRequests
    <3> QED
      BY <2>1, <3>1, <3>2 DEF Start, processVars, requestVars
  <2>2. CASE UNCHANGED <<processVars, supervisorVars, requestVars>>
    BY <1>1, <2>2, SameRequests DEF processVars, supervisorVars, requestVars
  <2> QED
    BY <1>5, <2>1, <2>2 DEF RestartDue
<1>6. ASSUME NEW r \in Requests, Expires(r)
      PROVE  SessionInv'
  BY <1>6, OneRequestLess DEF Expires, FailAndStop, StopWhen, processVars, Statuses
<1>7. CASE Tick
  BY <1>1, <1>7, SameRequests DEF Tick, processVars
<1>8. CASE Retire
  BY <1>1, <1>8, SameRequests DEF Retire, StopWhen, processVars, requestVars
<1> QED
  BY <1>2, <1>3, <1>4, <1>5, <1>6, <1>7, <1>8 DEF Due

(* RequestsStayWithProcess.  Only the process that runs, and has said hello, has        *)
(* outstanding requests, and never more than the cap.                               *)
THEOREM RequestsStayWithProcess == Spec => []RequestsOfThisProcess
<1>1. Init => SessionInv
  <2> SUFFICES ASSUME Init
               PROVE  SessionInv
    OBVIOUS
  <2>1. status \in [Requests -> Statuses] /\ Outstanding = {} /\ ready = FALSE
    BY DEF Init, Outstanding, Statuses
  <2>2. IsFiniteSet({}) /\ Cardinality({}) = 0
    BY FS_EmptySet
  <2> QED
    BY <2>1, <2>2 DEF SessionInv, RequestsOfThisProcess, OutstandingBounded
<1>2. SessionInv /\ [Next]_vars => SessionInv'
  <2> SUFFICES ASSUME SessionInv, [Next]_vars
               PROVE  SessionInv'
    OBVIOUS
  <2>1. CASE UNCHANGED vars
    BY <2>1, SameRequests DEF vars, processVars, supervisorVars, requestVars, SessionInv,
      RequestsOfThisProcess
  <2> QED
    BY <2>1, UserStep, ProviderStep, TimerStep DEF Next
<1>3. SessionInv => RequestsOfThisProcess
  BY DEF SessionInv
<1> QED
  BY <1>1, <1>2, <1>3, PTL DEF Spec

HIDE CapAssumption

-----------------------------------------------------------------------------
(* Types, and with them the bounds of every timer *)

(***************************************************************************)
(* Types, and with them the bounds of every timer.                           *)
(***************************************************************************)

DelaysAreNumbers ==
  /\ RestartDelay \in Nat /\ RestartDelay > 0 /\ TerminateDelay \in Nat /\ TerminateDelay > 0
  /\ KillDelay \in Nat /\ KillDelay > 0 /\ StartupTimeout \in Nat /\ StartupTimeout > 0
  /\ RequestTimeout \in Nat /\ RequestTimeout > 0 /\ CrashWindow \in Nat /\ CrashWindow > 0
LEMMA Delays == DelaysAreNumbers
  BY DelaysAssumption DEF DelaysAreNumbers
USE Delays DEF DelaysAreNumbers

ProcessOK ==
  /\ process \in {"none", "starting", "running"}
  /\ listening \in BOOLEAN /\ connected \in BOOLEAN /\ killed \in BOOLEAN

SupervisorOK ==
  /\ ready \in BOOLEAN /\ stopping \in BOOLEAN /\ failed \in BOOLEAN
  /\ startup \in 0 .. Off
  /\ terminations \subseteq 0 .. TerminateDelay /\ kills \subseteq 0 .. KillDelay
  /\ stoppedPosts \in Nat

RequestsOK == status \in [Requests -> Statuses] /\ deadline \in [Requests -> 0 .. RequestTimeout]

ManagerOK ==
  /\ refused \in BOOLEAN /\ suppressed \in BOOLEAN
  /\ crashTimes \in Seq(0 .. CrashWindow + 1)
  /\ restarts \subseteq 0 .. 2 * RestartDelay
  /\ session \in {"current", "retiring", "released"}

HistoryOK == culprit \in {"nobody", "provider", "host"} /\ failures \in 0 .. 3

LEMMA TypeParts == TypeOK <=> ProcessOK /\ SupervisorOK /\ RequestsOK /\ ManagerOK /\ HistoryOK
  BY DEF TypeOK, ProcessOK, SupervisorOK, RequestsOK, ManagerOK, HistoryOK, Statuses

LEMMA PartsNext ==
  ASSUME ProcessOK', SupervisorOK', RequestsOK', ManagerOK', HistoryOK' PROVE TypeOK'
  BY DEF TypeOK, ProcessOK, SupervisorOK, RequestsOK, ManagerOK, HistoryOK, Statuses

LEMMA TimersOK ==
  /\ StartupTimeout \in 0 .. Off /\ Off \in 0 .. Off
  /\ TerminateDelay \in 0 .. TerminateDelay /\ KillDelay \in 0 .. KillDelay
  /\ 0 \in 0 .. RequestTimeout /\ RequestTimeout \in 0 .. RequestTimeout
  BY DEF Off

LEMMA ProcessSame == ASSUME ProcessOK, UNCHANGED processVars PROVE ProcessOK'
  BY DEF ProcessOK, processVars
LEMMA SupervisorSame == ASSUME SupervisorOK, UNCHANGED supervisorVars PROVE SupervisorOK'
  BY DEF SupervisorOK, supervisorVars, Off
LEMMA RequestsSame == ASSUME RequestsOK, UNCHANGED requestVars PROVE RequestsOK'
  BY DEF RequestsOK, requestVars
LEMMA ManagerSame == ASSUME ManagerOK, UNCHANGED managerVars PROVE ManagerOK'
  BY DEF ManagerOK, managerVars
LEMMA HistorySame == ASSUME HistoryOK, UNCHANGED history PROVE HistoryOK'
  BY DEF HistoryOK, history

LEMMA BlameOK == ASSUME HistoryOK, NEW who \in {"provider", "host"}, Blame(who) PROVE HistoryOK'
  BY DEF HistoryOK, Blame, history

LEMMA StopOK ==
  ASSUME SupervisorOK, NEW running, StopWhen(running), UNCHANGED ready, failed' \in BOOLEAN
  PROVE  SupervisorOK'
<1>1. startup' = Off /\ stopping' = TRUE
  BY DEF StopWhen
<1>2. terminations' \subseteq 0 .. TerminateDelay /\ kills' \subseteq 0 .. KillDelay
  <2>1. terminations \subseteq 0 .. TerminateDelay /\ kills \subseteq 0 .. KillDelay
    BY DEF SupervisorOK
  <2>2. terminations' \subseteq terminations \cup {TerminateDelay} /\ kills' \subseteq kills \cup {KillDelay}
    BY DEF StopWhen
  <2> QED BY <2>1, <2>2, TimersOK
<1>3. stoppedPosts' \in Nat
  BY DEF StopWhen, SupervisorOK
<1> QED BY <1>1, <1>2, <1>3, TimersOK DEF SupervisorOK

LEMMA ClearedOK == ASSUME ProcessOK, RequestsOK, Cleared PROVE ProcessOK' /\ RequestsOK'
<1>1. ProcessOK'
  BY DEF ProcessOK, Cleared
<1>2. \A r \in Requests : status[r] \in Statuses /\ "dropped" \in Statuses
  BY DEF RequestsOK, Statuses
<1>3. status' \in [Requests -> Statuses]
  BY <1>2 DEF Cleared
<1>4. deadline' \in [Requests -> 0 .. RequestTimeout]
  BY TimersOK DEF Cleared
<1> QED BY <1>1, <1>3, <1>4 DEF RequestsOK

LEMMA RecentOK == ASSUME ManagerOK PROVE Recent \in Seq(0 .. CrashWindow + 1)
<1>1. crashTimes \in Seq(0 .. CrashWindow + 1) /\ DOMAIN crashTimes = 1..Len(crashTimes)
  BY DEF ManagerOK
<1>2. {i \in DOMAIN crashTimes : crashTimes[i] <= CrashWindow} \in SUBSET (1..Len(crashTimes))
  BY <1>1
<1> QED BY <1>1, <1>2, SublistProperties DEF Recent

LEMMA StoppedOK ==
  ASSUME ManagerOK, NEW withError, ProcessStopped(withError) PROVE ManagerOK'
<1>1. CASE /\ crashTimes' = Append(Recent, 0)
           /\ suppressed' = (suppressed \/ Len(Append(Recent, 0)) >= 3)
           /\ restarts' = IF Len(Append(Recent, 0)) >= 3 THEN restarts
                          ELSE restarts \cup {RestartAfter(Len(Append(Recent, 0)))}
           /\ UNCHANGED <<refused, session>>
  <2>1. PICK recent : recent = Recent
    OBVIOUS
  <2>2. recent \in Seq(0 .. CrashWindow + 1) /\ 0 \in 0 .. CrashWindow + 1
    BY <2>1, RecentOK
  <2>3. /\ Append(recent, 0) \in Seq(0 .. CrashWindow + 1)
        /\ Len(Append(recent, 0)) = Len(recent) + 1 /\ Len(recent) \in Nat
    BY <2>2
  <2>4. restarts' \subseteq 0 .. 2 * RestartDelay
    <3>1. \A n : RestartAfter(n) \in 0 .. 2 * RestartDelay
      BY DEF RestartAfter
    <3> QED BY <1>1, <3>1 DEF ManagerOK
  <2>5. suppressed' \in BOOLEAN
    BY <1>1
  <2> QED BY <1>1, <2>1, <2>3, <2>4, <2>5 DEF ManagerOK
<1>2. CASE UNCHANGED managerVars
  BY <1>2, ManagerSame
<1>3. CASE session' = "released" /\ UNCHANGED <<crashTimes, restarts, refused, suppressed>>
  BY <1>3 DEF ManagerOK
<1> QED BY <1>1, <1>2, <1>3 DEF ProcessStopped

LEMMA KeptOrStopped ==
  ASSUME SupervisorOK, UNCHANGED ready,
         KeepStopState \/ \E running : FailAndStop(running)
  PROVE  SupervisorOK'
<1>1. CASE KeepStopState
  BY <1>1, SupervisorSame DEF KeepStopState, supervisorVars
<1>2. ASSUME NEW running, FailAndStop(running) PROVE SupervisorOK'
  BY <1>2, StopOK DEF FailAndStop
<1> QED BY <1>1, <1>2

(* A process that is gone, with ready' = FALSE *)
LEMMA NotReadyOK ==
  ASSUME SupervisorOK, ready' = FALSE,
         KeepStopState \/ \E running : FailAndStop(running)
  PROVE  SupervisorOK'
<1>1. CASE KeepStopState
  BY <1>1 DEF SupervisorOK, KeepStopState, Off
<1>2. ASSUME NEW running, FailAndStop(running) PROVE SupervisorOK'
  <2>1. startup' = Off /\ stopping' = TRUE /\ failed' = TRUE
    BY <1>2 DEF FailAndStop, StopWhen
  <2>2. terminations' \subseteq 0 .. TerminateDelay /\ kills' \subseteq 0 .. KillDelay
    <3>1. terminations \subseteq 0 .. TerminateDelay /\ kills \subseteq 0 .. KillDelay
      BY DEF SupervisorOK
    <3>2. terminations' \subseteq terminations \cup {TerminateDelay} /\ kills' \subseteq kills \cup {KillDelay}
      BY <1>2 DEF FailAndStop, StopWhen
    <3> QED BY <3>1, <3>2, TimersOK
  <2>3. stoppedPosts' \in Nat
    BY <1>2 DEF FailAndStop, StopWhen, SupervisorOK
  <2> QED BY <2>1, <2>2, <2>3, TimersOK DEF SupervisorOK
<1> QED BY <1>1, <1>2

LEMMA ProviderTypes == ASSUME TypeOK, Provider PROVE TypeOK'
<1> USE TypeParts, PartsNext
<1>1. CASE Launched
  BY <1>1, SupervisorSame, RequestsSame, ManagerSame, HistorySame DEF Launched, ProcessOK
<1>2. CASE FailsToStart
  <2>1. ProcessOK'
    BY <1>2 DEF FailsToStart, ProcessOK
  <2>2. SupervisorOK'
    <3>1. CASE KeepStopState \/ FailAndStop(FALSE)
      BY <1>2, <3>1, KeptOrStopped DEF FailsToStart
    <3>2. CASE /\ failed' = TRUE /\ stopping' = TRUE /\ stoppedPosts' = stoppedPosts + 1
               /\ UNCHANGED <<startup, terminations, kills>>
      BY <1>2, <3>2 DEF FailsToStart, SupervisorOK, Off
    <3> QED BY <1>2, <3>1, <3>2 DEF FailsToStart
  <2> QED BY <1>2, <2>1, <2>2, RequestsSame, ManagerSame, BlameOK DEF FailsToStart
<1>3. CASE Connects
  BY <1>3, SupervisorSame, RequestsSame, ManagerSame, HistorySame DEF Connects, ProcessOK
<1>4. CASE SaysHello
  <2>1. SupervisorOK'
    BY <1>4 DEF SaysHello, SupervisorOK, Off
  <2> QED BY <1>4, <2>1, ProcessSame, RequestsSame, ManagerSame, HistorySame DEF SaysHello
<1>5. CASE Misbehaves
  BY <1>5, KeptOrStopped, ProcessSame, RequestsSame, ManagerSame, BlameOK DEF Misbehaves
<1>6. CASE Confuses
  <2>1. SupervisorOK'
    BY <1>6 DEF Confuses, SupervisorOK, Off
  <2> QED BY <1>6, <2>1, ProcessSame, RequestsSame, ManagerSame, HistorySame DEF Confuses
<1>7. CASE HangsUp
  <2>1. SupervisorOK'
    BY <1>7, KeptOrStopped DEF HangsUp
  <2>2. HistoryOK'
    BY <1>7, HistorySame, BlameOK DEF HangsUp
  <2>3. ProcessOK'
    BY <1>7 DEF HangsUp, ProcessOK
  <2> QED BY <1>7, <2>1, <2>2, <2>3, RequestsSame, ManagerSame DEF HangsUp
<1>8. CASE Crashes \/ Exits
  <2>1. Cleared /\ (KeepStopState \/ \E running : FailAndStop(running)) /\ ProcessStopped(failed')
    BY <1>8 DEF Crashes, Exits, Gone
  <2>2. HistoryOK'
    BY <1>8, HistorySame, BlameOK DEF Crashes, Exits, Gone
  <2>3. SupervisorOK'
    BY <2>1, NotReadyOK DEF Cleared
  <2> QED BY <2>1, <2>2, <2>3, ClearedOK, StoppedOK
<1> QED BY <1>1, <1>2, <1>3, <1>4, <1>5, <1>6, <1>7, <1>8 DEF Provider

LEMMA UserTypes ==
  ASSUME TypeOK, NEW r \in Requests, SendRequest(r) \/ Cancel(r) \/ Answers(r) PROVE TypeOK'
<1> USE TypeParts, PartsNext
<1>1. UNCHANGED <<processVars, supervisorVars, managerVars, history>>
  BY DEF SendRequest, Cancel, Answers
<1>2. RequestsOK'
  <2>1. {"outstanding", "cancelled", "answered"} \subseteq Statuses
    BY DEF Statuses
  <2>2. CASE SendRequest(r)
    BY <2>1, <2>2, TimersOK DEF SendRequest, RequestsOK
  <2>3. CASE Cancel(r)
    <3>1. CASE \E c \in Requests :
                 /\ connected /\ status[c] = "unsent"
                 /\ status' = [status EXCEPT ![r] = "cancelled", ![c] = "outstanding"]
                 /\ deadline' = [deadline EXCEPT ![r] = 0, ![c] = RequestTimeout]
      BY <2>1, <3>1, TimersOK DEF RequestsOK
    <3>2. CASE /\ status' = [status EXCEPT ![r] = "cancelled"]
               /\ deadline' = [deadline EXCEPT ![r] = 0]
      BY <2>1, <3>2, TimersOK DEF RequestsOK
    <3> QED BY <2>3, <3>1, <3>2 DEF Cancel
  <2>4. CASE Answers(r)
    BY <2>1, <2>4, TimersOK DEF Answers, RequestsOK
  <2> QED BY <2>2, <2>3, <2>4
<1> QED BY <1>1, <1>2, ProcessSame, SupervisorSame, ManagerSame, HistorySame

LEMMA SoonerOK ==
  ASSUME NEW n \in Nat, NEW timers, timers \subseteq 0 .. n, 0 \notin timers
  PROVE  Sooner(timers) \subseteq 0 .. n
  BY DEF Sooner

LEMMA TickTypes == ASSUME TypeOK, Tick PROVE TypeOK'
<1> USE TypeParts, PartsNext
<1>1. NothingDue /\ UNCHANGED <<processVars, ready, stopping, failed, stoppedPosts, status, refused,
                                suppressed, session, history>>
  BY DEF Tick
<1>2. SupervisorOK'
  <2>1. startup' \in 0 .. Off
    BY <1>1 DEF Tick, NothingDue, SupervisorOK, Off
  <2>2. 0 \notin terminations /\ 0 \notin kills
    BY <1>1 DEF NothingDue
  <2>3. terminations' \subseteq 0 .. TerminateDelay /\ kills' \subseteq 0 .. KillDelay
    BY <2>2, SoonerOK DEF Tick, SupervisorOK
  <2> QED BY <1>1, <2>1, <2>3 DEF SupervisorOK, Off
<1>3. RequestsOK'
  BY <1>1 DEF Tick, NothingDue, RequestsOK, Outstanding
<1>4. ManagerOK'
  <2>1. restarts' \subseteq 0 .. 2 * RestartDelay
    <3>1. 0 \notin restarts /\ 2 * RestartDelay \in Nat
      BY <1>1 DEF NothingDue
    <3> QED BY <3>1, SoonerOK DEF Tick, ManagerOK
  <2>2. crashTimes' \in Seq(0 .. CrashWindow + 1)
    <3>1. crashTimes \in Seq(0 .. CrashWindow + 1)
      BY DEF ManagerOK
    <3>2. /\ Len(crashTimes) \in Nat /\ DOMAIN crashTimes = 1 .. Len(crashTimes)
          /\ \A i \in 1 .. Len(crashTimes) : crashTimes[i] \in 0 .. CrashWindow + 1
      BY <3>1
    <3>3. \A i \in 1 .. Len(crashTimes) :
            (IF crashTimes[i] <= CrashWindow THEN crashTimes[i] + 1 ELSE crashTimes[i])
              \in 0 .. CrashWindow + 1
      BY <3>2
    <3> QED BY <3>2, <3>3 DEF Tick
  <2> QED BY <1>1, <2>1, <2>2 DEF ManagerOK
<1> QED BY <1>1, <1>2, <1>3, <1>4, ProcessSame, HistorySame

LEMMA StartTypes ==
  ASSUME ProcessOK, SupervisorOK, HistoryOK, refused \in BOOLEAN, Start
  PROVE  ProcessOK' /\ SupervisorOK' /\ HistoryOK' /\ refused' \in BOOLEAN
<1>1. CASE process' = "starting"
  <2>1. CASE UNCHANGED processVars
    BY <2>1, <1>1 DEF Start, ProcessOK, SupervisorOK, HistoryOK, Off, history, processVars
  <2>2. CASE /\ listening' = TRUE /\ ready' = FALSE /\ stopping' = FALSE /\ failed' = FALSE
             /\ startup' = StartupTimeout /\ culprit' = "nobody" /\ refused' = FALSE
             /\ UNCHANGED <<connected, killed, terminations, kills, stoppedPosts, requestVars, failures>>
    <3>1. ProcessOK'
      BY <1>1, <2>2 DEF ProcessOK
    <3>2. SupervisorOK'
      BY <2>2, TimersOK DEF SupervisorOK
    <3>3. HistoryOK'
      BY <2>2 DEF HistoryOK
    <3> QED BY <2>2, <3>1, <3>2, <3>3
  <2> QED BY <2>1, <2>2 DEF Start
<1>2. CASE UNCHANGED processVars
  BY <1>2 DEF Start, ProcessOK, SupervisorOK, HistoryOK, Off, history, processVars
<1> QED BY <1>1, <1>2 DEF Start

LEMMA DueTypes == ASSUME TypeOK, Due \/ Retire PROVE TypeOK'
<1> USE TypeParts, PartsNext
<1>1. CASE StartupExpires
  BY <1>1, KeptOrStopped, ProcessSame, RequestsSame, ManagerSame, BlameOK DEF StartupExpires
<1>2. CASE Terminates
  <2>1. ProcessOK' /\ SupervisorOK' /\ HistoryOK'
    BY <1>2, BlameOK, HistorySame DEF Terminates, ProcessOK, SupervisorOK, Off
  <2> QED BY <1>2, <2>1, RequestsSame, ManagerSame DEF Terminates
<1>3. CASE Kills
  <2>1. ProcessOK' /\ SupervisorOK' /\ HistoryOK'
    BY <1>3, BlameOK, HistorySame DEF Kills, ProcessOK, SupervisorOK, Off
  <2> QED BY <1>3, <2>1, RequestsSame, ManagerSame DEF Kills
<1>4. CASE StoppedPost
  <2>1. stoppedPosts' \in Nat
    BY <1>4 DEF StoppedPost, SupervisorOK
  <2>2. ProcessOK' /\ RequestsOK' /\ ready' \in BOOLEAN
    <3>1. CASE UNCHANGED <<processVars, ready, requestVars>>
      BY <3>1, ProcessSame, RequestsSame DEF SupervisorOK
    <3>2. CASE Cleared
      BY <3>2, ClearedOK DEF Cleared
    <3> QED BY <1>4, <3>1, <3>2 DEF StoppedPost
  <2>3. SupervisorOK'
    BY <1>4, <2>1, <2>2 DEF StoppedPost, SupervisorOK, Off
  <2> QED BY <1>4, <2>2, <2>3, StoppedOK, HistorySame DEF StoppedPost
<1>5. CASE RestartDue
  <2>1. ProcessOK' /\ SupervisorOK' /\ HistoryOK' /\ refused' \in BOOLEAN /\ RequestsOK'
    <3>1. CASE Start
      <4>1. UNCHANGED requestVars
        BY <3>1 DEF Start
      <4> QED BY <3>1, <4>1, StartTypes, RequestsSame DEF ManagerOK
    <3>2. CASE UNCHANGED <<processVars, supervisorVars, requestVars, refused, history>>
      BY <3>2, ProcessSame, SupervisorSame, RequestsSame, HistorySame DEF ManagerOK
    <3> QED BY <1>5, <3>1, <3>2 DEF RestartDue
  <2>2. ManagerOK'
    BY <1>5, <2>1 DEF RestartDue, ManagerOK
  <2> QED BY <2>1, <2>2
<1>6. ASSUME NEW r \in Requests, Expires(r) PROVE TypeOK'
  <2>1. RequestsOK'
    BY <1>6 DEF Expires, RequestsOK, Statuses
  <2>2. SupervisorOK'
    BY <1>6, KeptOrStopped DEF Expires
  <2> QED BY <1>6, <2>1, <2>2, ProcessSame, ManagerSame, BlameOK DEF Expires
<1>7. CASE Retire
  <2>1. SupervisorOK'
    BY <1>7, StopOK DEF Retire, SupervisorOK
  <2>2. ManagerOK'
    BY <1>7 DEF Retire, ManagerOK
  <2> QED BY <1>7, <2>1, <2>2, ProcessSame, RequestsSame, HistorySame DEF Retire
<1> QED BY <1>1, <1>2, <1>3, <1>4, <1>5, <1>6, <1>7 DEF Due

(* Every timer of the supervisor and the manager stays within the delay it was     *)
(* started with: no restart is put off beyond the second delay, whatever fails      *)
(* when (ProviderExtensionManager.cpp:175-209).                               *)
THEOREM SessionIsTyped == Spec => []TypeOK
<1>1. Init => TypeOK
  <2> SUFFICES ASSUME Init PROVE TypeOK
    OBVIOUS
  <2>1. ProcessOK /\ SupervisorOK
    BY TimersOK DEF Init, ProcessOK, SupervisorOK
  <2>2. RequestsOK
    BY TimersOK DEF Init, RequestsOK, Statuses
  <2>3. ManagerOK
    <3>1. crashTimes = <<>> /\ crashTimes \in Seq(0 .. CrashWindow + 1)
      BY DEF Init
    <3> QED BY <3>1 DEF Init, ManagerOK
  <2>4. HistoryOK
    BY DEF Init, HistoryOK
  <2> QED BY <2>1, <2>2, <2>3, <2>4, TypeParts
<1>2. TypeOK /\ [Next]_vars => TypeOK'
  <2> SUFFICES ASSUME TypeOK, [Next]_vars PROVE TypeOK'
    OBVIOUS
  <2>1. CASE UNCHANGED vars
    BY <2>1, TypeParts, PartsNext, ProcessSame, SupervisorSame, RequestsSame, ManagerSame, HistorySame DEF vars
  <2> QED BY <2>1, ProviderTypes, UserTypes, TickTypes, DueTypes DEF Next
<1> QED BY <1>1, <1>2, PTL DEF Spec

HIDE Delays
=============================================================================
