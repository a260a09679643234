---------------------------- MODULE ProviderLink ----------------------------
(***************************************************************************)
(* One connection between ProviderProcessSupervisor and a provider built with   *)
(* the C++ SDK (ProviderApplication): the handshake, the requests of both sides   *)
(* and how each side counts the ones that are outstanding.  The socket is a FIFO  *)
(* in each direction; ProtocolCodec is about its bytes.                         *)
(*                                                                         *)
(* A chunk of messages is handled one message after the other; here other events  *)
(* of the same side may come between them.  The ProviderService is external: it  *)
(* completes a request when it likes, cancelled or not, and maybe again.          *)
(***************************************************************************)
EXTENDS Naturals, Sequences, FiniteSets

CONSTANTS
  MaxInFlight,      \* maximumOutstandingRequests, of each side
  MaxHostIds,       \* bound: requests the supervisor sends
  MaxSdkIds         \* bound: requests the SDK sends

ASSUME LinkAssumption == {MaxInFlight, MaxHostIds, MaxSdkIds} \subseteq Nat \ {0}

VARIABLES
  linkOpen,
  hostReady,        \* m_ready
  hostOutstanding,  \* m_outstandingRequests of the supervisor
  hostNext,         \* m_nextRequestId
  cancelledBy,      \* the target of each cancel request sent, by request ID
  overdue,          \* requests that timed out (history)
  linkStopping,     \* m_stopping
  toProvider, toHost,   \* messages written and not read
  accepted,         \* m_hostAccepted
  sdkOutstanding,   \* m_outstandingRequests of the SDK
  invoked, posted,  \* requests the service works on; completions queued
  quitting,         \* QCoreApplication::quit()
  sdkRequests,      \* m_hostRequests
  sdkNext,          \* m_nextHostRequestId
  accusations, refusals, strays   \* history: error messages of either side

hostVars == <<hostReady, hostOutstanding, hostNext, cancelledBy, overdue, linkStopping>>
sdkVars == <<accepted, sdkOutstanding, invoked, posted, quitting, sdkRequests, sdkNext>>
blame == <<accusations, refusals, strays>>
linkVars == <<linkOpen, hostVars, toProvider, toHost, sdkVars, blame>>

HostIds == 1..MaxHostIds
Request(id, method, target) ==
  [type |-> "request", id |-> id, method |-> method, target |-> target]
Response(id) == [type |-> "response", id |-> id, method |-> "", target |-> 0]
Hello == [type |-> "hello", id |-> 0, method |-> "", target |-> 0]

(* connected() has sent provider.hello. *)
LinkInit ==
  /\ linkOpen = TRUE /\ hostReady = FALSE /\ hostOutstanding = {} /\ hostNext = 1
  /\ cancelledBy = [r \in HostIds |-> 0] /\ overdue = {} /\ linkStopping = FALSE
  /\ toProvider = <<>> /\ toHost = <<Hello>>
  /\ accepted = FALSE /\ sdkOutstanding = {} /\ invoked = {} /\ posted = {}
  /\ quitting = FALSE /\ sdkRequests = {} /\ sdkNext = 1
  /\ accusations = 0 /\ refusals = 0 /\ strays = 0

-----------------------------------------------------------------------------
(* The supervisor *)

(* What is written after the provider has read for the last time is lost. *)
Write(message) ==
  toProvider' = IF quitting THEN toProvider ELSE Append(toProvider, message)

(* sendRequest(), outstanding being what is left of m_outstandingRequests *)
CanSend(outstanding) == hostReady /\ Cardinality(outstanding) < MaxInFlight
SendRequest(outstanding, method, target) ==
  /\ hostNext <= MaxHostIds /\ hostNext' = hostNext + 1
  /\ Write(Request(hostNext, method, target))
  /\ hostOutstanding' = outstanding \cup {hostNext}
  /\ cancelledBy' = [cancelledBy EXCEPT ![hostNext] = target]

HostRequests ==
  /\ CanSend(hostOutstanding) /\ SendRequest(hostOutstanding, "call", 0)
  /\ UNCHANGED <<hostReady, overdue, linkStopping, toHost, sdkVars, blame>>

(* cancel() of a request: its slot is freed before the cancel request takes one.  It  *)
(* takes any number, but its caller, ProviderGateway::cancel(), has only those of      *)
(* its own requests, never that of a cancel request.                          *)
HostCancels(r) ==
  /\ r \in hostOutstanding /\ cancelledBy[r] = 0
  /\ CanSend(hostOutstanding \ {r})
  /\ SendRequest(hostOutstanding \ {r}, "cancel", r)
  /\ UNCHANGED <<hostReady, overdue, linkStopping, toHost, sdkVars, blame>>

(* stop() while the process runs: asks for shutdown, if there is a slot. *)
Shutdown(outstanding) ==
  /\ linkStopping' = TRUE
  /\ IF CanSend(outstanding) THEN SendRequest(outstanding, "shutdown", 0)
     ELSE hostOutstanding' = outstanding /\ UNCHANGED <<hostNext, cancelledBy, toProvider>>

HostStops ==
  /\ ~linkStopping /\ Shutdown(hostOutstanding)
  /\ UNCHANGED <<hostReady, overdue, toHost, sdkVars, blame>>

HostTimesOut(r) ==
  /\ r \in hostOutstanding
  /\ overdue' = overdue \cup {r}
  /\ Shutdown(hostOutstanding \ {r})
  /\ UNCHANGED <<hostReady, toHost, sdkVars, blame>>

(* handleMessage(): the hello is answered; a request of the SDK is answered at once  *)
(* by the manager's handler; a response frees its slot, or is an error.           *)
HostReads ==
  /\ toHost # <<>> /\ toHost' = Tail(toHost)
  /\ LET message == Head(toHost) IN
     CASE ~hostReady ->
            /\ hostReady' = TRUE /\ Write(Hello)
            /\ UNCHANGED <<hostOutstanding, accusations>>
       [] hostReady /\ message.type = "request" ->
            /\ Write(Response(message.id))
            /\ UNCHANGED <<hostReady, hostOutstanding, accusations>>
       [] OTHER ->
            /\ hostOutstanding' = hostOutstanding \ {message.id}
            /\ accusations' = IF message.id \in hostOutstanding THEN accusations ELSE 1
            /\ UNCHANGED <<hostReady, toProvider>>
  /\ UNCHANGED <<hostNext, cancelledBy, overdue, linkStopping, sdkVars, refusals, strays>>

-----------------------------------------------------------------------------
(* The SDK *)

Respond(id) == toHost' = Append(toHost, Response(id))

SdkReadsHello ==
  /\ ~accepted /\ accepted' = TRUE /\ toProvider' = Tail(toProvider)
  /\ UNCHANGED <<toHost, sdkOutstanding, invoked, quitting, sdkRequests, refusals, strays>>

SdkReadsResponse(id) ==
  /\ toProvider' = Tail(toProvider)
  /\ sdkRequests' = sdkRequests \ {id}
  /\ strays' = IF id \in sdkRequests THEN strays ELSE 1
  /\ UNCHANGED <<toHost, accepted, sdkOutstanding, invoked, quitting, refusals>>

SdkCancelsKeeping(id, target) ==                      \* mutant of SdkCancels
  /\ toProvider' = Tail(toProvider) /\ Respond(id)
  /\ UNCHANGED <<accepted, sdkOutstanding, invoked, quitting, sdkRequests, refusals, strays>>

SdkCancels(id, target) ==
  /\ toProvider' = Tail(toProvider) /\ Respond(id)
  /\ sdkOutstanding' = sdkOutstanding \ {target}
  /\ UNCHANGED <<accepted, invoked, quitting, sdkRequests, refusals, strays>>

(* quit(): only what was read in the same chunk is still handled. *)
SdkShutsDown(id) ==
  /\ Respond(id) /\ quitting' = TRUE
  /\ \E n \in 1..Len(toProvider) : toProvider' = SubSeq(toProvider, 2, n)
  /\ UNCHANGED <<accepted, sdkOutstanding, invoked, sdkRequests, refusals, strays>>

SdkInvokes(id) ==
  /\ toProvider' = Tail(toProvider)
  /\ IF Cardinality(sdkOutstanding) >= MaxInFlight
     THEN /\ Respond(id) /\ refusals' = 1
          /\ UNCHANGED <<sdkOutstanding, invoked>>
     ELSE /\ sdkOutstanding' = sdkOutstanding \cup {id}
          /\ invoked' = invoked \cup {id}
          /\ UNCHANGED <<toHost, refusals>>
  /\ UNCHANGED <<accepted, quitting, sdkRequests, strays>>

SdkReads ==
  /\ toProvider # <<>>
  /\ LET message == Head(toProvider) IN
     \/ message.type = "hello" /\ SdkReadsHello
     \/ message.type = "response" /\ SdkReadsResponse(message.id)
     \/ message.method = "cancel" /\ SdkCancels(message.id, message.target)
     \/ message.method = "shutdown" /\ SdkShutsDown(message.id)
     \/ message.method = "call" /\ SdkInvokes(message.id)
  /\ UNCHANGED <<hostVars, posted, sdkNext, accusations>>

(* The service calls a completion, which is queued, and discarded if the request   *)
(* is not outstanding any more when its turn comes.                             *)
ServiceCompletes(id) ==
  /\ id \in invoked \ posted /\ posted' = posted \cup {id}
  /\ UNCHANGED <<hostVars, toProvider, toHost, accepted, sdkOutstanding, invoked,
                 quitting, sdkRequests, sdkNext, blame>>

CompletionRuns(id) ==
  /\ ~quitting /\ id \in posted /\ posted' = posted \ {id}
  /\ IF id \in sdkOutstanding THEN Respond(id) ELSE UNCHANGED toHost
  /\ sdkOutstanding' = sdkOutstanding \ {id}
  /\ UNCHANGED <<hostVars, toProvider, accepted, invoked, quitting, sdkRequests, sdkNext, blame>>

(* requestHost() *)
SdkRequestsHost ==
  /\ accepted /\ ~quitting /\ sdkNext <= MaxSdkIds
  /\ Cardinality(sdkRequests) < MaxInFlight
  /\ toHost' = Append(toHost, Request(sdkNext, "call", 0))
  /\ sdkRequests' = sdkRequests \cup {sdkNext} /\ sdkNext' = sdkNext + 1
  /\ UNCHANGED <<hostVars, toProvider, accepted, sdkOutstanding, invoked, posted, quitting, blame>>

(* The process ends, or dies: cleanupSocket(). *)
LinkCloses ==
  /\ linkOpen' = FALSE /\ hostReady' = FALSE /\ hostOutstanding' = {}
  /\ toProvider' = <<>> /\ toHost' = <<>>
  /\ UNCHANGED <<hostNext, cancelledBy, overdue, linkStopping, sdkVars, blame>>

LinkNext ==
  /\ linkOpen
  /\ \/ /\ UNCHANGED linkOpen
        /\ \/ HostRequests \/ HostStops \/ HostReads \/ SdkReads \/ SdkRequestsHost
           \/ \E r \in HostIds : \/ HostCancels(r) \/ HostTimesOut(r)
                                 \/ ServiceCompletes(r) \/ CompletionRuns(r)
     \/ LinkCloses

LinkSpec == LinkInit /\ [][LinkNext]_linkVars

-----------------------------------------------------------------------------
Messages == [type : {"hello", "request", "response"},
             id : 0..MaxHostIds + MaxSdkIds, method : {"", "call", "cancel", "shutdown"},
             target : 0..MaxHostIds]

(* Every variable of the link stays in its domain. *)
LinkTypeOK ==
  /\ {linkOpen, hostReady, linkStopping, accepted, quitting} \subseteq BOOLEAN
  /\ hostOutstanding \cup overdue \cup sdkOutstanding \cup invoked \cup posted \subseteq HostIds
  /\ hostNext \in 1..MaxHostIds + 1 /\ sdkNext \in 1..MaxSdkIds + 1
  /\ cancelledBy \in [HostIds -> 0..MaxHostIds]
  /\ toProvider \in Seq(Messages) /\ toHost \in Seq(Messages)
  /\ sdkRequests \subseteq 1..MaxSdkIds
  /\ {accusations, refusals, strays} \subseteq {0, 1}

(* A request is answered once, and an answer the supervisor takes for an error is     *)
(* one that crossed a cancel the provider has not acknowledged yet, or one that came   *)
(* too late: "late completions after cancellation are discarded by the SDK"          *)
(* (docs/provider-protocol.md:59-60).                                            *)
ResponsesAreExpected ==
  LET answers == {i \in DOMAIN toHost : toHost[i].type = "response"} IN
  /\ \A i, j \in answers : toHost[i] = toHost[j] => i = j
  /\ \A i \in answers : LET r == toHost[i].id IN
       \/ r \in hostOutstanding \/ r \in overdue
       \/ \E c \in HostIds : cancelledBy[c] = r /\ c \in hostOutstanding \cup overdue

(* Both sides count the same slots: the SDK never has to refuse a request of the       *)
(* supervisor for having too many outstanding, and never gets a response to a request  *)
(* it does not know of.                                                           *)
SlotsSuffice == refusals = 0 /\ strays = 0
=============================================================================
