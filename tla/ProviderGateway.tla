--------------------------- MODULE ProviderGateway ---------------------------
(***************************************************************************)
(* Federated search: ProviderGateway, the request routing of                   *)
(* ProviderExtensionManager, ProviderCache, and the account searches of          *)
(* ProviderAccountStore through OpenSubsonicClient and JellyfinClient.           *)
(*                                                                         *)
(* A result is known by the query it answers.  Of a supervisor, which            *)
(* ProviderSession models in full, only what the gateway sees is kept: whether it *)
(* is ready, its request numbers, and what is outstanding.  Provider processes    *)
(* and servers are external: they answer, fail or end whenever they like.       *)
(***************************************************************************)
EXTENDS Naturals, Sequences, FiniteSets, SequencesExt, Sublists

CONSTANTS
  Providers, Accounts,          \* cache namespaces
  JellyfinAccounts,             \* these authenticate first and answer in pages
  Queries, Cursors,             \* of search() and of browse()
  MaxCached,                    \* the entries that 64 MiB hold; prune() leaves no more
  MaxPages,                     \* bound: of a Jellyfin answer
  MaxSupervisors, MaxGenerations, MaxRequestId, MaxEvents   \* bounds

ASSUME GatewayAssumption ==
  /\ JellyfinAccounts \subseteq Accounts /\ Providers \cap Accounts = {}
  /\ Queries \cap Cursors = {}
  /\ IsFiniteSet(Providers) /\ IsFiniteSet(Accounts)
  /\ {MaxCached, MaxPages, MaxSupervisors, MaxGenerations, MaxRequestId, MaxEvents}
       \subseteq Nat

VARIABLES
  supervisors,      \* every supervisor made, the current and the retiring ones
  serving,          \* the supervisor in the session of each provider
  gwRequests,       \* m_requests, and the supervisor that was asked (history)
  gwPending, gwGeneration, gwItems, offlineMode,  \* m_pending, m_generation, ...
  accountStatus, accountSearches,  \* the accounts, and their unfinished searches
  providerCache,    \* its entries, least recently accessed first
  searched,         \* what was last searched or browsed for (history)
  misplayed,        \* another item than the chosen one was resolved (history)
  crossed,          \* a response of one supervisor finished a request made to
                    \* another one (history)
  gwEvents          \* what has happened so far beside searches (bounded)

waitingVars == <<gwRequests, gwPending>>
gwAccountVars == <<accountStatus, accountSearches>>
answerVars == <<gwItems, providerCache, misplayed>>
gatewayVars == <<supervisors, serving, waitingVars, gwGeneration, offlineMode,
                 gwAccountVars, answerVars, searched, crossed, gwEvents>>

Event == gwEvents < MaxEvents /\ gwEvents' = gwEvents + 1

NoQuery == "none"
NoRequests == [r \in {} |-> NoQuery]

(* m_nextRequestId starts at 1 in every supervisor and survives its restarts. *)
NewSupervisor(p) == [provider |-> p, state |-> "starting", retired |-> FALSE,
                     next |-> 1, first |-> 1, outstanding |-> NoRequests]

GatewayInit ==
  /\ \E order \in [1..Cardinality(Providers) -> Providers] :
       /\ IsInjective(order)
       /\ supervisors = [s \in DOMAIN order |-> NewSupervisor(order[s])]
       /\ serving = [p \in Providers |-> CHOOSE s \in DOMAIN order : order[s] = p]
  /\ gwRequests = NoRequests /\ gwPending = 0 /\ gwGeneration = 0
  /\ gwItems = {} /\ offlineMode = FALSE
  /\ accountStatus = [a \in Accounts |-> "enabled"] /\ accountSearches = {}
  /\ providerCache = <<>>
  /\ searched = NoQuery /\ misplayed = FALSE
  /\ crossed = FALSE /\ gwEvents = 0

-----------------------------------------------------------------------------
(* Supervisors, as far as sendRequest(), cancel() and stop() go *)

Sent(sup, about) ==
  [sup EXCEPT !.next = @ + 1,
              !.outstanding = [r \in DOMAIN @ \cup {sup.next} |->
                                 IF r = sup.next THEN about ELSE @[r]]]

Without(outstanding, ids) == [r \in DOMAIN outstanding \ ids |-> outstanding[r]]

(* cancel() of several requests: each that is outstanding is given up, and a    *)
(* request of its own asks the provider to cancel it.                         *)
CancelledAt(sup, ids) ==
  LET dropped == ids \cap DOMAIN sup.outstanding
      asks == sup.next..(sup.next + Cardinality(dropped) - 1)
  IN  IF sup.state # "ready" THEN sup
      ELSE [sup EXCEPT !.next = @ + Cardinality(dropped),
                       !.outstanding = [r \in (DOMAIN @ \ dropped) \cup asks |->
                          IF r \in asks THEN [what |-> "cancel", of |-> NoQuery] ELSE @[r]]]

Stopped(sup) ==
  IF sup.state = "ready" THEN Sent(sup, [what |-> "shutdown", of |-> NoQuery]) ELSE sup

(* The handshake; and start() again after a failure, of the supervisor in a session. *)
SupervisorReady(s) ==
  /\ supervisors[s].state = "starting"
  /\ supervisors' = [supervisors EXCEPT ![s].state = "ready"]
  /\ UNCHANGED <<serving, waitingVars, gwGeneration, offlineMode, gwAccountVars, answerVars,
                 searched, crossed, gwEvents>>

SupervisorRestarts(s) ==
  /\ supervisors[s].state = "ended" /\ ~supervisors[s].retired
  /\ supervisors[s].next < MaxRequestId
  /\ supervisors' = [supervisors EXCEPT ![s].state = "starting", ![s].first = supervisors[s].next]
  /\ UNCHANGED <<serving, waitingVars, gwGeneration, offlineMode, gwAccountVars, answerVars,
                 searched, crossed, gwEvents>>

(* The process ends: m_outstandingRequests is cleared, and nobody is told. *)
SupervisorEnds(s) ==
  /\ supervisors[s].state \in {"starting", "ready"}
  /\ IF supervisors[s].retired THEN UNCHANGED gwEvents ELSE Event
  /\ supervisors' = [supervisors EXCEPT ![s].state = "ended", ![s].outstanding = NoRequests]
  /\ UNCHANGED <<serving, waitingVars, gwGeneration, offlineMode, gwAccountVars, answerVars,
                 searched, crossed>>

(* reconcile(): every supervisor retires, and a new one takes its session. *)
Reconcile ==
  LET n == Len(supervisors)
      added == SetToSeq(Providers)
  IN  /\ n + Len(added) <= MaxSupervisors
      /\ supervisors' =
           [s \in 1..n |-> IF supervisors[s].retired THEN supervisors[s]
                           ELSE [Stopped(supervisors[s]) EXCEPT !.retired = TRUE]]
             \o [i \in 1..Len(added) |-> NewSupervisor(added[i])]
      /\ serving' = [p \in Providers |-> n + (CHOOSE i \in 1..Len(added) : added[i] = p)]
      /\ Event
      /\ UNCHANGED <<waitingVars, gwGeneration, offlineMode, gwAccountVars, answerVars,
                     searched, crossed>>

-----------------------------------------------------------------------------
(* ProviderCache *)

IsEntry(e, space, key) == e.space = space /\ e.key = key
Hit(e, sources, key) == e.space \in sources /\ e.key = key /\ (offlineMode \/ ~e.stale)

(* get() of the entries under a key of several namespaces, and their touch *)
Hits(sources, key) == {e \in Range(providerCache) : Hit(e, sources, key)}
Touched(sources, key) ==
  LET hits == {i \in DOMAIN providerCache : Hit(providerCache[i], sources, key)}
  IN  Sublist(providerCache, DOMAIN providerCache \ hits) \o Sublist(providerCache, hits)

(* put() and prune().  Either may fail, prune() after any of its evictions, and     *)
(* nobody looks at their errors.                                             *)
Excess(entries) == IF Len(entries) <= MaxCached THEN 0 ELSE Len(entries) - MaxCached

PutAndPrune(space, key, of) ==
  LET others == {i \in DOMAIN providerCache : ~IsEntry(providerCache[i], space, key)}
      put == Append(Sublist(providerCache, others),
                    [space |-> space, key |-> key, of |-> of, stale |-> FALSE])
  IN  \E entries \in {providerCache, put} : \E evicted \in 0..Excess(entries) :
        providerCache' = SubSeq(entries, evicted + 1, Len(entries))

ExpireCache ==
  /\ \E e \in Range(providerCache) : ~e.stale
  /\ providerCache' = [i \in DOMAIN providerCache |-> [providerCache[i] EXCEPT !.stale = TRUE]]
  /\ Event
  /\ UNCHANGED <<supervisors, serving, waitingVars, gwGeneration, gwItems, offlineMode,
                 gwAccountVars, searched, misplayed, crossed>>

-----------------------------------------------------------------------------
(* ProviderGateway *)

(* cancel(): at the supervisors that are in session now *)
AfterCancel ==
  [s \in DOMAIN supervisors |->
     IF serving[supervisors[s].provider] # s THEN supervisors[s]
     ELSE CancelledAt(supervisors[s],
                      {k[2] : k \in {l \in DOMAIN gwRequests : l[1] = supervisors[s].provider}})]

(* search() and browse(): cancel, show what is cached, and ask unless offline.   *)
(* An account search that fails at once has counted itself up and down again, and *)
(* a provider with too many requests, or that cannot be written to, is not asked   *)
(* (the second skips a number, which nobody notices).                         *)
Ask(query, ps, as) ==
  LET online == IF offlineMode THEN {} ELSE ps
  IN  \E asked \in SUBSET {p \in online : supervisors[serving[p]].state = "ready"} :
      /\ gwGeneration < MaxGenerations
      /\ gwGeneration' = gwGeneration + 1
      /\ searched' = query
      /\ gwItems' = {[source |-> e.space, of |-> e.of] : e \in Hits(ps \cup as, query)}
      /\ providerCache' = Touched(ps \cup as, query)
      /\ supervisors' = [s \in DOMAIN supervisors |->
           IF \E p \in asked : serving[p] = s
           THEN Sent(AfterCancel[s], [what |-> "items", of |-> query]) ELSE AfterCancel[s]]
      /\ gwRequests' =
           [k \in {<<p, AfterCancel[serving[p]].next>> : p \in asked} |->
              [generation |-> gwGeneration', kind |-> "items", of |-> query,
               asked |-> serving[k[1]]]]
      /\ \E started \in SUBSET (IF offlineMode THEN {} ELSE as) :
           /\ accountSearches' = accountSearches \cup
                {[account |-> a, of |-> query, generation |-> gwGeneration',
                  page |-> IF a \in JellyfinAccounts THEN 0 ELSE MaxPages] : a \in started}
           /\ gwPending' = Cardinality(asked) + Cardinality(started)
      /\ UNCHANGED <<serving, offlineMode, accountStatus, misplayed, crossed, gwEvents>>

Search(query) ==
  Ask(query, {p \in Providers : supervisors[serving[p]].state = "ready"},
      {a \in Accounts : accountStatus[a] = "enabled"})

Browse(p, cursor) == Ask(cursor, {p}, {})

CancelGateway ==
  /\ gwGeneration < MaxGenerations
  /\ gwGeneration' = gwGeneration + 1
  /\ supervisors' = AfterCancel
  /\ gwRequests' = NoRequests /\ gwPending' = 0
  /\ UNCHANGED <<serving, offlineMode, gwAccountVars, answerVars, searched, crossed, gwEvents>>

SetOfflineMode ==
  /\ offlineMode' = ~offlineMode
  /\ Event
  /\ UNCHANGED <<supervisors, serving, waitingVars, gwGeneration, gwAccountVars, answerVars,
                 searched, crossed>>

(* play() of an item of a provider, which has to resolve it.  An item of an      *)
(* account has its URL.                                                    *)
PlayItem(item) ==
  LET s == serving[item.source]
  IN  /\ item \in gwItems /\ item.source \in Providers
      /\ supervisors[s].state = "ready" /\ supervisors[s].next < MaxRequestId
      /\ supervisors' = [supervisors EXCEPT
           ![s] = Sent(supervisors[s], [what |-> "resolve", of |-> item.of])]
      /\ LET key == <<item.source, supervisors[s].next>>
         IN  gwRequests' = [k \in DOMAIN gwRequests \cup {key} |->
               IF k # key THEN gwRequests[k]
               ELSE [generation |-> gwGeneration, kind |-> "resolve", of |-> item.of,
                     asked |-> s]]
      /\ gwPending' = gwPending + 1
      /\ Event
      /\ UNCHANGED <<serving, gwGeneration, offlineMode, gwAccountVars, answerVars,
                     searched, crossed>>

Decrement(n) == IF n = 0 THEN 0 ELSE n - 1

(* handleResponse(): the key names a provider and a number, not a supervisor. *)
TakeResponse(s, id, about, succeeded) ==
  LET p == supervisors[s].provider
      key == <<p, id>>
      context == gwRequests[key]
  IN  IF key \notin DOMAIN gwRequests
      THEN UNCHANGED <<waitingVars, answerVars, crossed>>
      ELSE /\ gwRequests' = [k \in DOMAIN gwRequests \ {key} |-> gwRequests[k]]
           /\ gwPending' = Decrement(gwPending)
           /\ crossed' = (crossed \/ context.asked # s)
           /\ IF ~succeeded \/ context.generation # gwGeneration
              THEN UNCHANGED answerVars
              ELSE IF context.kind = "resolve"
              THEN /\ misplayed' = (misplayed \/ (about.what = "resolve"
                                                  /\ about.of # context.of))
                   /\ UNCHANGED <<gwItems, providerCache>>
              ELSE LET of == IF about.what = "items" THEN about.of ELSE NoQuery
                   IN  /\ PutAndPrune(p, context.of, of)
                       /\ gwItems' = gwItems \cup
                            (IF of = NoQuery THEN {} ELSE {[source |-> p, of |-> of]})
                       /\ UNCHANGED misplayed

(* A response comes, of a retiring supervisor too, under the provider's ID. *)
ProviderResponds(s, id, succeeded) ==
  /\ supervisors[s].state = "ready" /\ id \in DOMAIN supervisors[s].outstanding
  /\ supervisors' = [supervisors EXCEPT
       ![s].outstanding = Without(supervisors[s].outstanding, {id})]
  /\ TakeResponse(s, id, supervisors[s].outstanding[id], succeeded)
  /\ UNCHANGED <<serving, gwGeneration, offlineMode, gwAccountVars, searched, gwEvents>>

(* A request meets its deadline: the gateway hears of an error and the process  *)
(* is stopped, which ends it before a request to shut down meets its own.      *)
ProviderTimesOutUncounted(s, id) ==                   \* mutant of ProviderTimesOut
  /\ supervisors[s].state = "ready" /\ id \in DOMAIN supervisors[s].outstanding
  /\ supervisors[s].outstanding[id].what # "shutdown"
  /\ supervisors' = [supervisors EXCEPT ![s] = Stopped(
       [supervisors[s] EXCEPT !.outstanding = Without(supervisors[s].outstanding, {id})])]
  /\ UNCHANGED <<serving, waitingVars, gwGeneration, offlineMode, gwAccountVars, answerVars,
                 searched, crossed, gwEvents>>

ProviderTimesOut(s, id) ==
  /\ supervisors[s].state = "ready" /\ id \in DOMAIN supervisors[s].outstanding
  /\ supervisors[s].outstanding[id].what # "shutdown"
  /\ supervisors' = [supervisors EXCEPT ![s] = Stopped(
       [supervisors[s] EXCEPT !.outstanding = Without(supervisors[s].outstanding, {id})])]
  /\ TakeResponse(s, id, supervisors[s].outstanding[id], FALSE)
  /\ UNCHANGED <<serving, gwGeneration, offlineMode, gwAccountVars, searched, gwEvents>>

-----------------------------------------------------------------------------
(* Accounts: an OpenSubsonic search is one request; a Jellyfin search            *)
(* authenticates and reads pages until the last one.                         *)

AccountPage(x) ==
  /\ x \in accountSearches /\ x.page < MaxPages
  /\ accountSearches' = (accountSearches \ {x}) \cup {[x EXCEPT !.page = x.page + 1]}
  /\ UNCHANGED <<supervisors, serving, waitingVars, gwGeneration, offlineMode,
                 accountStatus, answerVars, searched, crossed, gwEvents>>

(* The callback of searchAccount(), with all tracks or with the error of any step *)
FinishAccountUnchecked(x, succeeded) ==               \* mutant of FinishAccountSearch
  /\ x \in accountSearches /\ (succeeded => x.page > 0)
  /\ accountSearches' = accountSearches \ {x}
  /\ gwPending' = Decrement(gwPending)
  /\ IF ~succeeded THEN UNCHANGED <<gwItems, providerCache>>
     ELSE /\ PutAndPrune(x.account, x.of, x.of)
          /\ gwItems' = gwItems \cup {[source |-> x.account, of |-> x.of]}
  /\ UNCHANGED <<supervisors, serving, gwRequests, gwGeneration, offlineMode,
                 accountStatus, searched, misplayed, crossed, gwEvents>>

FinishAccountSearch(x, succeeded) ==
  /\ x \in accountSearches /\ (succeeded => x.page > 0)
  /\ accountSearches' = accountSearches \ {x}
  /\ IF x.generation # gwGeneration
     THEN UNCHANGED <<gwPending, gwItems, providerCache>>
     ELSE /\ gwPending' = Decrement(gwPending)
          /\ IF ~succeeded THEN UNCHANGED <<gwItems, providerCache>>
             ELSE /\ PutAndPrune(x.account, x.of, x.of)
                  /\ gwItems' = gwItems \cup {[source |-> x.account, of |-> x.of]}
  /\ UNCHANGED <<supervisors, serving, gwRequests, gwGeneration, offlineMode,
                 accountStatus, searched, misplayed, crossed, gwEvents>>

(* setEnabled() and removeAccount(); main() removes the namespace of a removed   *)
(* account.  A search that is under way goes on.                             *)
SetAccount(a, status) ==
  /\ accountStatus[a] # "removed" /\ accountStatus[a] # status
  /\ accountStatus' = [accountStatus EXCEPT ![a] = status]
  /\ providerCache' = IF status = "removed"
                      THEN Sublist(providerCache, {i \in DOMAIN providerCache :
                                                     providerCache[i].space # a})
                      ELSE providerCache
  /\ Event
  /\ UNCHANGED <<supervisors, serving, waitingVars, gwGeneration, gwItems, offlineMode,
                 accountSearches, searched, misplayed, crossed>>

GatewayNext ==
  \/ \E s \in DOMAIN supervisors : SupervisorReady(s)
  \/ \E s \in DOMAIN supervisors : SupervisorRestarts(s)
  \/ \E s \in DOMAIN supervisors : SupervisorEnds(s)
  \/ Reconcile
  \/ ExpireCache
  \/ \E query \in Queries : Search(query)
  \/ \E p \in Providers, cursor \in Cursors : Browse(p, cursor)
  \/ CancelGateway
  \/ SetOfflineMode
  \/ \E item \in gwItems : PlayItem(item)
  \/ \E s \in DOMAIN supervisors, succeeded \in BOOLEAN :
       \E id \in DOMAIN supervisors[s].outstanding : ProviderResponds(s, id, succeeded)
  \/ \E s \in DOMAIN supervisors :
       \E id \in DOMAIN supervisors[s].outstanding : ProviderTimesOut(s, id)
  \/ \E x \in accountSearches : AccountPage(x)
  \/ \E x \in accountSearches, succeeded \in BOOLEAN : FinishAccountSearch(x, succeeded)
  \/ \E a \in Accounts, status \in {"enabled", "disabled", "removed"} : SetAccount(a, status)

GatewaySpec == GatewayInit /\ [][GatewayNext]_gatewayVars

-----------------------------------------------------------------------------
(* Every variable of the gateway stays in its domain. *)
GatewayTypeOK ==
  /\ {s \in DOMAIN supervisors : ~supervisors[s].retired} = Range(serving)
  /\ \A s \in DOMAIN supervisors : supervisors[s].state \in {"starting", "ready", "ended"}
  /\ {gwPending, gwGeneration} \subseteq Nat /\ {offlineMode, crossed} \subseteq BOOLEAN
  /\ \A e \in Range(providerCache) : e.space \in Providers \cup Accounts

(* What is shown answers what was last searched for, what is cached under a key   *)
(* answers that key, and the item that plays is the one that was chosen: late      *)
(* answers are cancelled by their generation, docs/roadmap.md says, and a test     *)
(* that stale account searches do not finish a newer one.  This is about search()  *)
(* and handleResponse(), which know a request by its provider and its number.   *)
AnswersOfTheirQuery ==
  /\ \A item \in gwItems : item.of = searched
  /\ \A i \in DOMAIN providerCache : providerCache[i].of = providerCache[i].key
  /\ ~misplayed

(* The only way to a wrong answer is the response of a retiring supervisor to a  *)
(* number that its successor has given out again: offline reads, evictions,       *)
(* restarts, cancels and late answers of accounts leave every answer right.     *)
OnlyRetiredMisanswer == crossed \/ AnswersOfTheirQuery

(* Whatever the gateway waits for will be answered, or is lost with the process   *)
(* that was asked: it is still outstanding at that supervisor, and the count of   *)
(* pending answers, which the page shows as loading, is neither more nor less     *)
(* than these and the account searches of the present generation, as long as no  *)
(* supervisor was replaced.                                                  *)
PendingIsAnswerable ==
  LET live == {x \in accountSearches : x.generation = gwGeneration}
      counted == Cardinality(DOMAIN gwRequests) + Cardinality(live)
  IN  /\ \A k \in DOMAIN gwRequests :
           LET sup == supervisors[gwRequests[k].asked]
           IN  /\ gwRequests[k].generation = gwGeneration
               /\ sup.state = "ready" /\ k[2] >= sup.first =>
                    k[2] \in DOMAIN sup.outstanding
      /\ gwPending >= counted
      /\ (\A s \in DOMAIN supervisors : ~supervisors[s].retired) => gwPending = counted

=============================================================================
