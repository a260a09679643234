--------------------------- MODULE RadioDirectory ---------------------------
(***************************************************************************)
(* Internet radio: RadioBrowserClient, which finds the directory's mirrors by   *)
(* DNS and fails over between them; RadioBrowserDirectoryModel, which shows the  *)
(* stations of the last request or of its cache; and RadioController, which      *)
(* keeps the saved stations and imports playlists.  DNS and HTTP are external.   *)
(*                                                                         *)
(* A request is known by its cache key, and the stations of an answer by the    *)
(* key they were asked under.  A handler of the event loop is a step.         *)
(***************************************************************************)
EXTENDS Naturals, Sequences, FiniteSets, SequencesExt

CONSTANTS
  Keys,                      \* cache keys: popular:<country>, search:<term>
  DirectoryStations,         \* stations of the directory: a URL and a uuid
  ImportedStations,          \* stations of playlists and of the user: no uuid
  MaxMirrors,                \* bound: SRV records of an answer
  MaxDirectoryRequests, MaxClicks, MaxSaved   \* bounds: what the user does

ASSUME RadioAssumption ==
  /\ {MaxMirrors, MaxDirectoryRequests, MaxClicks, MaxSaved} \subseteq Nat
  /\ \A s \in ImportedStations : s.uuid = "none"

VARIABLES
  mirrors,              \* m_mirrors.size()
  dnsLookup,            \* m_dnsLookup runs
  mirrorWaiters,        \* m_mirrorWaiters
  mirrorPosts,          \* the single shots of ensureMirrors()
  clientGeneration,     \* m_generation of the client
  radioReplies,         \* the unfinished station replies, by their captures
  pendingClicks, clicks,     \* m_pendingClicks; the clicks ever recorded
  directoryGeneration,  \* m_generation of the model
  loadingStations, staleShown, directoryError, \* m_loading, m_stale, m_errorMessage
  shownOf,              \* m_stations, by the key they were asked under
  askedFor,             \* the key of the last request (history)
  stationCache,         \* the radio-browser namespace of ProviderCache
  savedStations,        \* m_stations of RadioController, persisted as they change
  imports               \* RadioPlaylistLoader's unfinished replies

clientVars == <<mirrors, dnsLookup, mirrorWaiters, mirrorPosts, clientGeneration,
                radioReplies, pendingClicks, clicks>>
directoryVars == <<directoryGeneration, loadingStations, staleShown, directoryError,
                   shownOf, askedFor, stationCache>>
savedVars == <<savedStations, imports>>
radioVars == <<clientVars, directoryVars, savedVars>>

Nothing == "none"
ClickThunk == [what |-> "clicks"]
FetchThunk(g, asker) == [what |-> "fetch", generation |-> g, asker |-> asker]

RadioInit ==
  /\ mirrors = 0 /\ dnsLookup = FALSE
  /\ mirrorWaiters = <<>> /\ mirrorPosts = <<>>
  /\ clientGeneration = 0 /\ radioReplies = {}
  /\ pendingClicks = 0 /\ clicks = 0
  /\ directoryGeneration = 0
  /\ loadingStations = FALSE /\ staleShown = FALSE /\ directoryError = FALSE
  /\ shownOf = Nothing /\ askedFor = Nothing
  /\ stationCache \in [Keys -> {[of |-> Nothing, stale |-> FALSE]}]
  /\ savedStations = <<>> /\ imports = 0

-----------------------------------------------------------------------------
(* RadioBrowserClient *)

(* ensureMirrors(): at once, but posted, or when the mirrors are known. *)
EnsureMirrors(thunk) ==
  /\ UNCHANGED mirrors
  /\ IF mirrors > 0
     THEN /\ mirrorPosts' = Append(mirrorPosts, thunk)
          /\ UNCHANGED <<mirrorWaiters, dnsLookup>>
     ELSE /\ mirrorWaiters' = Append(mirrorWaiters, thunk)
          /\ dnsLookup' = TRUE
          /\ UNCHANGED mirrorPosts

(* cancel(): a reply that is aborted finishes at once, under an old generation. *)
CancelClient(times) ==
  clientGeneration' = clientGeneration + times /\ radioReplies' = {}

(* What the thunks that ensureMirrors() kept do, in turn, once it calls them. *)
RunThunks(thunks) ==
  /\ radioReplies' = radioReplies \cup
       {[generation |-> t.generation, asker |-> t.asker, mirror |-> 1] :
          t \in {u \in Range(thunks) : u.what = "fetch" /\ u.generation = clientGeneration}}
  /\ pendingClicks' = IF ClickThunk \in Range(thunks) THEN 0 ELSE pendingClicks
  /\ UNCHANGED <<clientGeneration, clicks>>

(* finishMirrorLookup(), with n usable records; the fallback host is one mirror. *)
FinishMirrorLookup(n) ==
  /\ dnsLookup
  /\ dnsLookup' = FALSE
  /\ mirrors' = IF n = 0 THEN 1 ELSE n
  /\ mirrorWaiters' = <<>>
  /\ RunThunks(mirrorWaiters)
  /\ UNCHANGED <<mirrorPosts, directoryVars, savedVars>>

RunPosted ==
  /\ mirrorPosts # <<>>
  /\ mirrorPosts' = Tail(mirrorPosts)
  /\ RunThunks(<<Head(mirrorPosts)>>)
  /\ UNCHANGED <<mirrors, dnsLookup, mirrorWaiters, directoryVars, savedVars>>

(* recordClick(), of a station that plays and is known to the directory *)
RecordClick ==
  /\ clicks < MaxClicks
  /\ clicks' = clicks + 1
  /\ pendingClicks' = pendingClicks + 1
  /\ EnsureMirrors(ClickThunk)
  /\ UNCHANGED <<clientGeneration, radioReplies, directoryVars, savedVars>>

PlayListed == shownOf # Nothing /\ RecordClick
PlaySaved == (\E s \in Range(savedStations) : s.uuid # Nothing) /\ RecordClick

-----------------------------------------------------------------------------
(* RadioBrowserDirectoryModel *)

(* request(): the stations cached under the key, whatever their age, until an  *)
(* answer comes.  refreshPopular() and search() differ in the key.           *)
RequestStations(key) ==
  LET cached == stationCache[key]
      g == directoryGeneration + 1
  IN  /\ directoryGeneration < MaxDirectoryRequests
      /\ directoryGeneration' = g
      /\ CancelClient(2)                  \* by request() and again by fetch()
      /\ EnsureMirrors(FetchThunk(clientGeneration', [generation |-> g, key |-> key]))
      /\ loadingStations' = TRUE /\ directoryError' = FALSE
      /\ shownOf' = cached.of
      /\ staleShown' = (cached.of # Nothing /\ cached.stale)
      /\ askedFor' = key
      /\ UNCHANGED <<pendingClicks, clicks, stationCache, savedVars>>

CancelDirectoryLoading ==                             \* mutant of CancelDirectory
  /\ directoryGeneration < MaxDirectoryRequests
  /\ directoryGeneration' = directoryGeneration + 1
  /\ CancelClient(1)
  /\ UNCHANGED <<loadingStations, mirrors, dnsLookup, mirrorWaiters, mirrorPosts,
                 pendingClicks, clicks, staleShown, directoryError, shownOf, askedFor,
                 stationCache, savedVars>>

CancelDirectory ==
  /\ directoryGeneration < MaxDirectoryRequests
  /\ directoryGeneration' = directoryGeneration + 1
  /\ CancelClient(1)
  /\ loadingStations' = FALSE
  /\ UNCHANGED <<mirrors, dnsLookup, mirrorWaiters, mirrorPosts, pendingClicks, clicks,
                 staleShown, directoryError, shownOf, askedFor, stationCache, savedVars>>

(* The callback of request(), with the stations or with an error *)
AnswerWith(asker, succeeded) ==
  IF asker.generation # directoryGeneration THEN UNCHANGED directoryVars
  ELSE /\ loadingStations' = FALSE
       /\ directoryError' = ~succeeded
       /\ IF succeeded
          THEN /\ shownOf' = asker.key /\ staleShown' = FALSE
               /\ \E stored \in BOOLEAN :               \* put() may fail
                    stationCache' = IF ~stored THEN stationCache
                      ELSE [stationCache EXCEPT ![asker.key] =
                              [of |-> asker.key, stale |-> FALSE]]
          ELSE UNCHANGED <<shownOf, staleShown, stationCache>>
       /\ UNCHANGED <<directoryGeneration, askedFor>>

(* A reply finishes: with stations, or failed in the network, by its size, by   *)
(* its HTTP status or in the parser, and the next mirror is asked.            *)
ReplySucceeds(r) ==
  /\ r \in radioReplies
  /\ radioReplies' = radioReplies \ {r}
  /\ IF r.generation # clientGeneration THEN UNCHANGED directoryVars
     ELSE AnswerWith(r.asker, TRUE)
  /\ UNCHANGED <<mirrors, dnsLookup, mirrorWaiters, mirrorPosts, clientGeneration,
                 pendingClicks, clicks, savedVars>>

ReplyFailsSilently(r) ==                              \* mutant of ReplyFails
  /\ r \in radioReplies
  /\ LET again == [r EXCEPT !.mirror = r.mirror + 1]
     IN  IF again.mirror > mirrors
         THEN radioReplies' = radioReplies \ {r}
         ELSE radioReplies' = (radioReplies \ {r}) \cup {again}
  /\ UNCHANGED <<mirrors, dnsLookup, mirrorWaiters, mirrorPosts, clientGeneration,
                 pendingClicks, clicks, directoryVars, savedVars>>

ReplyFails(r) ==
  /\ r \in radioReplies
  /\ LET again == [r EXCEPT !.mirror = r.mirror + 1]
     IN  \/ /\ r.generation # clientGeneration
            /\ radioReplies' = radioReplies \ {r}
            /\ UNCHANGED directoryVars
         \/ /\ r.generation = clientGeneration /\ again.mirror <= mirrors
            /\ radioReplies' = (radioReplies \ {r}) \cup {again}
            /\ UNCHANGED directoryVars
         \/ /\ r.generation = clientGeneration /\ again.mirror > mirrors
            /\ radioReplies' = radioReplies \ {r}
            /\ AnswerWith(r.asker, FALSE)
  /\ UNCHANGED <<mirrors, dnsLookup, mirrorWaiters, mirrorPosts, clientGeneration,
                 pendingClicks, clicks, savedVars>>

(* The 24 hours of cacheLifetimeSeconds pass. *)
ExpireStations ==
  /\ stationCache' = [k \in Keys |-> [stationCache[k] EXCEPT !.stale = TRUE]]
  /\ UNCHANGED <<clientVars, directoryGeneration, loadingStations, staleShown,
                 directoryError, shownOf, askedFor, savedVars>>

(* The providers' answers share the cache, and the prune() that ProviderGateway    *)
(* calls after storing one evicts rows of any namespace.                      *)
EvictStations(key) ==
  /\ stationCache[key].of # Nothing
  /\ stationCache' = [stationCache EXCEPT ![key] = [of |-> Nothing, stale |-> FALSE]]
  /\ UNCHANGED <<clientVars, directoryGeneration, loadingStations, staleShown,
                 directoryError, shownOf, askedFor, savedVars>>

-----------------------------------------------------------------------------
(* RadioController *)

Same(s, t) == (s.uuid # Nothing /\ s.uuid = t.uuid) \/ s.url = t.url

AddStation(s) ==
  /\ Len(savedStations) < MaxSaved
  /\ \A t \in Range(savedStations) : ~Same(s, t)
  /\ savedStations' = Append(savedStations, s)
  /\ UNCHANGED <<imports, clientVars, directoryVars>>

SaveListed(s) == s \in DirectoryStations /\ shownOf # Nothing /\ AddStation(s)
AddByHand(s) == s \in ImportedStations /\ AddStation(s)

ImportPlaylist ==
  /\ imports = 0 /\ Len(savedStations) < MaxSaved
  /\ imports' = 1
  /\ UNCHANGED <<savedStations, clientVars, directoryVars>>

(* An imported station is appended even when it is there already. *)
FinishImport ==
  /\ imports = 1
  /\ imports' = 0
  /\ \/ UNCHANGED savedStations
     \/ /\ Len(savedStations) < MaxSaved
        /\ \E s \in ImportedStations : savedStations' = Append(savedStations, s)
  /\ UNCHANGED <<clientVars, directoryVars>>

RemoveStation(row) ==
  /\ row \in 1..Len(savedStations)
  /\ savedStations' = RemoveAt(savedStations, row)
  /\ UNCHANGED <<imports, clientVars, directoryVars>>

RadioNext ==
  \/ \E n \in 0..MaxMirrors : FinishMirrorLookup(n)
  \/ RunPosted
  \/ PlayListed
  \/ PlaySaved
  \/ \E key \in Keys : RequestStations(key)
  \/ CancelDirectory
  \/ \E r \in radioReplies : ReplySucceeds(r)
  \/ \E r \in radioReplies : ReplyFails(r)
  \/ ExpireStations
  \/ \E key \in Keys : EvictStations(key)
  \/ \E s \in DirectoryStations : SaveListed(s)
  \/ \E s \in ImportedStations : AddByHand(s)
  \/ ImportPlaylist
  \/ FinishImport
  \/ \E row \in 1..MaxSaved : RemoveStation(row)

(* A lookup ends, a single shot fires, and a reply finishes: at the latest when  *)
(* requestTimeoutMilliseconds or the 15 seconds of a playlist have passed.      *)
LookupEnds == \E n \in 0..MaxMirrors : FinishMirrorLookup(n)
ReplyEnds == \E r \in radioReplies : ReplySucceeds(r) \/ ReplyFails(r)
RadioFairness ==
  WF_radioVars(LookupEnds) /\ WF_radioVars(RunPosted) /\ WF_radioVars(ReplyEnds)
RadioSpec == RadioInit /\ [][RadioNext]_radioVars /\ RadioFairness

-----------------------------------------------------------------------------
(* Every variable of the directory stays in its domain. *)
RadioTypeOK ==
  /\ {mirrors, clientGeneration, directoryGeneration, pendingClicks, clicks} \subseteq Nat
  /\ {dnsLookup, loadingStations, staleShown, directoryError} \subseteq BOOLEAN
  /\ {shownOf, askedFor} \subseteq Keys \cup {Nothing}
  /\ \A i, j \in 1..Len(savedStations) :
       savedStations[i].uuid = savedStations[j].uuid =>
         i = j \/ savedStations[i].uuid = Nothing
  /\ imports \in {0, 1}

Live(t) ==
  t # ClickThunk /\ t.generation = clientGeneration
  /\ t.asker.generation = directoryGeneration

LivePaths(thunks) == {i \in 1..Len(thunks) : Live(thunks[i])}

(* The page says that it is loading exactly while one lookup, single shot or     *)
(* reply will still answer the last request, however requests, cancels and        *)
(* failovers overlap; it shows the stations of that request or none, and a         *)
(* cache key holds the answer to itself.  This is about the two generations that   *)
(* requestFromMirror() and the callback of request() check.                   *)
OneLiveRequest ==
  /\ Cardinality(LivePaths(mirrorWaiters)) + Cardinality(LivePaths(mirrorPosts))
       + Cardinality({r \in radioReplies : Live(r)}) = IF loadingStations THEN 1 ELSE 0
  /\ shownOf \in {Nothing, askedFor}
  /\ \A k \in Keys : stationCache[k].of \in {Nothing, k}
  /\ mirrorWaiters # <<>> => dnsLookup
  /\ pendingClicks > 0 => ClickThunk \in Range(mirrorWaiters \o mirrorPosts)

(* The page stops loading and every recorded click is reported, whether the      *)
(* lookup finds mirrors, falls back, or every mirror fails.                    *)
RadioSettles ==
  /\ loadingStations ~> ~loadingStations
  /\ pendingClicks > 0 ~> pendingClicks = 0

=============================================================================
