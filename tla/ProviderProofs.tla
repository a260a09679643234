--------------------------- MODULE ProviderProofs ---------------------------
(*****************************************************************************)
(* The gateway, the accounts and the connections of the providers: what is shown and*)
(* cached answers the query, what is pending may come, a handle discloses the secret*)
(* of its account once, messages come out of the bytes as they were put in, and each*)
(* side of a connection gets the answers it expects, for any providers, accounts,*)
(* messages and sizes.                                                      *)
(*****************************************************************************)
EXTENDS ProviderGateway, ProviderAccounts, ProviderProtocol, SublistsProofs

-----------------------------------------------------------------------------
(* ProviderGateway *)

Sought == Queries \cup Cursors \cup {NoQuery}
About == [what : {"items", "resolve", "cancel", "shutdown"}, of : Sought]
Outs == UNION {[D -> About] : D \in SUBSET Nat}
Sups == [provider : Providers, state : {"starting", "ready", "ended"}, retired : BOOLEAN,
         next : Nat, first : Nat, outstanding : Outs]

(* Request numbers only grow, and those of a supervisor that starts are all new. *)
SupOK(sup) ==
  /\ sup \in Sups
  /\ sup.first <= sup.next
  /\ sup.state = "starting" => sup.first = sup.next
  /\ IsFiniteSet(DOMAIN sup.outstanding)
  /\ \A r \in DOMAIN sup.outstanding : r < sup.next

(* What is known at a supervisor of a request the gateway waits for *)
Awaited(sup, id, context) ==
  /\ id \in Nat /\ id < sup.next
  /\ id \in DOMAIN sup.outstanding =>
       sup.outstanding[id] = [what |-> context.kind, of |-> context.of]
  /\ sup.state = "ready" /\ id >= sup.first => id \in DOMAIN sup.outstanding

SupsOK(sups) == sups \in Seq(Sups) /\ \A s \in 1..Len(sups) : SupOK(sups[s])

(* The supervisor in the session of a provider is the only one that has not retired. *)
SessionsOK(sups, serve) ==
  /\ serve \in [Providers -> 1..Len(sups)]
  /\ \A p \in Providers : sups[serve[p]].provider = p /\ ~sups[serve[p]].retired
  /\ \A s \in 1..Len(sups) : ~sups[s].retired => serve[sups[s].provider] = s

WaitsFor(sups, k, context, generation, query) ==
  /\ context.asked \in 1..Len(sups)
  /\ sups[context.asked].provider = k[1]
  /\ Awaited(sups[context.asked], k[2], context)
  /\ context.generation = generation
  /\ context.kind \in {"items", "resolve"}
  /\ context.kind = "items" => context.of = query

RequestsOK(requests, sups, generation, query) ==
  /\ DOMAIN requests \subseteq Providers \X Nat /\ IsFiniteSet(DOMAIN requests)
  /\ \A k \in DOMAIN requests : WaitsFor(sups, k, requests[k], generation, query)

(* An account is searched once in a generation, for what was asked last in the    *)
(* present one.                                                            *)
Searches == [account : Accounts, of : Sought, generation : Nat, page : Nat]
SearchesOK(searches, generation, query) ==
  /\ searches \in SUBSET Searches /\ IsFiniteSet(searches)
  /\ \A x \in searches : x.generation <= generation /\ (x.generation = generation => x.of = query)
  /\ \A x, y \in searches : x.account = y.account /\ x.generation = y.generation => x = y

LiveOf(searches, generation) == {x \in searches : x.generation = generation}
Unanswered(requests, searches, generation) ==
  Cardinality(DOMAIN requests) + Cardinality(LiveOf(searches, generation))

NoneRetired(sups) == \A s \in 1..Len(sups) : ~sups[s].retired
CountOK(pending, unanswered, exact) ==
  /\ pending \in Nat /\ unanswered \in Nat /\ pending >= unanswered
  /\ exact => pending = unanswered

Sources == Providers \cup Accounts
Items == [source : Sources, of : Sought]
CacheEntries == [space : Sources, key : Sought, of : Sought, stale : BOOLEAN]
CacheOK(cache) == cache \in Seq(CacheEntries)
CacheRight(cache) == \A i \in 1..Len(cache) : cache[i].of = cache[i].key

GatewayTyped ==
  /\ gwGeneration \in Nat /\ searched \in Sought
  /\ offlineMode \in BOOLEAN /\ crossed \in BOOLEAN /\ misplayed \in BOOLEAN
  /\ gwItems \in SUBSET Items /\ CacheOK(providerCache)

AnswersRight ==
  crossed = TRUE \/ (/\ \A item \in gwItems : item.of = searched
                     /\ CacheRight(providerCache)
                     /\ misplayed = FALSE)

GatewayInv ==
  /\ SupsOK(supervisors) /\ SessionsOK(supervisors, serving)
  /\ RequestsOK(gwRequests, supervisors, gwGeneration, searched)
  /\ SearchesOK(accountSearches, gwGeneration, searched)
  /\ CountOK(gwPending, Unanswered(gwRequests, accountSearches, gwGeneration),
             NoneRetired(supervisors))
  /\ GatewayTyped /\ AnswersRight

USE GatewayAssumption

-----------------------------------------------------------------------------
(* Supervisors *)

(* The outstanding requests of a supervisor, by their numbers *)
LEMMA OutsFacts ==
  ASSUME NEW out \in Outs
  PROVE  /\ DOMAIN out \in SUBSET Nat /\ out = [r \in DOMAIN out |-> out[r]]
         /\ \A r \in DOMAIN out : out[r] \in About
  BY DEF Outs

(* Any numbers and what they are about may be outstanding, *)
LEMMA IsOut ==
  ASSUME NEW D \in SUBSET Nat, NEW out \in [D -> About]
  PROVE  out \in Outs
  BY DEF Outs

(* or none. *)
LEMMA NoneAreOut ==
  NoRequests \in Outs /\ DOMAIN NoRequests = {}
<1>1. {} \in SUBSET Nat /\ DOMAIN NoRequests = {}
  BY DEF NoRequests
<1>2. NoRequests \in [{} -> About]
  BY DEF NoRequests
<1> QED
  BY <1>1, <1>2, IsOut

(* What a supervisor consists of *)
LEMMA SupFields ==
  ASSUME NEW sup \in Sups
  PROVE  /\ sup.provider \in Providers /\ sup.state \in {"starting", "ready", "ended"}
         /\ sup.retired \in BOOLEAN /\ sup.next \in Nat /\ sup.first \in Nat
         /\ sup.outstanding \in Outs
  BY DEF Sups

(* The same supervisor, which has sent some requests more *)
Onward(new, sup) ==
  /\ SupOK(new)
  /\ new.provider = sup.provider /\ new.state = sup.state /\ new.retired = sup.retired
  /\ new.first = sup.first /\ sup.next <= new.next

(* ... and has lost none but those of some numbers *)
Keeps(new, sup, lost) ==
  /\ Onward(new, sup)
  /\ \A id \in DOMAIN sup.outstanding \ lost :
       id \in DOMAIN new.outstanding /\ new.outstanding[id] = sup.outstanding[id]
  /\ \A id \in DOMAIN new.outstanding :
       id >= sup.next \/ (id \in DOMAIN sup.outstanding /\ id \notin lost)

(* A request gets the next number, and the others stay outstanding. *)
LEMMA SentKeeps ==
  ASSUME NEW sup, SupOK(sup), sup.state = "ready", NEW about \in About
  PROVE  /\ Keeps(Sent(sup, about), sup, {})
         /\ Sent(sup, about).next = sup.next + 1
         /\ sup.next \in DOMAIN Sent(sup, about).outstanding
         /\ Sent(sup, about).outstanding[sup.next] = about
<1> DEFINE n == sup.next
           old == sup.outstanding
           out == [r \in DOMAIN old \cup {n} |-> IF r = n THEN about ELSE old[r]]
           new == [sup EXCEPT !.next = n + 1, !.outstanding = out]
<1>1. sup \in Sups /\ n \in Nat /\ old \in Outs
  BY SupFields DEF SupOK
<1>2. Sent(sup, about) = new
  BY <1>1 DEF Sent, Sups
<1>3. n \notin DOMAIN old
  BY <1>1 DEF SupOK
<1>4. /\ DOMAIN old \in SUBSET Nat /\ \A r \in DOMAIN old : old[r] \in About
  BY <1>1, OutsFacts
<1>5. out \in Outs
  <2>1. DOMAIN old \cup {n} \in SUBSET Nat /\ out \in [DOMAIN old \cup {n} -> About]
    BY <1>1, <1>4
  <2> HIDE DEF out, old, n
  <2> QED
    BY <2>1, IsOut
<1>6. /\ DOMAIN out = DOMAIN old \cup {n} /\ out[n] = about
      /\ \A r \in DOMAIN old : out[r] = old[r]
  BY <1>3
<1>7. IsFiniteSet(DOMAIN out)
  BY <1>6, FS_AddElement DEF SupOK
<1> HIDE DEF out
<1>8. /\ new \in Sups /\ new.provider = sup.provider /\ new.state = sup.state
      /\ new.retired = sup.retired /\ new.first = sup.first /\ new.next = n + 1
      /\ new.outstanding = out
  <2>1. n + 1 \in Nat
    BY <1>1
  <2> QED
    BY <1>1, <1>5, <2>1 DEF Sups
<1> HIDE DEF new
<1>9. SupOK(new)
  <2>1. new.first <= new.next
    BY <1>1, <1>8, SupFields DEF SupOK
  <2>2. \A r \in DOMAIN out : r < n + 1
    BY <1>1, <1>4, <1>6 DEF SupOK
  <2> QED
    BY <1>7, <1>8, <2>1, <2>2 DEF SupOK
<1>10. Onward(new, sup)
  BY <1>1, <1>8, <1>9 DEF Onward
<1>11. Keeps(new, sup, {})
  BY <1>1, <1>6, <1>8, <1>10 DEF Keeps
<1> QED
  BY <1>2, <1>6, <1>8, <1>11

(* A supervisor that stops asks for shutdown. *)
LEMMA StoppedKeeps ==
  ASSUME NEW sup, SupOK(sup)
  PROVE  Keeps(Stopped(sup), sup, {})
<1>1. [what |-> "shutdown", of |-> NoQuery] \in About
  BY DEF About, Sought
<1>2. CASE sup.state = "ready"
  BY <1>1, <1>2, SentKeeps DEF Stopped
<1>3. CASE sup.state # "ready"
  <2>1. sup.next \in Nat
    BY SupFields DEF SupOK
  <2> QED
    BY <1>3, <2>1 DEF Stopped, Keeps, Onward
<1> QED
  BY <1>2, <1>3

(* A supervisor that is told to cancel goes on with a request for each. *)
LEMMA CancelledKeeps ==
  ASSUME NEW sup, SupOK(sup), NEW ids
  PROVE  Onward(CancelledAt(sup, ids), sup)
<1>1. sup \in Sups /\ sup.next \in Nat /\ sup.outstanding \in Outs
  BY SupFields DEF SupOK
<1>2. CASE sup.state # "ready"
  BY <1>1, <1>2 DEF CancelledAt, Onward
<1>3. CASE sup.state = "ready"
  <2> DEFINE n == sup.next
             old == sup.outstanding
             dropped == ids \cap DOMAIN old
             asks == n..(n + Cardinality(dropped) - 1)
             cancel == [what |-> "cancel", of |-> NoQuery]
             out == [r \in (DOMAIN old \ dropped) \cup asks |->
                       IF r \in asks THEN cancel ELSE old[r]]
             m == n + Cardinality(dropped)
             new == [sup EXCEPT !.next = m, !.outstanding = out]
  <2>1. CancelledAt(sup, ids) = new
    BY <1>1, <1>3 DEF CancelledAt, Sups
  <2>2. IsFiniteSet(DOMAIN old) /\ IsFiniteSet(dropped) /\ Cardinality(dropped) \in Nat
    <3>1. IsFiniteSet(DOMAIN old)
      BY DEF SupOK
    <3>2. IsFiniteSet(dropped)
      BY <3>1, FS_Intersection
    <3> QED
      BY <3>1, <3>2, FS_CardinalityType
  <2>3. n \in Nat /\ m \in Nat /\ n <= m
    BY <1>1, <2>2
  <2>4. \A r \in asks : r \in Nat /\ r < m
    BY <2>2, <2>3
  <2>5. IsFiniteSet(asks)
    <3>1. n \in Int /\ n + Cardinality(dropped) - 1 \in Int
      BY <2>2, <2>3
    <3> QED
      BY <3>1, FS_Interval
  <2>6. DOMAIN old \in SUBSET Nat /\ \A r \in DOMAIN old : old[r] \in About /\ r < n
    BY <1>1, OutsFacts DEF SupOK
  <2>7. cancel \in About
    BY DEF About, Sought
  <2>8. DOMAIN out = (DOMAIN old \ dropped) \cup asks
    OBVIOUS
  <2>9. out \in [DOMAIN out -> About] /\ DOMAIN out \in SUBSET Nat
    <3> HIDE DEF asks, dropped, cancel, old
    <3> QED
      BY <2>4, <2>6, <2>7
  <2>10. IsFiniteSet(DOMAIN out)
    <3>1. IsFiniteSet(DOMAIN old \ dropped)
      BY <2>2, FS_Difference
    <3> QED
      BY <2>5, <2>8, <3>1, FS_Union
  <2>11. \A r \in DOMAIN out : r < m
    <3> HIDE DEF asks, dropped, cancel, old
    <3> QED
      BY <2>3, <2>4, <2>6, <2>8
  <2>12. out \in Outs
    <3> HIDE DEF out
    <3> QED
      BY <2>9, IsOut
  <2> HIDE DEF out, m
  <2>13. /\ new \in Sups /\ new.provider = sup.provider /\ new.state = sup.state
         /\ new.retired = sup.retired /\ new.first = sup.first /\ new.next = m
         /\ new.outstanding = out
    BY <1>1, <2>3, <2>12 DEF Sups
  <2> HIDE DEF new
  <2>14. SupOK(new)
    <3>1. new.first <= new.next
      BY <2>3, <2>13, <1>1, SupFields DEF SupOK
    <3> QED
      BY <1>3, <2>10, <2>11, <2>13, <3>1 DEF SupOK
  <2> QED
    BY <2>1, <2>3, <2>13, <2>14 DEF Onward
<1> QED
  BY <1>2, <1>3

(* An answer, or the end of the wait for one *)
LEMMA WithoutKeeps ==
  ASSUME NEW sup, SupOK(sup), NEW id
  PROVE  Keeps([sup EXCEPT !.outstanding = Without(sup.outstanding, {id})], sup, {id})
<1> DEFINE old == sup.outstanding
           out == Without(old, {id})
           new == [sup EXCEPT !.outstanding = out]
<1>1. sup \in Sups /\ sup.next \in Nat /\ old \in Outs
  BY SupFields DEF SupOK
<1>2. DOMAIN old \in SUBSET Nat /\ \A r \in DOMAIN old : old[r] \in About /\ r < sup.next
  BY <1>1, OutsFacts DEF SupOK
<1>3. DOMAIN out = DOMAIN old \ {id} /\ \A r \in DOMAIN old \ {id} : out[r] = old[r]
  BY DEF Without
<1>4. out \in Outs
  <2>1. DOMAIN old \ {id} \in SUBSET Nat /\ out \in [DOMAIN old \ {id} -> About]
    BY <1>2 DEF Without
  <2> HIDE DEF out, old
  <2> QED
    BY <2>1, IsOut
<1>5. IsFiniteSet(DOMAIN out)
  BY <1>3, FS_RemoveElement DEF SupOK
<1> HIDE DEF out
<1>6. /\ new \in Sups /\ new.provider = sup.provider /\ new.state = sup.state
      /\ new.retired = sup.retired /\ new.first = sup.first /\ new.next = sup.next
      /\ new.outstanding = out
  BY <1>1, <1>4 DEF Sups
<1> HIDE DEF new
<1>7. SupOK(new)
  BY <1>2, <1>3, <1>5, <1>6 DEF SupOK
<1>8. Keeps(new, sup, {id})
  BY <1>1, <1>2, <1>3, <1>6, <1>7 DEF Keeps, Onward
<1> QED
  BY <1>8 DEF new, out

(* A request that is waited for stays so, unless it is the one that was lost. *)
LEMMA KeptIsAwaited ==
  ASSUME NEW new, NEW sup, NEW lost, SupOK(sup), Keeps(new, sup, lost),
         NEW id, id \notin lost, NEW context, Awaited(sup, id, context)
  PROVE  Awaited(new, id, context)
<1>1. sup.next \in Nat /\ new.next \in Nat
  BY SupFields DEF Keeps, Onward, SupOK
<1> QED
  BY <1>1 DEF Awaited, Keeps, Onward

(* A supervisor that goes on stays the supervisor of its provider. *)
LEMMA OnwardIsSup ==
  ASSUME NEW new, NEW sup, Onward(new, sup)
  PROVE  SupOK(new) /\ new.provider = sup.provider /\ new.retired = sup.retired
  BY DEF Onward

-----------------------------------------------------------------------------
(* The cache *)

(* The limits of the cache and of a browse are numbers. *)
LEMMA BoundIsNumber == MaxCached \in Nat /\ MaxPages \in Nat
  OBVIOUS

(* Some entries of a cache *)
LEMMA SomeEntries ==
  ASSUME NEW cache, CacheOK(cache), NEW places \in SUBSET (1..Len(cache))
  PROVE  /\ Sublist(cache, places) \in Seq(CacheEntries)
         /\ Len(Sublist(cache, places)) = Cardinality(places)
         /\ Cardinality(places) \in Nat /\ Cardinality(places) <= Len(cache)
         /\ CacheOK(Sublist(cache, places))
         /\ CacheRight(cache) => CacheRight(Sublist(cache, places))
<1> DEFINE sub == Sublist(cache, places)
<1>1. cache \in Seq(CacheEntries) /\ Len(cache) \in Nat
  BY LenProperties DEF CacheOK
<1>2. /\ sub \in Seq(CacheEntries) /\ Len(sub) = Cardinality(places) /\ Cardinality(places) \in Nat
      /\ Cardinality(places) <= Len(cache)
      /\ \A k \in 1..Len(sub) : \E p \in places : sub[k] = cache[p]
  <2>1. /\ sub \in Seq(CacheEntries) /\ Len(sub) = Cardinality(places)
        /\ Cardinality(places) \in Nat /\ Cardinality(places) <= Len(cache)
    BY <1>1, SublistProperties
  <2>2. \A k \in 1..Len(sub) : \E p \in places : sub[k] = cache[p]
    BY <1>1, SublistProperties
  <2> QED
    BY <2>1, <2>2
<1> HIDE DEF sub
<1>3. CacheRight(cache) => CacheRight(sub)
  BY <1>2 DEF CacheRight
<1>4. CacheOK(sub)
  BY <1>1, <1>2, BoundIsNumber DEF CacheOK
<1> QED
  BY <1>2, <1>3, <1>4 DEF sub

(* Entries that are read move to the back of the cache. *)
LEMMA TouchedKeeps ==
  ASSUME GatewayInv, NEW sources, NEW key
  PROVE  /\ CacheOK(Touched(sources, key))
         /\ CacheRight(providerCache) => CacheRight(Touched(sources, key))
<1> DEFINE hits == {i \in DOMAIN providerCache : Hit(providerCache[i], sources, key)}
           rest == DOMAIN providerCache \ hits
           a == Sublist(providerCache, rest)
           b == Sublist(providerCache, hits)
<1>1. CacheOK(providerCache)
  BY DEF GatewayInv, GatewayTyped
<1>2. providerCache \in Seq(CacheEntries) /\ Len(providerCache) \in Nat
      /\ DOMAIN providerCache = 1..Len(providerCache)
  BY <1>1, LenProperties DEF CacheOK
<1>3. hits \in SUBSET (1..Len(providerCache)) /\ rest \in SUBSET (1..Len(providerCache))
      /\ rest \cup hits = 1..Len(providerCache) /\ rest \cap hits = {}
  BY <1>2
<1> HIDE DEF hits, rest
<1>4. /\ a \in Seq(CacheEntries) /\ Len(a) = Cardinality(rest) /\ Cardinality(rest) \in Nat
      /\ b \in Seq(CacheEntries) /\ Len(b) = Cardinality(hits) /\ Cardinality(hits) \in Nat
      /\ CacheRight(providerCache) => CacheRight(a) /\ CacheRight(b)
  BY <1>1, <1>3, SomeEntries
<1>5. Cardinality(rest) + Cardinality(hits) = Len(providerCache)
  <2>1. IsFiniteSet(1..Len(providerCache))
        /\ Cardinality(1..Len(providerCache)) = Len(providerCache)
    BY <1>2, CountUpTo
  <2>2. IsFiniteSet(rest) /\ IsFiniteSet(hits)
    BY <1>3, <2>1, FS_Subset
  <2>3. Cardinality(rest \cup hits) = Cardinality(rest) + Cardinality(hits) - Cardinality({})
    BY <1>3, <2>2, FS_Union
  <2>4. Cardinality({}) = 0
    BY FS_EmptySet
  <2>5. Cardinality(rest \cup hits) = Len(providerCache)
    BY <1>3, <2>1
  <2> QED
    BY <1>2, <1>4, <2>3, <2>4, <2>5
<1> HIDE DEF a, b
<1>6. /\ a \o b \in Seq(CacheEntries) /\ Len(a \o b) = Len(a) + Len(b)
      /\ \A i \in 1..(Len(a) + Len(b)) :
           (a \o b)[i] = IF i <= Len(a) THEN a[i] ELSE b[i - Len(a)]
  BY <1>4, ConcatProperties
<1>7. CacheRight(providerCache) => CacheRight(a \o b)
  <2> SUFFICES ASSUME CacheRight(providerCache), NEW i \in 1..Len(a \o b)
               PROVE  (a \o b)[i].of = (a \o b)[i].key
    BY DEF CacheRight
  <2>1. CASE i <= Len(a)
    <3>1. i \in 1..Len(a) /\ (a \o b)[i] = a[i]
      BY <1>4, <1>6, <2>1
    <3> QED
      BY <3>1, <1>4 DEF CacheRight
  <2>2. CASE ~(i <= Len(a))
    <3>1. i - Len(a) \in 1..Len(b) /\ (a \o b)[i] = b[i - Len(a)]
      BY <1>4, <1>6, <2>2
    <3> QED
      BY <3>1, <1>4 DEF CacheRight
  <2> QED
    BY <2>1, <2>2
<1>8. CacheOK(a \o b)
  BY <1>1, <1>4, <1>5, <1>6 DEF CacheOK
<1> QED
  BY <1>7, <1>8 DEF Touched, a, b, rest, hits

(* The entries that prune() has left *)
LEMMA PrunedKeeps ==
  ASSUME NEW entries \in Seq(CacheEntries), NEW evicted \in 0..Excess(entries)
  PROVE  LET left == SubSeq(entries, evicted + 1, Len(entries))
         IN  CacheOK(left) /\ (CacheRight(entries) => CacheRight(left))
<1> DEFINE m == evicted + 1
           n == Len(entries)
           left == SubSeq(entries, m, n)
<1>1. n \in Nat /\ \A i \in 1..n : entries[i] \in CacheEntries
  BY LenProperties, ElementOfSeq
<1>2. evicted \in Nat /\ m \in Nat /\ m >= 1 /\ m <= n + 1
  <2>1. MaxCached \in Nat
    BY BoundIsNumber
  <2> QED
    BY <1>1, <2>1 DEF Excess
<1>3. \A i \in m..n : i \in 1..n
  BY <1>1, <1>2
<1> HIDE DEF m, n
<1>4. \A i \in m..n : entries[i] \in CacheEntries
  BY <1>1, <1>3
<1>5. /\ left \in Seq(CacheEntries) /\ Len(left) = (IF m <= n THEN n - m + 1 ELSE 0)
      /\ \A i \in 1..(n - m + 1) : left[i] = entries[m + i - 1]
  BY <1>1, <1>2, <1>4, SubSeqProperties
<1> HIDE DEF left
<1>6. \A i \in 1..Len(left) : left[i] = entries[m + i - 1] /\ m + i - 1 \in 1..n
  BY <1>1, <1>2, <1>5
<1>7. CacheRight(entries) => CacheRight(left)
  BY <1>6 DEF CacheRight, n
<1> QED
  BY <1>5, <1>7 DEF CacheOK, left, m, n

(* An answer is cached under its query. *)
LEMMA PutKeeps ==
  ASSUME GatewayInv, NEW space \in Sources, NEW key \in Sought, NEW of \in Sought,
         PutAndPrune(space, key, of)
  PROVE  /\ CacheOK(providerCache')
         /\ CacheRight(providerCache) /\ of = key => CacheRight(providerCache')
<1> DEFINE others == {i \in DOMAIN providerCache : ~IsEntry(providerCache[i], space, key)}
           sub == Sublist(providerCache, others)
           entry == [space |-> space, key |-> key, of |-> of, stale |-> FALSE]
           put == Append(sub, entry)
<1>1. CacheOK(providerCache)
  BY DEF GatewayInv, GatewayTyped
<1>2. providerCache \in Seq(CacheEntries) /\ others \in SUBSET (1..Len(providerCache))
  BY <1>1 DEF CacheOK
<1>3. PICK entries \in {providerCache, put} :
        \E evicted \in 0..Excess(entries) :
          providerCache' = SubSeq(entries, evicted + 1, Len(entries))
  BY DEF PutAndPrune
<1> HIDE DEF others
<1>4. sub \in Seq(CacheEntries) /\ (CacheRight(providerCache) => CacheRight(sub))
  BY <1>1, <1>2, SomeEntries
<1> HIDE DEF sub
<1>5. entry \in CacheEntries /\ entry.of = of /\ entry.key = key
  BY DEF CacheEntries
<1> HIDE DEF entry
<1>6. /\ put \in Seq(CacheEntries) /\ Len(put) = Len(sub) + 1 /\ Len(sub) \in Nat
      /\ \A i \in 1..Len(sub) : put[i] = sub[i]
      /\ put[Len(sub) + 1] = entry
  BY <1>4, <1>5, AppendProperties, LenProperties
<1>7. ASSUME CacheRight(providerCache), of = key PROVE CacheRight(put)
  <2>1. \A i \in 1..Len(put) : i \in 1..Len(sub) \/ i = Len(sub) + 1
    BY <1>6
  <2> QED
    BY <2>1, <1>4, <1>5, <1>6, <1>7 DEF CacheRight
<1> HIDE DEF put
<1>8. entries \in Seq(CacheEntries)
  BY <1>2, <1>3, <1>6
<1>9. CacheOK(providerCache') /\ (CacheRight(entries) => CacheRight(providerCache'))
  BY <1>3, <1>8, PrunedKeeps
<1> QED
  BY <1>3, <1>7, <1>9

-----------------------------------------------------------------------------
(* Supervisors that move while the sessions stay *)

Moved(news, sups) ==
  /\ news \in Seq(Sups) /\ Len(news) = Len(sups)
  /\ \A s \in 1..Len(sups) :
       /\ SupOK(news[s])
       /\ news[s].provider = sups[s].provider /\ news[s].retired = sups[s].retired

(* As long as supervisors only go on, the sessions are theirs. *)
LEMMA MovedKeepsSessions ==
  ASSUME NEW sups, NEW news, Moved(news, sups), NEW serve, SessionsOK(sups, serve)
  PROVE  /\ SupsOK(news) /\ SessionsOK(news, serve)
         /\ NoneRetired(news) <=> NoneRetired(sups)
  BY DEF Moved, SupsOK, SessionsOK, NoneRetired

(* A function on 1..n is a sequence. *)
LEMMA SeqOfFunction ==
  ASSUME NEW S, NEW n \in Nat, NEW f \in [1..n -> S]
  PROVE  f \in Seq(S) /\ Len(f) = n
<1>1. f \in Seq(S)
  BY SeqDef
<1> QED
  BY <1>1, LenProperties

(* One supervisor goes on and the others rest. *)
LEMMA OneMoved ==
  ASSUME NEW sups, SupsOK(sups), NEW s \in 1..Len(sups), NEW new, SupOK(new),
         new.provider = sups[s].provider, new.retired = sups[s].retired,
         NEW news, news = [sups EXCEPT ![s] = new]
  PROVE  /\ Moved(news, sups) /\ news[s] = new
         /\ \A t \in 1..Len(sups) : t # s => news[t] = sups[t]
<1> DEFINE n == Len(sups)
<1>1. n \in Nat /\ sups \in [1..n -> Sups] /\ \A t \in 1..n : SupOK(sups[t])
  BY LenProperties DEF SupsOK
<1>2. new \in Sups
  BY DEF SupOK
<1>3. news \in [1..n -> Sups] /\ news[s] = new /\ \A t \in 1..n : t # s => news[t] = sups[t]
  BY <1>1, <1>2
<1>4. news \in Seq(Sups) /\ Len(news) = n
  <2> HIDE DEF n
  <2> QED
    BY <1>1, <1>3, SeqOfFunction
<1>5. Moved(news, sups)
  BY <1>1, <1>3, <1>4 DEF Moved
<1> QED
  BY <1>3, <1>5

(* Requests that stay: fewer of them, at supervisors that go on, and maybe with    *)
(* others after them *)
Survive(fewer, news, requests, sups) ==
  /\ DOMAIN fewer \in SUBSET (DOMAIN requests)
  /\ Len(sups) \in Nat /\ Len(news) \in Nat /\ Len(sups) <= Len(news)
  /\ \A k \in DOMAIN fewer :
       /\ fewer[k] = requests[k]
       /\ news[requests[k].asked].provider = sups[requests[k].asked].provider
       /\ Awaited(sups[requests[k].asked], k[2], requests[k])
            => Awaited(news[requests[k].asked], k[2], requests[k])

(* Fewer requests wait for the same answers. *)
LEMMA FewerRequests ==
  ASSUME NEW sups, NEW news, NEW requests, NEW fewer, NEW generation, NEW query,
         RequestsOK(requests, sups, generation, query), Survive(fewer, news, requests, sups)
  PROVE  RequestsOK(fewer, news, generation, query)
<1>1. IsFiniteSet(DOMAIN fewer) /\ DOMAIN fewer \subseteq Providers \X Nat
  BY FS_Subset DEF RequestsOK, Survive
<1>2. ASSUME NEW k \in DOMAIN fewer PROVE WaitsFor(news, k, fewer[k], generation, query)
  <2>1. WaitsFor(sups, k, requests[k], generation, query) /\ fewer[k] = requests[k]
    BY DEF RequestsOK, Survive
  <2>2. requests[k].asked \in 1..Len(news)
    BY <2>1 DEF WaitsFor, Survive
  <2> QED
    BY <2>1, <2>2 DEF WaitsFor, Survive
<1> QED
  BY <1>1, <1>2 DEF RequestsOK

(* What the invariant says, part by part *)
LEMMA InvParts ==
  ASSUME GatewayInv
  PROVE  /\ SupsOK(supervisors) /\ SessionsOK(supervisors, serving)
         /\ RequestsOK(gwRequests, supervisors, gwGeneration, searched)
         /\ SearchesOK(accountSearches, gwGeneration, searched)
         /\ CountOK(gwPending, Unanswered(gwRequests, accountSearches, gwGeneration),
                    NoneRetired(supervisors))
         /\ GatewayTyped /\ AnswersRight
         /\ Len(supervisors) \in Nat /\ DOMAIN supervisors = 1..Len(supervisors)
         /\ \A s \in 1..Len(supervisors) : SupOK(supervisors[s]) /\ supervisors[s] \in Sups
<1>1. SupsOK(supervisors)
  BY DEF GatewayInv
<1>2. Len(supervisors) \in Nat /\ DOMAIN supervisors = 1..Len(supervisors)
  BY <1>1, LenProperties DEF SupsOK
<1>3. \A s \in 1..Len(supervisors) : SupOK(supervisors[s]) /\ supervisors[s] \in Sups
  BY <1>1 DEF SupsOK, SupOK
<1> QED
  BY <1>1, <1>2, <1>3 DEF GatewayInv

(* One supervisor goes on in a step of the gateway. *)
LEMMA OneSupMoved ==
  ASSUME GatewayInv, NEW s \in 1..Len(supervisors), NEW new, SupOK(new),
         supervisors' = [supervisors EXCEPT ![s] = new],
         new.provider = supervisors[s].provider, new.retired = supervisors[s].retired
  PROVE  /\ Moved(supervisors', supervisors) /\ supervisors'[s] = new
         /\ \A t \in 1..Len(supervisors) : t # s => supervisors'[t] = supervisors[t]
  BY InvParts, OneMoved

(* The generation, the items and the cache are left alone, or written rightly. *)
LEMMA RestKeeps ==
  ASSUME GatewayTyped, AnswersRight,
         UNCHANGED <<gwGeneration, gwItems, misplayed, searched, crossed>>,
         offlineMode' \in BOOLEAN, CacheOK(providerCache'),
         CacheRight(providerCache) => CacheRight(providerCache')
  PROVE  GatewayTyped' /\ AnswersRight'
<1>1. crossed' = crossed /\ misplayed' = misplayed /\ gwItems' = gwItems /\ searched' = searched
      /\ gwGeneration' = gwGeneration
  OBVIOUS
<1>2. GatewayTyped'
  BY <1>1 DEF GatewayTyped
<1>3. AnswersRight'
  BY <1>1 DEF AnswersRight
<1> QED
  BY <1>2, <1>3

(* One supervisor moves, and nothing else. *)
LEMMA OneSupKeeps ==
  ASSUME GatewayInv, NEW s \in 1..Len(supervisors), NEW new,
         supervisors' = [supervisors EXCEPT ![s] = new], SupOK(new),
         new.provider = supervisors[s].provider, new.retired = supervisors[s].retired,
         \A id, context : Awaited(supervisors[s], id, context) => Awaited(new, id, context),
         UNCHANGED <<serving, waitingVars, gwGeneration, offlineMode, gwAccountVars, answerVars,
                     searched, crossed>>
  PROVE  GatewayInv'
<1>1. /\ Moved(supervisors', supervisors) /\ supervisors'[s] = new
      /\ \A t \in 1..Len(supervisors) : t # s => supervisors'[t] = supervisors[t]
  BY OneSupMoved
<1>2. /\ UNCHANGED <<serving, gwRequests, gwPending, gwGeneration, offlineMode, accountSearches>>
      /\ UNCHANGED <<gwItems, providerCache, misplayed, searched, crossed>>
  BY DEF waitingVars, gwAccountVars, answerVars
<1>3. /\ SupsOK(supervisors') /\ SessionsOK(supervisors', serving')
      /\ NoneRetired(supervisors') <=> NoneRetired(supervisors)
  BY <1>1, <1>2, InvParts, MovedKeepsSessions
<1>4. RequestsOK(gwRequests', supervisors', gwGeneration', searched')
  <2>1. \A k \in DOMAIN gwRequests : gwRequests[k].asked \in 1..Len(supervisors)
    BY InvParts DEF RequestsOK, WaitsFor
  <2>2. \A t \in 1..Len(supervisors) :
          /\ supervisors'[t].provider = supervisors[t].provider
          /\ \A id, context : Awaited(supervisors[t], id, context)
                                => Awaited(supervisors'[t], id, context)
    BY <1>1 DEF Moved
  <2>3. Survive(gwRequests, supervisors', gwRequests, supervisors)
    BY <1>1, <2>1, <2>2, InvParts DEF Survive, Moved
  <2>4. RequestsOK(gwRequests, supervisors', gwGeneration, searched)
    BY <2>3, InvParts, FewerRequests
  <2> QED
    BY <1>2, <2>4
<1>5. CountOK(gwPending', Unanswered(gwRequests', accountSearches', gwGeneration'),
              NoneRetired(supervisors'))
  BY <1>2, <1>3, InvParts DEF CountOK
<1>6. SearchesOK(accountSearches', gwGeneration', searched')
  BY <1>2, InvParts
<1>7. GatewayTyped' /\ AnswersRight'
  <2>1. offlineMode' \in BOOLEAN /\ CacheOK(providerCache')
        /\ (CacheRight(providerCache) => CacheRight(providerCache'))
    BY <1>2, InvParts DEF GatewayTyped
  <2> QED
    BY <1>2, <2>1, InvParts, RestKeeps
<1> QED
  BY <1>3, <1>4, <1>5, <1>6, <1>7 DEF GatewayInv

(* A provider shakes hands, *)
LEMMA SupervisorReadyKeeps ==
  ASSUME GatewayInv, NEW s \in 1..Len(supervisors), SupervisorReady(s)
  PROVE  GatewayInv'
<1> DEFINE sup == supervisors[s]
           new == [sup EXCEPT !.state = "ready"]
<1>1. sup \in Sups /\ SupOK(sup)
  BY InvParts
<1>2. /\ new \in Sups /\ new.provider = sup.provider /\ new.retired = sup.retired
      /\ new.next = sup.next /\ new.first = sup.first /\ new.outstanding = sup.outstanding
      /\ new.state = "ready"
  BY <1>1 DEF Sups
<1>3. sup.state = "starting" /\ supervisors' = [supervisors EXCEPT ![s] = new]
  BY DEF SupervisorReady
<1> HIDE DEF new
<1>4. SupOK(new)
  BY <1>1, <1>2 DEF SupOK
<1>5. \A id, context : Awaited(sup, id, context) => Awaited(new, id, context)
  BY <1>1, <1>2, <1>3, SupFields DEF Awaited, SupOK
<1> QED
  BY <1>2, <1>3, <1>4, <1>5, OneSupKeeps DEF SupervisorReady

(* starts again with new numbers, *)
LEMMA SupervisorRestartsKeeps ==
  ASSUME GatewayInv, NEW s \in 1..Len(supervisors), SupervisorRestarts(s)
  PROVE  GatewayInv'
<1> DEFINE sup == supervisors[s]
           new == [sup EXCEPT !.state = "starting", !.first = sup.next]
<1>1. sup \in Sups /\ SupOK(sup) /\ sup.next \in Nat
  BY InvParts, SupFields
<1>2. /\ new \in Sups /\ new.provider = sup.provider /\ new.retired = sup.retired
      /\ new.next = sup.next /\ new.first = sup.next /\ new.outstanding = sup.outstanding
      /\ new.state = "starting"
  BY <1>1 DEF Sups
<1>3. supervisors' = [supervisors EXCEPT ![s] = new]
  BY InvParts DEF SupervisorRestarts
<1> HIDE DEF new
<1>4. SupOK(new)
  BY <1>1, <1>2 DEF SupOK
<1>5. \A id, context : Awaited(sup, id, context) => Awaited(new, id, context)
  BY <1>1, <1>2 DEF Awaited
<1> QED
  BY <1>2, <1>3, <1>4, <1>5, OneSupKeeps DEF SupervisorRestarts

(* or ends, and with it what it owed. *)
LEMMA SupervisorEndsKeeps ==
  ASSUME GatewayInv, NEW s \in 1..Len(supervisors), SupervisorEnds(s)
  PROVE  GatewayInv'
<1> DEFINE sup == supervisors[s]
           new == [sup EXCEPT !.state = "ended", !.outstanding = NoRequests]
<1>1. sup \in Sups /\ SupOK(sup) /\ sup.next \in Nat
  BY InvParts, SupFields
<1>2. NoRequests \in Outs /\ DOMAIN NoRequests = {}
  BY NoneAreOut
<1>3. /\ new \in Sups /\ new.provider = sup.provider /\ new.retired = sup.retired
      /\ new.next = sup.next /\ new.first = sup.first /\ new.outstanding = NoRequests
      /\ new.state = "ended"
  BY <1>1, <1>2 DEF Sups
<1>4. supervisors' = [supervisors EXCEPT ![s] = new]
  BY InvParts DEF SupervisorEnds
<1> HIDE DEF new
<1>5. SupOK(new)
  BY <1>1, <1>2, <1>3, FS_EmptySet DEF SupOK
<1>6. \A id, context : Awaited(sup, id, context) => Awaited(new, id, context)
  BY <1>1, <1>2, <1>3 DEF Awaited
<1> QED
  BY <1>3, <1>4, <1>5, <1>6, OneSupKeeps DEF SupervisorEnds

-----------------------------------------------------------------------------
(* Cache, offline mode and accounts *)

(* A step that changes the cache or the mode alone *)
LEMMA OnlyCacheKeeps ==
  ASSUME GatewayInv,
         UNCHANGED <<supervisors, serving, waitingVars, gwGeneration, gwItems,
                     accountSearches, searched, misplayed, crossed>>,
         offlineMode' \in BOOLEAN, CacheOK(providerCache'),
         CacheRight(providerCache) => CacheRight(providerCache')
  PROVE  GatewayInv'
<1>1. /\ UNCHANGED <<supervisors, serving, gwRequests, gwPending, gwGeneration, accountSearches>>
      /\ UNCHANGED <<gwItems, misplayed, searched, crossed>>
  BY DEF waitingVars
<1>2. GatewayTyped' /\ AnswersRight'
  BY <1>1, InvParts, RestKeeps
<1> QED
  BY <1>1, <1>2, InvParts DEF GatewayInv

(* Cached answers grow too old. *)
LEMMA ExpireCacheKeeps ==
  ASSUME GatewayInv, ExpireCache
  PROVE  GatewayInv'
<1> DEFINE n == Len(providerCache)
<1>1. /\ providerCache \in Seq(CacheEntries) /\ n \in Nat
      /\ DOMAIN providerCache = 1..n /\ \A i \in 1..n : providerCache[i] \in CacheEntries
  BY InvParts, LenProperties, ElementOfSeq DEF GatewayTyped, CacheOK
<1>2. providerCache' = [i \in 1..n |-> [providerCache[i] EXCEPT !.stale = TRUE]]
  BY <1>1 DEF ExpireCache
<1>3. \A i \in 1..n : /\ providerCache'[i] \in CacheEntries
                     /\ providerCache'[i].of = providerCache[i].of
                     /\ providerCache'[i].key = providerCache[i].key
  <2> TAKE i \in 1..n
  <2> DEFINE e == providerCache[i]
  <2>1. e \in CacheEntries /\ providerCache'[i] = [e EXCEPT !.stale = TRUE]
    BY <1>1, <1>2
  <2> HIDE DEF e
  <2>2. /\ [e EXCEPT !.stale = TRUE] \in CacheEntries /\ [e EXCEPT !.stale = TRUE].of = e.of
        /\ [e EXCEPT !.stale = TRUE].key = e.key
    BY <2>1 DEF CacheEntries
  <2> QED
    BY <2>1, <2>2 DEF e
<1>4. providerCache' \in [1..n -> CacheEntries]
  BY <1>2, <1>3
<1> HIDE DEF n
<1>5. providerCache' \in Seq(CacheEntries) /\ Len(providerCache') = n
  BY <1>1, <1>4, SeqOfFunction
<1>6. CacheOK(providerCache')
  BY <1>1, <1>5 DEF CacheOK
<1>7. CacheRight(providerCache) => CacheRight(providerCache')
  BY <1>3, <1>5 DEF CacheRight, n
<1>8. offlineMode' \in BOOLEAN
  BY InvParts DEF ExpireCache, GatewayTyped
<1> QED
  BY <1>6, <1>7, <1>8, OnlyCacheKeeps DEF ExpireCache, gwAccountVars

(* An account is enabled, disabled or removed, and its cached answers with it. *)
LEMMA SetAccountKeeps ==
  ASSUME GatewayInv, NEW a \in Accounts, NEW status, SetAccount(a, status)
  PROVE  GatewayInv'
<1> DEFINE left == {i \in DOMAIN providerCache : providerCache[i].space # a}
<1>1. CacheOK(providerCache) /\ offlineMode \in BOOLEAN
  BY InvParts DEF GatewayTyped
<1>2. left \in SUBSET (1..Len(providerCache))
  BY <1>1, LenProperties DEF CacheOK
<1>3. providerCache' = Sublist(providerCache, left) \/ providerCache' = providerCache
  BY DEF SetAccount
<1> HIDE DEF left
<1>4. CacheOK(providerCache') /\ (CacheRight(providerCache) => CacheRight(providerCache'))
  BY <1>1, <1>2, <1>3, SomeEntries
<1> QED
  BY <1>1, <1>4, OnlyCacheKeeps DEF SetAccount

(* The user goes offline, or online. *)
LEMMA SetOfflineModeKeeps ==
  ASSUME GatewayInv, SetOfflineMode
  PROVE  GatewayInv'
<1>1. /\ UNCHANGED <<supervisors, serving, waitingVars, gwGeneration, gwItems,
                     accountSearches, searched, misplayed, crossed, providerCache>>
      /\ offlineMode' \in BOOLEAN
  BY DEF SetOfflineMode, gwAccountVars, answerVars
<1> QED
  BY <1>1, InvParts, OnlyCacheKeeps DEF GatewayTyped
-----------------------------------------------------------------------------
(* Responses *)

(* Two things a supervisor does in a row are like one, *)
LEMMA KeepsInTurn ==
  ASSUME NEW new, NEW mid, NEW sup, NEW lost, SupOK(sup), Keeps(mid, sup, lost),
         Keeps(new, mid, {})
  PROVE  Keeps(new, sup, lost)
<1>1. sup.next \in Nat /\ mid.next \in Nat /\ new.next \in Nat
  BY SupFields DEF Keeps, Onward, SupOK
<1>2. \A id \in DOMAIN new.outstanding : id \in Nat
  BY SupFields, OutsFacts DEF Keeps, Onward, SupOK
<1>3. Onward(new, sup)
  BY <1>1 DEF Keeps, Onward
<1>4. \A id \in DOMAIN sup.outstanding \ lost :
       id \in DOMAIN new.outstanding /\ new.outstanding[id] = sup.outstanding[id]
  BY DEF Keeps
<1>5. ASSUME NEW id \in DOMAIN new.outstanding
      PROVE  id >= sup.next \/ (id \in DOMAIN sup.outstanding /\ id \notin lost)
  <2>1. id >= mid.next \/ id \in DOMAIN mid.outstanding
    BY DEF Keeps
  <2>2. id \in DOMAIN mid.outstanding => id >= sup.next \/ (id \in DOMAIN sup.outstanding /\ id \notin lost)
    BY DEF Keeps
  <2>3. id >= mid.next => id >= sup.next
    BY <1>1, <1>2 DEF Keeps, Onward
  <2> QED
    BY <2>1, <2>2, <2>3
<1> QED
  BY <1>3, <1>4, <1>5 DEF Keeps

(* All requests but those that were lost are still waited for. *)
OnlyMoves(news, sups, s, lost) ==
  /\ Moved(news, sups) /\ Keeps(news[s], sups[s], lost)
  /\ \A t \in 1..Len(sups) : t # s => news[t] = sups[t]

LeftOf(fewer, requests, p, lost) ==
  /\ DOMAIN fewer \in SUBSET (DOMAIN requests)
  /\ \A k \in DOMAIN fewer : fewer[k] = requests[k]
  /\ \A id \in lost : <<p, id>> \notin DOMAIN fewer

(* The requests to the other providers do not notice. *)
LEMMA OthersSurvive ==
  ASSUME GatewayInv, NEW s \in 1..Len(supervisors), NEW lost, NEW news,
         OnlyMoves(news, supervisors, s, lost), NEW fewer,
         LeftOf(fewer, gwRequests, supervisors[s].provider, lost)
  PROVE  RequestsOK(fewer, news, gwGeneration, searched)
<1> DEFINE new == news[s]
<1> USE DEF OnlyMoves, LeftOf
<1>1. Len(supervisors) \in Nat /\ Len(news) = Len(supervisors)
  BY InvParts DEF Moved
<1>2. ASSUME NEW k \in DOMAIN fewer
      PROVE  /\ fewer[k] = gwRequests[k]
             /\ news[gwRequests[k].asked].provider = supervisors[gwRequests[k].asked].provider
             /\ Awaited(supervisors[gwRequests[k].asked], k[2], gwRequests[k])
                  => Awaited(news[gwRequests[k].asked], k[2], gwRequests[k])
  <2> DEFINE t == gwRequests[k].asked
  <2>1. WaitsFor(supervisors, k, gwRequests[k], gwGeneration, searched) /\ k \in Providers \X Nat
    BY InvParts DEF RequestsOK
  <2>2. t \in 1..Len(supervisors) /\ supervisors[t].provider = k[1]
        /\ Awaited(supervisors[t], k[2], gwRequests[k])
    BY <2>1 DEF WaitsFor
  <2>3. news[t].provider = supervisors[t].provider
    BY <2>2 DEF Moved
  <2>4. CASE t = s
    <3>1. k = <<supervisors[s].provider, k[2]>>
      BY <2>1, <2>2, <2>4
    <3>2. k[2] \notin lost
      BY <3>1
    <3>3. SupOK(supervisors[s])
      BY InvParts
    <3>4. Awaited(supervisors[s], k[2], gwRequests[k])
      BY <2>2, <2>4
    <3>5. Awaited(new, k[2], gwRequests[k])
      BY <3>2, <3>3, <3>4, KeptIsAwaited
    <3> QED
      BY <2>3, <2>4, <3>5
  <2>5. CASE t # s
    BY <2>2, <2>3, <2>5
  <2> QED
    BY <2>4, <2>5
<1>3. Survive(fewer, news, gwRequests, supervisors)
  BY <1>1, <1>2 DEF Survive
<1> QED
  BY <1>3, InvParts, FewerRequests

(* A finite set less one of its elements *)
LEMMA OneLess ==
  ASSUME NEW D, IsFiniteSet(D), NEW x \in D
  PROVE  /\ Cardinality(D \ {x}) = Cardinality(D) - 1
         /\ Cardinality(D) \in Nat /\ Cardinality(D) # 0
<1>1. Cardinality(D) \in Nat /\ Cardinality(D \ {x}) = Cardinality(D) - 1
  BY FS_RemoveElement, FS_CardinalityType
<1>2. Cardinality(D \ {x}) \in Nat
  BY FS_RemoveElement, FS_CardinalityType
<1> QED
  BY <1>1, <1>2

(* An answer counts down what is pending, never below zero. *)
LEMMA CountedDown ==
  ASSUME NEW n, NEW c, NEW exact, CountOK(n, c, exact), c # 0
  PROVE  CountOK(Decrement(n), c - 1, exact)
<1>1. n \in Nat /\ c \in Nat /\ n >= c /\ (exact => n = c)
  BY DEF CountOK
<1>2. Decrement(n) = n - 1 /\ n - 1 \in Nat /\ c - 1 \in Nat /\ n - 1 >= c - 1
  BY <1>1 DEF Decrement
<1>3. exact => Decrement(n) = c - 1
  BY <1>1, <1>2
<1> QED
  BY <1>2, <1>3 DEF CountOK

(* A response is taken by the request that waits for it, or dropped. *)
LEMMA ResponseKeeps ==
  ASSUME GatewayInv, NEW s \in 1..Len(supervisors), NEW new, NEW succeeded,
         NEW id \in DOMAIN supervisors[s].outstanding,
         supervisors' = [supervisors EXCEPT ![s] = new], Keeps(new, supervisors[s], {id}),
         TakeResponse(s, id, supervisors[s].outstanding[id], succeeded),
         UNCHANGED <<serving, gwGeneration, offlineMode, gwAccountVars, searched>>
  PROVE  GatewayInv'
<1> DEFINE p == supervisors[s].provider
           key == <<p, id>>
           about == supervisors[s].outstanding[id]
           context == gwRequests[key]
<1>1. SupOK(supervisors[s]) /\ supervisors[s] \in Sups /\ supervisors \in Seq(Sups)
      /\ SupsOK(supervisors)
  BY InvParts DEF SupsOK
<1>2. SupOK(new) /\ new.provider = p /\ new.retired = supervisors[s].retired
  BY OnwardIsSup DEF Keeps
<1>3. /\ Moved(supervisors', supervisors) /\ supervisors'[s] = new
      /\ \A t \in 1..Len(supervisors) : t # s => supervisors'[t] = supervisors[t]
  <2>1. SupsOK(supervisors) /\ SupOK(new) /\ new.provider = supervisors[s].provider
        /\ new.retired = supervisors[s].retired
    BY <1>1, <1>2
  <2> HIDE DEF p, key, about, context
  <2> QED
    BY <2>1, OneSupMoved
<1>4. /\ serving' = serving /\ gwGeneration' = gwGeneration /\ searched' = searched
      /\ offlineMode' = offlineMode /\ accountSearches' = accountSearches
  BY DEF gwAccountVars
<1>5. /\ SupsOK(supervisors') /\ SessionsOK(supervisors', serving')
      /\ NoneRetired(supervisors') <=> NoneRetired(supervisors)
  BY <1>3, <1>4, InvParts, MovedKeepsSessions
<1>6. SearchesOK(accountSearches', gwGeneration', searched')
  BY <1>4, InvParts
<1>7. p \in Providers /\ about \in About
  BY <1>1, SupFields, OutsFacts
<1> DEFINE lost == {id}
<1>10. OnlyMoves(supervisors', supervisors, s, lost)
  BY <1>3 DEF OnlyMoves
<1> HIDE DEF lost
<1>8. CASE key \notin DOMAIN gwRequests
  <2>1. UNCHANGED <<gwRequests, gwPending, gwItems, providerCache, misplayed, crossed>>
    BY <1>8 DEF TakeResponse, waitingVars, answerVars
  <2>8. \A i \in lost : <<supervisors[s].provider, i>> \notin DOMAIN gwRequests
    BY <1>8 DEF lost
  <2>2. LeftOf(gwRequests, gwRequests, supervisors[s].provider, lost)
    BY <2>8 DEF LeftOf
  <2>3. RequestsOK(gwRequests, supervisors', gwGeneration, searched)
    <3> HIDE DEF p, key, about, context
    <3> QED
      BY <1>10, <2>2, OthersSurvive
  <2>4. RequestsOK(gwRequests', supervisors', gwGeneration', searched')
    BY <1>4, <2>1, <2>3
  <2>5. CountOK(gwPending', Unanswered(gwRequests', accountSearches', gwGeneration'),
                NoneRetired(supervisors'))
    BY <1>4, <1>5, <2>1, InvParts DEF CountOK
  <2>6. offlineMode' \in BOOLEAN /\ CacheOK(providerCache')
        /\ (CacheRight(providerCache) => CacheRight(providerCache'))
    BY <1>4, <2>1, InvParts DEF GatewayTyped
  <2>7. GatewayTyped' /\ AnswersRight'
    BY <1>4, <2>1, <2>6, InvParts, RestKeeps
  <2> QED
    BY <1>5, <1>6, <2>4, <2>5, <2>7 DEF GatewayInv
<1>9. CASE key \in DOMAIN gwRequests
  <2> DEFINE fewer == [k \in DOMAIN gwRequests \ {key} |-> gwRequests[k]]
  <2>1. /\ gwRequests' = fewer /\ gwPending' = Decrement(gwPending)
        /\ crossed' = (crossed \/ context.asked # s)
    BY <1>9 DEF TakeResponse
  <2>2. RequestsOK(gwRequests', supervisors', gwGeneration', searched')
    <3>1. LeftOf(fewer, gwRequests, supervisors[s].provider, lost)
      BY DEF LeftOf, lost
    <3> HIDE DEF fewer, p, key, about, context
    <3>2. RequestsOK(fewer, supervisors', gwGeneration, searched)
      BY <1>10, <3>1, OthersSurvive
    <3> QED
      BY <1>4, <2>1, <3>2
  <2>3. CountOK(gwPending', Unanswered(gwRequests', accountSearches', gwGeneration'),
                NoneRetired(supervisors'))
    <3> DEFINE D == DOMAIN gwRequests
               live == LiveOf(accountSearches, gwGeneration)
    <3>1. IsFiniteSet(D) /\ IsFiniteSet(accountSearches)
      BY InvParts DEF RequestsOK, SearchesOK
    <3>2. IsFiniteSet(live)
      BY <3>1, FS_Subset DEF LiveOf
    <3>3. /\ Cardinality(D \ {key}) = Cardinality(D) - 1
          /\ Cardinality(D) \in Nat /\ Cardinality(D) # 0
      <4> HIDE DEF D, key
      <4> QED
        BY <1>9, <3>1, OneLess DEF D
    <3>4. Cardinality(live) \in Nat
      BY <3>2, FS_CardinalityType
    <3>5. DOMAIN gwRequests' = D \ {key}
      BY <2>1
    <3>6. CountOK(gwPending, Cardinality(D) + Cardinality(live), NoneRetired(supervisors))
      BY InvParts DEF Unanswered
    <3>7. Unanswered(gwRequests', accountSearches', gwGeneration')
            = Cardinality(D \ {key}) + Cardinality(live)
      BY <1>4, <3>5 DEF Unanswered
    <3> DEFINE c == Cardinality(D) + Cardinality(live)
    <3>8. c # 0 /\ Unanswered(gwRequests', accountSearches', gwGeneration') = c - 1
      <4> HIDE DEF D, key, live
      <4> QED
        BY <3>3, <3>4, <3>7
    <3> HIDE DEF c
    <3>9. CountOK(Decrement(gwPending), c - 1, NoneRetired(supervisors))
      BY <3>6, <3>8, CountedDown DEF c
    <3> QED
      BY <1>5, <2>1, <3>8, <3>9 DEF CountOK
  <2>4. WaitsFor(supervisors, key, context, gwGeneration, searched)
    BY <1>9, InvParts DEF RequestsOK
  <2>5. context.asked = s => about = [what |-> context.kind, of |-> context.of]
    BY <2>4 DEF WaitsFor, Awaited
  <2>6. context.kind \in {"items", "resolve"} /\ (context.kind = "items" => context.of = searched)
    BY <2>4 DEF WaitsFor
  <2>7. about.what \in {"items", "resolve", "cancel", "shutdown"} /\ about.of \in Sought
    BY <1>7 DEF About
  <2>8. gwGeneration \in Nat /\ searched \in Sought /\ gwItems \in SUBSET Items
        /\ CacheOK(providerCache) /\ offlineMode \in BOOLEAN
    BY InvParts DEF GatewayTyped
  <2>9. crossed' \in BOOLEAN /\ misplayed \in BOOLEAN
    BY <2>1, InvParts DEF GatewayTyped
  <2>10. crossed' # TRUE => crossed # TRUE /\ context.asked = s
    BY <2>1
  <2>11. crossed # TRUE => /\ \A item \in gwItems : item.of = searched
                           /\ CacheRight(providerCache) /\ misplayed = FALSE
    <3>1. AnswersRight
      BY InvParts
    <3> QED
      BY <3>1 DEF AnswersRight
  <2>12. CASE UNCHANGED <<gwItems, providerCache, misplayed>>
    <3>1. GatewayTyped'
      BY <1>4, <2>8, <2>9, <2>12 DEF GatewayTyped
    <3>2. AnswersRight'
      BY <1>4, <2>10, <2>11, <2>12 DEF AnswersRight
    <3> QED
      BY <1>5, <1>6, <2>2, <2>3, <3>1, <3>2 DEF GatewayInv
  <2>13. CASE /\ context.kind = "resolve" /\ UNCHANGED <<gwItems, providerCache>>
              /\ misplayed' = (misplayed \/ (about.what = "resolve" /\ about.of # context.of))
    <3>1. misplayed' \in BOOLEAN
      BY <2>13
    <3>2. GatewayTyped'
      BY <1>4, <2>8, <2>9, <2>13, <3>1 DEF GatewayTyped
    <3>3. context.asked = s => about.of = context.of
      BY <2>5
    <3>4. misplayed = FALSE /\ context.asked = s => misplayed' = FALSE
      BY <2>13, <3>3
    <3>5. AnswersRight'
      BY <1>4, <2>10, <2>11, <2>13, <3>4 DEF AnswersRight
    <3> QED
      BY <1>5, <1>6, <2>2, <2>3, <3>2, <3>5 DEF GatewayInv
  <2> DEFINE of == IF about.what = "items" THEN about.of ELSE NoQuery
             more == IF of = NoQuery THEN {} ELSE {[source |-> p, of |-> of]}
  <2>14. CASE /\ context.kind # "resolve" /\ PutAndPrune(p, context.of, of)
              /\ gwItems' = gwItems \cup more /\ UNCHANGED misplayed
    <3>1. of \in Sought /\ p \in Sources /\ context.of \in Sought /\ context.of = searched
      BY <1>7, <2>6, <2>7, <2>8, <2>14 DEF Sources, Sought
    <3>2. context.asked = s => of = context.of
      BY <2>5, <2>6, <2>14
    <3> HIDE DEF of
    <3>3. more \in SUBSET Items /\ \A item \in more : item.of = of
      BY <3>1 DEF Items
    <3>4. /\ CacheOK(providerCache')
          /\ CacheRight(providerCache) /\ of = context.of => CacheRight(providerCache')
      BY <2>14, <3>1, PutKeeps
    <3> HIDE DEF more
    <3>5. gwItems' \in SUBSET Items
      BY <2>8, <2>14, <3>3
    <3>6. GatewayTyped'
      BY <1>4, <2>8, <2>9, <2>14, <3>4, <3>5 DEF GatewayTyped
    <3>7. crossed' # TRUE => \A item \in gwItems' : item.of = searched
      BY <2>10, <2>11, <2>14, <3>1, <3>2, <3>3
    <3>8. crossed' # TRUE => CacheRight(providerCache') /\ misplayed' = FALSE
      BY <2>10, <2>11, <2>14, <3>2, <3>4
    <3>9. AnswersRight'
      BY <1>4, <3>7, <3>8 DEF AnswersRight
    <3> QED
      BY <1>5, <1>6, <2>2, <2>3, <3>6, <3>9 DEF GatewayInv
  <2> QED
    BY <1>9, <2>12, <2>13, <2>14 DEF TakeResponse, answerVars
<1> QED
  BY <1>8, <1>9

(* A provider responds, *)
LEMMA ProviderRespondsKeeps ==
  ASSUME GatewayInv, NEW s \in 1..Len(supervisors), NEW succeeded,
         NEW id \in DOMAIN supervisors[s].outstanding, ProviderResponds(s, id, succeeded)
  PROVE  GatewayInv'
<1> DEFINE sup == supervisors[s]
           new == [sup EXCEPT !.outstanding = Without(sup.outstanding, {id})]
<1>1. SupOK(sup)
  BY InvParts
<1>2. Keeps(new, sup, {id})
  BY <1>1, WithoutKeeps
<1>3. supervisors' = [supervisors EXCEPT ![s] = new]
  BY DEF ProviderResponds
<1> HIDE DEF new
<1> QED
  BY <1>2, <1>3, ResponseKeeps DEF ProviderResponds

(* or does not in time: its supervisor stops. *)
LEMMA ProviderTimesOutKeeps ==
  ASSUME GatewayInv, NEW s \in 1..Len(supervisors),
         NEW id \in DOMAIN supervisors[s].outstanding, ProviderTimesOut(s, id)
  PROVE  GatewayInv'
<1> DEFINE sup == supervisors[s]
           mid == [sup EXCEPT !.outstanding = Without(sup.outstanding, {id})]
           new == Stopped(mid)
<1>1. SupOK(sup)
  BY InvParts
<1>2. Keeps(mid, sup, {id})
  BY <1>1, WithoutKeeps
<1>3. supervisors' = [supervisors EXCEPT ![s] = new]
  BY DEF ProviderTimesOut
<1> HIDE DEF mid
<1>4. SupOK(mid)
  BY <1>2, OnwardIsSup DEF Keeps
<1>5. Keeps(new, mid, {})
  BY <1>4, StoppedKeeps
<1> HIDE DEF new
<1>6. Keeps(new, sup, {id})
  BY <1>1, <1>2, <1>5, KeepsInTurn
<1> QED
  BY <1>3, <1>6, ResponseKeeps DEF ProviderTimesOut

-----------------------------------------------------------------------------
(* Searches *)

(* All supervisors go on. *)
LEMMA AllMoved ==
  ASSUME GatewayInv, NEW f, f = [s \in 1..Len(supervisors) |-> f[s]],
         \A s \in 1..Len(supervisors) : Onward(f[s], supervisors[s])
  PROVE  Moved(f, supervisors)
<1>1. Len(supervisors) \in Nat
  BY InvParts
<1>2. \A s \in 1..Len(supervisors) : SupOK(f[s]) /\ f[s] \in Sups
  BY OnwardIsSup DEF SupOK
<1>3. f \in [1..Len(supervisors) -> Sups]
  BY <1>2
<1>4. f \in Seq(Sups) /\ Len(f) = Len(supervisors)
  <2> DEFINE n == Len(supervisors)
  <2> HIDE DEF n
  <2> QED
    BY <1>1, <1>3, SeqOfFunction DEF n
<1> QED
  BY <1>2, <1>4, OnwardIsSup DEF Moved

(* Cancelling what the gateway waits for makes every supervisor go on. *)
LEMMA AfterCancelGoesOn ==
  ASSUME GatewayInv
  PROVE  /\ AfterCancel = [s \in 1..Len(supervisors) |-> AfterCancel[s]]
         /\ \A s \in 1..Len(supervisors) : Onward(AfterCancel[s], supervisors[s])
<1>1. DOMAIN supervisors = 1..Len(supervisors)
  BY InvParts
<1>2. ASSUME NEW s \in 1..Len(supervisors) PROVE Onward(AfterCancel[s], supervisors[s])
  <2> DEFINE ids == {k[2] : k \in {l \in DOMAIN gwRequests : l[1] = supervisors[s].provider}}
  <2>1. SupOK(supervisors[s])
    BY InvParts
  <2>2. AfterCancel[s] = (IF serving[supervisors[s].provider] # s THEN supervisors[s]
                          ELSE CancelledAt(supervisors[s], ids))
    BY <1>1 DEF AfterCancel
  <2> HIDE DEF ids
  <2>3. Onward(CancelledAt(supervisors[s], ids), supervisors[s])
    BY <2>1, CancelledKeeps
  <2>4. Onward(supervisors[s], supervisors[s])
    BY <2>1, SupFields DEF Onward, SupOK
  <2> QED
    BY <2>2, <2>3, <2>4
<1>3. AfterCancel = [s \in 1..Len(supervisors) |-> AfterCancel[s]]
  BY <1>1 DEF AfterCancel
<1> QED
  BY <1>2, <1>3

(* A request to each provider, and a search of each account that starts, is counted. *)
LEMMA OneEach ==
  ASSUME NEW S, IsFiniteSet(S), NEW f, DOMAIN f = S, f = [x \in S |-> f[x]],
         \A x, y \in S : f[x] = f[y] => x = y
  PROVE  LET T == {f[x] : x \in S}
         IN  IsFiniteSet(T) /\ Cardinality(T) = Cardinality(S) /\ Cardinality(T) \in Nat
<1> DEFINE T == {f[x] : x \in S}
<1>1. f \in Bijection(S, T)
  <2>1. f \in [S -> T]
    OBVIOUS
  <2>2. f \in Surjection(S, T)
    BY <2>1 DEF Surjection
  <2>3. f \in Injection(S, T)
    BY <2>1 DEF Injection, IsInjective
  <2> QED
    BY <2>2, <2>3 DEF Bijection
<1>2. ExistsBijection(S, T)
  BY <1>1 DEF ExistsBijection
<1> HIDE DEF T
<1>3. IsFiniteSet(T) /\ Cardinality(T) = Cardinality(S)
  BY <1>2, FS_Bijection
<1> QED
  BY <1>3, FS_CardinalityType DEF T

NewSearch(a, query, generation) ==
  [account |-> a, of |-> query, generation |-> generation,
   page |-> IF a \in JellyfinAccounts THEN 0 ELSE MaxPages]

NewSearches(started, query, generation) ==
  {NewSearch(a, query, generation) : a \in started}

(* The searches that a new generation starts, one of each account, join the old ones. *)
Joins(news, started, searches, generation, old, g, query, after) ==
  /\ generation \in Nat /\ g = generation + 1 /\ SearchesOK(searches, generation, old)
  /\ query \in Sought /\ started \in SUBSET Accounts
  /\ news = NewSearches(started, query, g) /\ after = searches \cup news

(* The searches of a new generation, one of each account, are live, and no other is. *)
LEMMA StartedSearches ==
  ASSUME NEW news, NEW started, NEW searches, NEW generation, NEW old, NEW g, NEW query,
         NEW after, Joins(news, started, searches, generation, old, g, query, after)
  PROVE  /\ SearchesOK(after, g, query)
         /\ LiveOf(after, g) = news
         /\ Cardinality(news) = Cardinality(started) /\ Cardinality(news) \in Nat
<1> USE DEF Joins
<1>1. g \in Nat /\ generation < g
  OBVIOUS
<1> USE DEF NewSearches
<1>2. \A a \in started : /\ NewSearch(a, query, g) \in Searches
                         /\ NewSearch(a, query, g).account = a
                         /\ NewSearch(a, query, g).generation = g
                         /\ NewSearch(a, query, g).of = query
  BY <1>1, BoundIsNumber DEF NewSearch, Searches
<1>3. IsFiniteSet(news) /\ Cardinality(news) = Cardinality(started) /\ Cardinality(news) \in Nat
  <2> DEFINE f == [a \in started |-> NewSearch(a, query, g)]
  <2>1. IsFiniteSet(started)
    BY FS_Subset
  <2>2. \A a, b \in started : f[a] = f[b] => a = b
    BY <1>2
  <2>3. news = {f[a] : a \in started}
    OBVIOUS
  <2>4. DOMAIN f = started /\ f = [a \in started |-> f[a]]
    OBVIOUS
  <2> HIDE DEF f
  <2> QED
    BY <2>1, <2>2, <2>3, <2>4, OneEach
<1>4. /\ searches \in SUBSET Searches /\ IsFiniteSet(searches)
      /\ \A x \in searches : x.generation \in Nat /\ x.generation <= generation
      /\ \A x, y \in searches : x.account = y.account /\ x.generation = y.generation => x = y
  BY DEF SearchesOK, Searches
<1>5. \A x \in searches : x.generation # g
  BY <1>1, <1>4
<1>6. \A x \in news : x \in Searches /\ x.generation = g /\ x.of = query
                      /\ x = NewSearch(x.account, query, g)
  BY <1>2
<1>7. LiveOf(after, g) = news
  BY <1>5, <1>6 DEF LiveOf
<1>8. SearchesOK(after, g, query)
  <2>1. IsFiniteSet(after)
    BY <1>3, <1>4, FS_Union
  <2>2. \A x \in after : x.generation <= g /\ (x.generation = g => x.of = query)
    BY <1>1, <1>4, <1>5, <1>6
  <2>3. ASSUME NEW x \in after, NEW y \in after,
               x.account = y.account, x.generation = y.generation
        PROVE  x = y
    BY <2>3, <1>4, <1>5, <1>6
  <2> QED
    BY <1>4, <1>6, <2>1, <2>2, <2>3 DEF SearchesOK
<1> QED
  BY <1>3, <1>7, <1>8

(* and so it is when it goes on. *)
LEMMA OnwardInTurn ==
  ASSUME NEW new, NEW mid, NEW sup, SupOK(sup), Onward(mid, sup), Onward(new, mid)
  PROVE  Onward(new, sup)
<1>1. sup.next \in Nat /\ mid.next \in Nat /\ new.next \in Nat
  BY SupFields DEF Onward, SupOK
<1> QED
  BY <1>1 DEF Onward

(* The supervisors that are asked, after they have been told to cancel *)
AskedSup(asked, s, about) ==
  IF \E p \in asked : serving[p] = s THEN Sent(AfterCancel[s], about) ELSE AfterCancel[s]

(* A supervisor that is asked has the request outstanding under its next number. *)
LEMMA AskedGoesOn ==
  ASSUME GatewayInv, NEW about \in About, NEW asked \in SUBSET Providers,
         \A p \in asked : supervisors[serving[p]].state = "ready",
         NEW s \in 1..Len(supervisors)
  PROVE  /\ Onward(AskedSup(asked, s, about), supervisors[s])
         /\ \A p \in asked : serving[p] = s =>
              LET m == AfterCancel[s].next
                  sup == AskedSup(asked, s, about)
              IN  m \in Nat /\ sup.next = m + 1 /\ m \in DOMAIN sup.outstanding
                  /\ sup.outstanding[m] = about
<1> DEFINE mid == AfterCancel[s]
           new == AskedSup(asked, s, about)
<1>1. SupOK(supervisors[s])
  BY InvParts
<1>2. Onward(mid, supervisors[s])
  BY AfterCancelGoesOn
<1>3. CASE \E p \in asked : serving[p] = s
  <2>1. supervisors[s].state = "ready"
    BY <1>3
  <2>2. SupOK(mid) /\ mid.state = "ready" /\ mid.next \in Nat
    BY <1>2, <2>1, SupFields DEF Onward, SupOK
  <2>3. new = Sent(mid, about)
    BY <1>3 DEF AskedSup
  <2> HIDE DEF mid, new
  <2>4. /\ Keeps(new, mid, {}) /\ new.next = mid.next + 1
        /\ mid.next \in DOMAIN new.outstanding /\ new.outstanding[mid.next] = about
    BY <2>2, <2>3, SentKeeps
  <2>5. Onward(new, supervisors[s])
    BY <1>1, <1>2, <2>4, OnwardInTurn DEF Keeps
  <2> QED
    BY <2>2, <2>4, <2>5 DEF mid, new
<1>4. CASE ~\E p \in asked : serving[p] = s
  BY <1>2, <1>4 DEF AskedSup
<1> QED
  BY <1>3, <1>4

(* A search or a browse cancels what is pending and asks anew. *)
LEMMA AskKeeps ==
  ASSUME GatewayInv, NEW query \in Queries \cup Cursors, NEW ps \in SUBSET Providers,
         NEW as \in SUBSET Accounts, Ask(query, ps, as)
  PROVE  GatewayInv'
<1> DEFINE n == Len(supervisors)
           g == gwGeneration + 1
           about == [what |-> "items", of |-> query]
           online == IF offlineMode THEN {} ELSE ps
           items == {[source |-> e.space, of |-> e.of] : e \in Hits(ps \cup as, query)}
           context(p) == [generation |-> g, kind |-> "items", of |-> query,
                          asked |-> serving[p]]
<1>0. gwGeneration' = g
  BY DEF Ask
<1>1. PICK asked \in SUBSET {p \in online : supervisors[serving[p]].state = "ready"} :
        /\ supervisors' = [s \in DOMAIN supervisors |-> AskedSup(asked, s, about)]
        /\ gwRequests' = [k \in {<<p, AfterCancel[serving[p]].next>> : p \in asked} |->
                            context(k[1])]
        /\ \E started \in SUBSET (IF offlineMode THEN {} ELSE as) :
             /\ accountSearches' = accountSearches \cup {NewSearch(a, query, g) : a \in started}
             /\ gwPending' = Cardinality(asked) + Cardinality(started)
  <2> DEFINE sups(asked) == [s \in DOMAIN supervisors |->
                 IF \E p \in asked : serving[p] = s
                 THEN Sent(AfterCancel[s], about) ELSE AfterCancel[s]]
             Keys(asked) == {<<p, AfterCancel[serving[p]].next>> : p \in asked}
             raw(k) == [generation |-> gwGeneration', kind |-> "items", of |-> query,
                        asked |-> serving[k[1]]]
             all == IF offlineMode THEN {} ELSE as
             joining(started) ==
               {[account |-> a, of |-> query, generation |-> gwGeneration',
                 page |-> IF a \in JellyfinAccounts THEN 0 ELSE MaxPages] : a \in started}
  <2>1. \E asked \in SUBSET {p \in online : supervisors[serving[p]].state = "ready"} :
          /\ supervisors' = sups(asked)
          /\ gwRequests' = [k \in Keys(asked) |-> raw(k)]
          /\ \E started \in SUBSET all :
               /\ accountSearches' = accountSearches \cup joining(started)
               /\ gwPending' = Cardinality(asked) + Cardinality(started)
    BY Zenon DEF Ask
  <2>2. \A k : raw(k) = context(k[1])
    BY <1>0
  <2>3. \A started : joining(started) = {NewSearch(a, query, g) : a \in started}
    BY <1>0 DEF NewSearch
  <2>4. \A asked : sups(asked) = [s \in DOMAIN supervisors |-> AskedSup(asked, s, about)]
    BY DEF AskedSup
  <2>5. PICK asked \in SUBSET {p \in online : supervisors[serving[p]].state = "ready"} :
          /\ supervisors' = sups(asked)
          /\ gwRequests' = [k \in Keys(asked) |-> raw(k)]
          /\ \E started \in SUBSET all :
               /\ accountSearches' = accountSearches \cup joining(started)
               /\ gwPending' = Cardinality(asked) + Cardinality(started)
    BY <2>1
  <2>6. supervisors' = [s \in DOMAIN supervisors |-> AskedSup(asked, s, about)]
    BY <2>4, <2>5
  <2>7. gwRequests' = [k \in Keys(asked) |-> context(k[1])]
    <3> HIDE DEF raw, context, Keys
    <3> QED
      BY <2>2, <2>5
  <2>8. \E started \in SUBSET all :
          /\ accountSearches' = accountSearches \cup {NewSearch(a, query, g) : a \in started}
          /\ gwPending' = Cardinality(asked) + Cardinality(started)
    <3> HIDE DEF joining, all
    <3> QED
      BY <2>3, <2>5
  <2> HIDE DEF context, about, g
  <2> QED
    BY <2>6, <2>7, <2>8
<1>1a. PICK started \in SUBSET as :
        /\ accountSearches' = accountSearches \cup {NewSearch(a, query, g) : a \in started}
        /\ gwPending' = Cardinality(asked) + Cardinality(started)
  BY <1>1
<1> DEFINE K == {<<p, AfterCancel[serving[p]].next>> : p \in asked}
<1>2. /\ gwGeneration' = g /\ searched' = query /\ gwItems' = items
      /\ providerCache' = Touched(ps \cup as, query)
      /\ UNCHANGED <<serving, offlineMode, misplayed, crossed>>
  BY DEF Ask
<1>3. supervisors' = [s \in 1..n |-> AskedSup(asked, s, about)]
  <2>1. DOMAIN supervisors = 1..n
    BY InvParts
  <2> QED
    BY <1>1, <2>1
<1>4. gwRequests' = [k \in K |-> context(k[1])]
  BY <1>1
<1>5. /\ query \in Sought /\ about \in About /\ asked \in SUBSET Providers
      /\ \A p \in asked : supervisors[serving[p]].state = "ready"
      /\ gwGeneration \in Nat /\ g \in Nat /\ started \in SUBSET Accounts
  <2>1. query \in Sought
    BY DEF Sought
  <2>2. about \in About
    BY <2>1 DEF About
  <2>3. gwGeneration \in Nat
    BY InvParts DEF GatewayTyped
  <2>4. /\ started \in SUBSET Accounts /\ asked \in SUBSET Providers
        /\ \A p \in asked : supervisors[serving[p]].state = "ready"
    BY <1>1, <1>1a
  <2> HIDE DEF about
  <2> QED
    BY <2>1, <2>2, <2>3, <2>4
<1> HIDE DEF about
<1>6. /\ serving \in [Providers -> 1..n]
      /\ \A p \in Providers : supervisors[serving[p]].provider = p
  BY InvParts DEF SessionsOK
<1>7. \A s \in 1..n :
        /\ Onward(supervisors'[s], supervisors[s])
        /\ \A p \in asked : serving[p] = s =>
             /\ AfterCancel[s].next \in Nat
             /\ supervisors'[s].next = AfterCancel[s].next + 1
             /\ AfterCancel[s].next \in DOMAIN supervisors'[s].outstanding
             /\ supervisors'[s].outstanding[AfterCancel[s].next] = about
  <2> TAKE s \in 1..n
  <2> DEFINE sup == AskedSup(asked, s, about)
             m == AfterCancel[s].next
  <2>1. supervisors'[s] = sup
    BY <1>3
  <2>2. /\ Onward(sup, supervisors[s])
        /\ \A p \in asked : serving[p] = s =>
             m \in Nat /\ sup.next = m + 1 /\ m \in DOMAIN sup.outstanding
             /\ sup.outstanding[m] = about
    BY <1>5, AskedGoesOn
  <2> HIDE DEF sup, m
  <2> QED
    BY <2>1, <2>2 DEF m
<1>8. Moved(supervisors', supervisors)
  <2>1. supervisors' = [s \in 1..n |-> supervisors'[s]]
    BY <1>3
  <2> QED
    BY <1>7, <2>1, AllMoved
<1>9. /\ SupsOK(supervisors') /\ SessionsOK(supervisors', serving')
      /\ NoneRetired(supervisors') <=> NoneRetired(supervisors)
  BY <1>2, <1>8, InvParts, MovedKeepsSessions
<1>10. IsFiniteSet(K) /\ Cardinality(K) = Cardinality(asked) /\ Cardinality(K) \in Nat
  <2> DEFINE f == [p \in asked |-> <<p, AfterCancel[serving[p]].next>>]
  <2>1. IsFiniteSet(asked)
    BY <1>5, FS_Subset
  <2>2. DOMAIN f = asked /\ f = [p \in asked |-> f[p]] /\ K = {f[p] : p \in asked}
    OBVIOUS
  <2>3. \A p, q \in asked : f[p] = f[q] => p = q
    OBVIOUS
  <2> HIDE DEF f, K
  <2> QED
    BY <2>1, <2>2, <2>3, OneEach
<1>11. RequestsOK(gwRequests', supervisors', gwGeneration', searched')
  <2>1. ASSUME NEW p \in asked
        PROVE  LET k == <<p, AfterCancel[serving[p]].next>>
               IN  /\ k \in Providers \X Nat
                   /\ WaitsFor(supervisors', k, context(p), g, query)
    <3> DEFINE s == serving[p]
               m == AfterCancel[s].next
    <3>1. p \in Providers /\ s \in 1..n /\ s \in 1..Len(supervisors') /\ supervisors[s].provider = p
      BY <1>5, <1>6, <1>8 DEF Moved
    <3>2. supervisors'[s].provider = p
      BY <1>8, <3>1 DEF Moved
    <3>3. /\ m \in Nat /\ supervisors'[s].next = m + 1
          /\ m \in DOMAIN supervisors'[s].outstanding /\ supervisors'[s].outstanding[m] = about
      BY <1>7, <3>1
    <3>4. /\ context(p).asked = s /\ context(p).generation = g /\ context(p).kind = "items"
          /\ context(p).of = query /\ about = [what |-> "items", of |-> query]
      BY DEF about
    <3> HIDE DEF m, s, context
    <3>5. Awaited(supervisors'[s], m, context(p))
      BY <3>3, <3>4 DEF Awaited
    <3>6. WaitsFor(supervisors', <<p, m>>, context(p), g, query)
      BY <3>1, <3>2, <3>4, <3>5 DEF WaitsFor
    <3> QED
      BY <3>1, <3>3, <3>6 DEF m, s
  <2>2. DOMAIN gwRequests' = K /\ K \subseteq Providers \X Nat
    BY <1>4, <2>1
  <2>3. ASSUME NEW k \in K PROVE WaitsFor(supervisors', k, gwRequests'[k], g, query)
    <3>1. PICK p \in asked : k = <<p, AfterCancel[serving[p]].next>>
      OBVIOUS
    <3>2. gwRequests'[k] = context(p)
      BY <1>4, <3>1
    <3> HIDE DEF context
    <3> QED
      BY <2>1, <3>1, <3>2
  <2> QED
    BY <1>2, <1>10, <2>2, <2>3 DEF RequestsOK
<1>12. /\ SearchesOK(accountSearches', gwGeneration', searched')
       /\ Cardinality(LiveOf(accountSearches', gwGeneration')) = Cardinality(started)
       /\ Cardinality(started) \in Nat
  <2> DEFINE news == NewSearches(started, query, g)
  <2>1. SearchesOK(accountSearches, gwGeneration, searched)
    BY InvParts
  <2>2. accountSearches' = accountSearches \cup news
    BY <1>1a DEF NewSearches
  <2>3. g = gwGeneration + 1 /\ news = NewSearches(started, query, g)
    OBVIOUS
  <2>5. gwGeneration \in Nat /\ query \in Sought /\ started \in SUBSET Accounts
    BY <1>5
  <2> HIDE DEF news, g
  <2>6. PICK after : after = accountSearches'
    OBVIOUS
  <2>7. after = accountSearches \cup news
    BY <2>2, <2>6
  <2>4. /\ SearchesOK(after, g, query) /\ LiveOf(after, g) = news
        /\ Cardinality(news) = Cardinality(started) /\ Cardinality(news) \in Nat
    <3>1. Joins(news, started, accountSearches, gwGeneration, searched, g, query, after)
      BY <2>1, <2>3, <2>5, <2>7 DEF Joins
    <3> QED
      BY <3>1, StartedSearches
  <2> QED
    BY <1>2, <2>4, <2>6
<1>13. CountOK(gwPending', Unanswered(gwRequests', accountSearches', gwGeneration'),
               NoneRetired(supervisors'))
  <2>1. DOMAIN gwRequests' = K
    BY <1>4
  <2> HIDE DEF K
  <2> QED
    BY <1>1a, <1>10, <1>12, <2>1 DEF CountOK, Unanswered
<1>14. CacheOK(providerCache') /\ (CacheRight(providerCache) => CacheRight(providerCache'))
  BY <1>2, TouchedKeeps
<1>15. /\ items \in SUBSET Items
       /\ CacheRight(providerCache) => \A item \in items : item.of = query
  <2>1. providerCache \in Seq(CacheEntries) /\ DOMAIN providerCache = 1..Len(providerCache)
        /\ \A i \in 1..Len(providerCache) : providerCache[i] \in CacheEntries
    BY InvParts, LenProperties, ElementOfSeq DEF GatewayTyped, CacheOK
  <2>2. \A e \in Hits(ps \cup as, query) :
          \E i \in 1..Len(providerCache) : e = providerCache[i] /\ e.key = query
    BY <2>1 DEF Hits, Hit, Range
  <2>3. \A e \in Hits(ps \cup as, query) : e.space \in Sources /\ e.of \in Sought
    BY <2>1, <2>2 DEF CacheEntries
  <2> DEFINE item(e) == [source |-> e.space, of |-> e.of]
  <2>4. items \in SUBSET Items
    <3>1. \A e \in Hits(ps \cup as, query) : item(e) \in Items
      BY <2>3 DEF Items
    <3> QED
      BY <3>1
  <2>5. CacheRight(providerCache) => \A e \in Hits(ps \cup as, query) : e.of = query
    BY <2>2 DEF CacheRight
  <2>6. \A i \in items : \E e \in Hits(ps \cup as, query) : i.of = e.of
    <3> TAKE i \in items
    <3>1. PICK e \in Hits(ps \cup as, query) : i = [source |-> e.space, of |-> e.of]
      OBVIOUS
    <3>2. i.of = e.of
      BY <3>1
    <3> QED
      BY <3>2
  <2> HIDE DEF items
  <2> QED
    BY <2>4, <2>5, <2>6
<1> HIDE DEF items
<1>16. GatewayTyped'
  BY <1>2, <1>5, <1>14, <1>15, InvParts DEF GatewayTyped
<1>17. AnswersRight'
  <2>1. AnswersRight
    BY InvParts
  <2> QED
    BY <1>2, <1>14, <1>15, <2>1 DEF AnswersRight
<1> QED
  BY <1>9, <1>11, <1>12, <1>13, <1>16, <1>17 DEF GatewayInv

(* Searching asks all that are ready, *)
LEMMA SearchKeeps ==
  ASSUME GatewayInv, NEW query \in Queries, Search(query)
  PROVE  GatewayInv'
<1> DEFINE ps == {p \in Providers : supervisors[serving[p]].state = "ready"}
           as == {a \in Accounts : accountStatus[a] = "enabled"}
<1>1. Ask(query, ps, as)
  BY DEF Search
<1>2. ps \in SUBSET Providers /\ as \in SUBSET Accounts /\ query \in Queries \cup Cursors
  OBVIOUS
<1> HIDE DEF ps, as
<1> QED
  BY <1>1, <1>2, AskKeeps

(* browsing the one that is browsed. *)
LEMMA BrowseKeeps ==
  ASSUME GatewayInv, NEW p \in Providers, NEW cursor \in Cursors, Browse(p, cursor)
  PROVE  GatewayInv'
<1> DEFINE ps == {p}
           as == {}
<1>1. Ask(cursor, ps, as)
  BY DEF Browse
<1>2. ps \in SUBSET Providers /\ as \in SUBSET Accounts /\ cursor \in Queries \cup Cursors
  OBVIOUS
<1> HIDE DEF ps, as
<1> QED
  BY <1>1, <1>2, AskKeeps

(* The user cancels. *)
LEMMA CancelGatewayKeeps ==
  ASSUME GatewayInv, CancelGateway
  PROVE  GatewayInv'
<1> DEFINE g == gwGeneration + 1
<1>1. /\ gwGeneration' = g /\ supervisors' = AfterCancel /\ gwRequests' = NoRequests
      /\ gwPending' = 0 /\ UNCHANGED <<serving, offlineMode, accountSearches, searched, crossed>>
      /\ UNCHANGED <<gwItems, providerCache, misplayed>>
  BY DEF CancelGateway, gwAccountVars, answerVars
<1>2. gwGeneration \in Nat /\ g \in Nat
  BY InvParts DEF GatewayTyped
<1>3. Moved(supervisors', supervisors)
  BY <1>1, AfterCancelGoesOn, AllMoved
<1>4. /\ SupsOK(supervisors') /\ SessionsOK(supervisors', serving')
      /\ NoneRetired(supervisors') <=> NoneRetired(supervisors)
  BY <1>1, <1>3, InvParts, MovedKeepsSessions
<1>5. RequestsOK(gwRequests', supervisors', gwGeneration', searched')
  BY <1>1, NoneAreOut, FS_EmptySet DEF RequestsOK
<1>6. \A x \in accountSearches : x.generation \in Nat /\ x.generation <= gwGeneration
  BY InvParts DEF SearchesOK, Searches
<1>7. \A x \in accountSearches : x.generation <= g /\ x.generation # g
  BY <1>2, <1>6
<1>8. SearchesOK(accountSearches', gwGeneration', searched')
  BY <1>1, <1>7, InvParts DEF SearchesOK
<1>9. Unanswered(gwRequests', accountSearches', gwGeneration') = 0
  <2>1. LiveOf(accountSearches', gwGeneration') = {}
    BY <1>1, <1>7 DEF LiveOf
  <2>2. DOMAIN gwRequests' = {}
    BY <1>1, NoneAreOut
  <2>3. Cardinality({}) = 0
    BY FS_EmptySet
  <2> QED
    BY <2>1, <2>2, <2>3 DEF Unanswered
<1>10. CountOK(gwPending', Unanswered(gwRequests', accountSearches', gwGeneration'),
               NoneRetired(supervisors'))
  BY <1>1, <1>9 DEF CountOK
<1>11. GatewayTyped'
  BY <1>1, <1>2, InvParts DEF GatewayTyped
<1>12. AnswersRight'
  <2>1. AnswersRight
    BY InvParts
  <2> QED
    BY <1>1, <2>1 DEF AnswersRight
<1> QED
  BY <1>4, <1>5, <1>8, <1>10, <1>11, <1>12 DEF GatewayInv

-----------------------------------------------------------------------------
(* An item that plays *)

(* One more request that is waited for *)
LEMMA OneMoreRequest ==
  ASSUME NEW requests, NEW sups, NEW generation, NEW query,
         RequestsOK(requests, sups, generation, query),
         NEW key \in Providers \X Nat, NEW more, DOMAIN more = DOMAIN requests \cup {key},
         \A k \in DOMAIN requests : k # key => more[k] = requests[k],
         WaitsFor(sups, key, more[key], generation, query)
  PROVE  RequestsOK(more, sups, generation, query)
<1>1. IsFiniteSet(DOMAIN more)
  BY FS_AddElement DEF RequestsOK
<1> QED
  BY <1>1 DEF RequestsOK

(* A finite set and one more element *)
LEMMA OneMore ==
  ASSUME NEW D, IsFiniteSet(D), NEW x
  PROVE  LET D1 == D \cup {x}
         IN  /\ Cardinality(D) \in Nat /\ Cardinality(D1) \in Nat
             /\ Cardinality(D1) <= Cardinality(D) + 1
             /\ x \notin D => Cardinality(D1) = Cardinality(D) + 1
<1>1. Cardinality(D) \in Nat
  BY FS_CardinalityType
<1>2. Cardinality(D \cup {x}) = IF x \in D THEN Cardinality(D) ELSE Cardinality(D) + 1
  BY FS_AddElement
<1> QED
  BY <1>1, <1>2

(* A request counts up what is pending. *)
LEMMA CountedUp ==
  ASSUME NEW n, NEW c, NEW exact, CountOK(n, c, exact), NEW d \in Nat, d <= c + 1,
         exact => d = c + 1
  PROVE  CountOK(n + 1, d, exact)
<1>1. n \in Nat /\ c \in Nat /\ n >= c /\ (exact => n = c)
  BY DEF CountOK
<1>2. n + 1 \in Nat /\ n + 1 >= d
  BY <1>1
<1>3. exact => n + 1 = d
  BY <1>1
<1> QED
  BY <1>2, <1>3 DEF CountOK

(* An item is resolved by the provider it came from. *)
LEMMA PlayItemKeeps ==
  ASSUME GatewayInv, NEW item \in gwItems, PlayItem(item)
  PROVE  GatewayInv'
<1> DEFINE p == item.source
           s == serving[p]
           sup == supervisors[s]
           about == [what |-> "resolve", of |-> item.of]
           new == Sent(sup, about)
           key == <<p, sup.next>>
           context == [generation |-> gwGeneration, kind |-> "resolve", of |-> item.of,
                       asked |-> s]
           fewer == [k \in DOMAIN gwRequests \ {key} |-> gwRequests[k]]
<1>1. p \in Providers /\ sup.state = "ready"
  BY DEF PlayItem
<1>2. item.of \in Sought
  BY InvParts DEF GatewayTyped, Items
<1>3. about \in About
  BY <1>2 DEF About
<1>4. /\ s \in 1..Len(supervisors) /\ sup.provider = p
      /\ \A t \in 1..Len(supervisors) :
           ~supervisors[t].retired => serving[supervisors[t].provider] = t
  BY <1>1, InvParts DEF SessionsOK
<1>5. SupOK(sup) /\ sup.next \in Nat
  BY <1>4, InvParts, SupFields
<1>6. gwRequests' = [k \in DOMAIN gwRequests \cup {key} |->
                       IF k # key THEN gwRequests[k] ELSE context]
  BY DEF PlayItem
<1>7. supervisors' = [supervisors EXCEPT ![s] = new]
  BY DEF PlayItem
<1>8. /\ gwPending' = gwPending + 1
      /\ UNCHANGED <<serving, gwGeneration, offlineMode, accountSearches, searched, crossed>>
      /\ UNCHANGED <<gwItems, providerCache, misplayed>>
  BY DEF PlayItem, gwAccountVars, answerVars
<1> HIDE DEF about
<1>9. /\ Keeps(new, sup, {}) /\ new.next = sup.next + 1
      /\ sup.next \in DOMAIN new.outstanding /\ new.outstanding[sup.next] = about
  BY <1>1, <1>3, <1>5, SentKeeps
<1> HIDE DEF new
<1>10. SupOK(new) /\ new.provider = sup.provider /\ new.retired = sup.retired
  BY <1>9, OnwardIsSup DEF Keeps
<1>11. /\ Moved(supervisors', supervisors) /\ supervisors'[s] = new
       /\ \A t \in 1..Len(supervisors) : t # s => supervisors'[t] = supervisors[t]
  <2> HIDE DEF p, s, key, context, fewer
  <2> QED
    BY <1>4, <1>7, <1>10, OneSupMoved DEF sup
<1>12. /\ SupsOK(supervisors') /\ SessionsOK(supervisors', serving')
       /\ NoneRetired(supervisors') <=> NoneRetired(supervisors)
  BY <1>8, <1>11, InvParts, MovedKeepsSessions
<1>13. RequestsOK(gwRequests', supervisors', gwGeneration', searched')
  <2>1. /\ DOMAIN fewer \in SUBSET DOMAIN gwRequests /\ DOMAIN fewer = DOMAIN gwRequests \ {key}
        /\ \A k \in DOMAIN fewer : fewer[k] = gwRequests[k]
    OBVIOUS
  <2>2. RequestsOK(fewer, supervisors', gwGeneration, searched)
    <3>1. LeftOf(fewer, gwRequests, sup.provider, {})
      BY <2>1 DEF LeftOf
    <3>2. OnlyMoves(supervisors', supervisors, s, {})
      BY <1>9, <1>11 DEF OnlyMoves
    <3> HIDE DEF p, s, key, context, fewer
    <3> QED
      BY <1>4, <3>1, <3>2, OthersSurvive DEF sup
  <2>3. key \in Providers \X Nat /\ DOMAIN gwRequests' = DOMAIN fewer \cup {key}
        /\ gwRequests'[key] = context
        /\ \A k \in DOMAIN fewer : k # key => gwRequests'[k] = fewer[k]
    BY <1>1, <1>5, <1>6
  <2>4. /\ context.asked = s /\ context.generation = gwGeneration /\ context.kind = "resolve"
        /\ context.of = item.of /\ about = [what |-> "resolve", of |-> item.of]
        /\ key[1] = p /\ key[2] = sup.next
    BY DEF about
  <2>5. s \in 1..Len(supervisors') /\ supervisors'[s].provider = p
    BY <1>4, <1>10, <1>11 DEF Moved
  <2> HIDE DEF context, key, fewer
  <2>6. Awaited(supervisors'[s], key[2], context)
    BY <1>5, <1>9, <1>11, <2>4 DEF Awaited
  <2>7. WaitsFor(supervisors', key, context, gwGeneration, searched)
    BY <2>4, <2>5, <2>6 DEF WaitsFor
  <2>8. RequestsOK(gwRequests', supervisors', gwGeneration, searched)
    BY <2>2, <2>3, <2>7, OneMoreRequest
  <2> QED
    BY <1>8, <2>8
<1>14. CountOK(gwPending', Unanswered(gwRequests', accountSearches', gwGeneration'),
               NoneRetired(supervisors'))
  <2> DEFINE D == DOMAIN gwRequests
             live == LiveOf(accountSearches, gwGeneration)
             c == Cardinality(D) + Cardinality(live)
             d == Cardinality(D \cup {key}) + Cardinality(live)
  <2>1. IsFiniteSet(D) /\ IsFiniteSet(accountSearches)
    BY InvParts DEF RequestsOK, SearchesOK
  <2>2. IsFiniteSet(live)
    BY <2>1, FS_Subset DEF LiveOf
  <2>3. Cardinality(live) \in Nat
    BY <2>2, FS_CardinalityType
  <2>4. /\ Cardinality(D) \in Nat /\ Cardinality(D \cup {key}) \in Nat
        /\ Cardinality(D \cup {key}) <= Cardinality(D) + 1
        /\ key \notin D => Cardinality(D \cup {key}) = Cardinality(D) + 1
    <3> HIDE DEF D, key
    <3> QED
      BY <2>1, OneMore
  <2>5. NoneRetired(supervisors) => key \notin D
    <3> SUFFICES ASSUME NoneRetired(supervisors), key \in D
                 PROVE  FALSE
      OBVIOUS
    <3> DEFINE t == gwRequests[key].asked
    <3>1. WaitsFor(supervisors, key, gwRequests[key], gwGeneration, searched)
      BY InvParts DEF RequestsOK
    <3>2. t \in 1..Len(supervisors) /\ supervisors[t].provider = p
      BY <3>1 DEF WaitsFor
    <3>3. Awaited(supervisors[t], sup.next, gwRequests[key])
      BY <3>1 DEF WaitsFor
    <3>4. ~supervisors[t].retired
      BY <3>2 DEF NoneRetired
    <3>5. t = s
      BY <1>4, <3>2, <3>4
    <3>6. sup.next < sup.next
      BY <3>3, <3>5 DEF Awaited
    <3> QED
      BY <1>5, <3>6
  <2>6. CountOK(gwPending, c, NoneRetired(supervisors))
    BY InvParts DEF Unanswered
  <2>7. DOMAIN gwRequests' = D \cup {key}
    BY <1>6
  <2>8. Unanswered(gwRequests', accountSearches', gwGeneration') = d
    BY <1>8, <2>7 DEF Unanswered
  <2> HIDE DEF key, D, live
  <2>9. d \in Nat /\ d <= c + 1 /\ (NoneRetired(supervisors) => d = c + 1)
    BY <2>3, <2>4, <2>5
  <2> HIDE DEF c, d
  <2>10. CountOK(gwPending + 1, d, NoneRetired(supervisors))
    BY <2>6, <2>9, CountedUp
  <2> QED
    BY <1>8, <1>12, <2>8, <2>10 DEF CountOK
<1>15. SearchesOK(accountSearches', gwGeneration', searched')
  BY <1>8, InvParts
<1>16. GatewayTyped' /\ AnswersRight'
  <2>1. offlineMode' \in BOOLEAN /\ CacheOK(providerCache')
        /\ (CacheRight(providerCache) => CacheRight(providerCache'))
    BY <1>8, InvParts DEF GatewayTyped
  <2> QED
    BY <1>8, <2>1, InvParts, RestKeeps
<1> QED
  BY <1>12, <1>13, <1>14, <1>15, <1>16 DEF GatewayInv

-----------------------------------------------------------------------------
(* New supervisors *)

(* Each provider has one place in such a sequence. *)
Places(order) ==
  /\ order \in [1..Cardinality(Providers) -> Providers] /\ Cardinality(Providers) \in Nat
  /\ \A i, j \in 1..Cardinality(Providers) : order[i] = order[j] => i = j
  /\ \A p \in Providers : \E i \in 1..Cardinality(Providers) : order[i] = p

(* As many different providers as there are, in a row, are all of them, *)
LEMMA InjectiveOrders ==
  ASSUME NEW order \in [1..Cardinality(Providers) -> Providers], IsInjective(order)
  PROVE  Places(order)
<1> DEFINE n == Cardinality(Providers)
           S == 1..n
<1>1. n \in Nat
  BY FS_CardinalityType
<1>2. IsFiniteSet(S) /\ Cardinality(S) = n
  <2> HIDE DEF n
  <2> QED
    BY <1>1, CountUpTo
<1>3. order \in Injection(S, Providers)
  BY DEF Injection
<1>4. order \in Surjection(S, Providers)
  <2> HIDE DEF S
  <2> QED
    BY <1>2, <1>3, FS_Injection
<1>5. \A p \in Providers : \E i \in S : order[i] = p
  BY <1>4 DEF Surjection
<1>6. \A i, j \in S : order[i] = order[j] => i = j
  BY DEF IsInjective
<1> QED
  BY <1>1, <1>5, <1>6 DEF Places

(* and so there is an order of the providers. *)
LEMMA OrderOfProviders == Places(SetToSeq(Providers))
<1> DEFINE n == Cardinality(Providers)
           S == 1..n
<1>1. Bijection(S, Providers) # {}
  BY FS_CardinalityType DEF ExistsBijection
<1>2. \E f \in [S -> Providers] : IsInjective(f)
  BY <1>1 DEF Bijection, Injection
<1>3. SetToSeq(Providers) \in [S -> Providers] /\ IsInjective(SetToSeq(Providers))
  BY <1>2 DEF SetToSeq
<1> HIDE DEF S, n
<1> QED
  BY <1>3, InjectiveOrders DEF S, n

(* A new supervisor starts. *)
LEMMA NewIsSup ==
  ASSUME NEW p \in Providers
  PROVE  SupOK(NewSupervisor(p)) /\ NewSupervisor(p) \in Sups
         /\ NewSupervisor(p).provider = p /\ NewSupervisor(p).retired = FALSE
<1>1. NewSupervisor(p) \in Sups
  BY NoneAreOut DEF NewSupervisor, Sups
<1>2. /\ NewSupervisor(p).provider = p /\ NewSupervisor(p).retired = FALSE
      /\ NewSupervisor(p).first = 1 /\ NewSupervisor(p).next = 1
      /\ NewSupervisor(p).outstanding = NoRequests
  BY DEF NewSupervisor
<1> HIDE DEF NewSupervisor
<1>3. SupOK(NewSupervisor(p))
  BY <1>1, <1>2, NoneAreOut, FS_EmptySet DEF SupOK
<1> QED
  BY <1>1, <1>2, <1>3

Retire(sup) == IF sup.retired THEN sup ELSE [Stopped(sup) EXCEPT !.retired = TRUE]

(* A supervisor that retires owes what it owed. *)
LEMMA RetireKeeps ==
  ASSUME NEW sup, SupOK(sup)
  PROVE  /\ SupOK(Retire(sup)) /\ Retire(sup).provider = sup.provider
         /\ Retire(sup).retired = TRUE
         /\ \A id, context : Awaited(sup, id, context) => Awaited(Retire(sup), id, context)
<1>1. CASE sup.retired
  <2>1. sup.retired = TRUE
    BY <1>1, SupFields DEF SupOK
  <2> QED
    BY <1>1, <2>1 DEF Retire
<1>2. CASE ~sup.retired
  <2> DEFINE mid == Stopped(sup)
             new == [mid EXCEPT !.retired = TRUE]
  <2>1. Keeps(mid, sup, {})
    BY StoppedKeeps
  <2>2. Retire(sup) = new
    BY <1>2 DEF Retire
  <2> HIDE DEF mid
  <2>3. SupOK(mid) /\ mid \in Sups /\ mid.provider = sup.provider
    BY <2>1, OnwardIsSup DEF Keeps, SupOK
  <2>4. /\ new \in Sups /\ new.provider = mid.provider /\ new.state = mid.state
        /\ new.retired = TRUE /\ new.first = mid.first /\ new.next = mid.next
        /\ new.outstanding = mid.outstanding
    BY <2>3 DEF Sups
  <2> HIDE DEF new
  <2>5. SupOK(new)
    BY <2>3, <2>4 DEF SupOK
  <2>6. \A id, context : Awaited(sup, id, context) => Awaited(mid, id, context)
    BY <2>1, KeptIsAwaited
  <2>7. \A id, context : Awaited(sup, id, context) => Awaited(new, id, context)
    BY <2>4, <2>6 DEF Awaited
  <2> QED
    BY <2>2, <2>3, <2>4, <2>5, <2>7
<1> QED
  BY <1>1, <1>2

(* The sessions are replaced by new ones, and the supervisors of the old ones retire. *)
LEMMA ReconcileKeeps ==
  ASSUME GatewayInv, Reconcile
  PROVE  GatewayInv'
<1> DEFINE n == Len(supervisors)
           m == Cardinality(Providers)
           added == SetToSeq(Providers)
           olds == [s \in 1..n |-> Retire(supervisors[s])]
           news == [i \in 1..m |-> NewSupervisor(added[i])]
           at == [p \in Providers |-> n + (CHOOSE i \in 1..m : added[i] = p)]
<1>1. /\ n \in Nat /\ m \in Nat /\ DOMAIN supervisors = 1..n /\ added \in [1..m -> Providers]
      /\ \A i, j \in 1..m : added[i] = added[j] => i = j
      /\ \A p \in Providers : \E i \in 1..m : added[i] = p
      /\ \A s \in 1..n : SupOK(supervisors[s])
  BY InvParts, OrderOfProviders DEF Places
<1>2. Len(added) = m
  <2> HIDE DEF m, added
  <2> QED
    BY <1>1, SeqOfFunction
<1>3. supervisors' = olds \o news /\ serving' = at
  BY <1>1, <1>2 DEF Reconcile, Retire
<1>4. /\ UNCHANGED <<gwRequests, gwPending, gwGeneration, offlineMode, accountSearches>>
      /\ UNCHANGED <<gwItems, providerCache, misplayed, searched, crossed>>
  BY DEF Reconcile, waitingVars, gwAccountVars, answerVars
<1>5. \A s \in 1..n : /\ SupOK(olds[s]) /\ olds[s].provider = supervisors[s].provider
                     /\ olds[s].retired = TRUE
                     /\ \A id, context : Awaited(supervisors[s], id, context)
                                           => Awaited(olds[s], id, context)
  <2> TAKE s \in 1..n
  <2>1. SupOK(supervisors[s])
    BY <1>1
  <2>2. olds[s] = Retire(supervisors[s])
    OBVIOUS
  <2> HIDE DEF olds
  <2> QED
    BY <2>1, <2>2, RetireKeeps
<1>6. olds \in [1..n -> Sups] /\ olds \in Seq(Sups) /\ Len(olds) = n
  <2>1. olds = [s \in 1..n |-> olds[s]] /\ \A s \in 1..n : olds[s] \in Sups
    BY <1>5 DEF SupOK
  <2> HIDE DEF olds, n
  <2>2. olds \in [1..n -> Sups]
    BY <2>1
  <2> QED
    BY <1>1, <2>2, SeqOfFunction
<1>7. \A i \in 1..m : /\ added[i] \in Providers /\ SupOK(news[i]) /\ news[i] \in Sups
                     /\ news[i].provider = added[i] /\ news[i].retired = FALSE
  BY <1>1, NewIsSup
<1>8. news \in Seq(Sups) /\ Len(news) = m
  <2>1. news = [s \in 1..m |-> news[s]]
    OBVIOUS
  <2> HIDE DEF news, m
  <2>2. news \in [1..m -> Sups]
    BY <1>7, <2>1
  <2> QED
    BY <1>1, <2>2, SeqOfFunction
<1> HIDE DEF olds, news
<1>9. /\ supervisors' \in Seq(Sups) /\ Len(supervisors') = n + m
      /\ \A s \in 1..n : supervisors'[s] = olds[s]
      /\ \A i \in 1..m : supervisors'[n + i] = news[i]
  <2>1. /\ olds \o news \in Seq(Sups) /\ Len(olds \o news) = n + m
        /\ \A s \in 1..(n + m) :
             (olds \o news)[s] = IF s <= n THEN olds[s] ELSE news[s - n]
    <3> HIDE DEF n, m
    <3> QED
      BY <1>6, <1>8, ConcatProperties
  <2> HIDE DEF n, m
  <2>2. \A s \in 1..n : s \in 1..(n + m) /\ s <= n
    BY <1>1
  <2> DEFINE cat == olds \o news
  <2>4. supervisors' = cat
    BY <1>3
  <2> HIDE DEF cat
  <2>5. \A s \in 1..n : supervisors'[s] = olds[s]
    BY <2>1, <2>2, <2>4 DEF cat
  <2>6. ASSUME NEW i \in 1..m PROVE supervisors'[n + i] = news[i]
    <3> DEFINE j == n + i
    <3>1. j \in 1..(n + m) /\ ~(j <= n) /\ j - n = i
      BY <1>1
    <3> HIDE DEF j
    <3>2. (olds \o news)[j] = news[i]
      BY <2>1, <3>1
    <3> QED
      BY <2>4, <3>2 DEF cat, j
  <2> QED
    BY <2>1, <2>4, <2>5, <2>6 DEF cat
<1>10. \A s \in 1..(n + m) : s \in 1..n \/ \E i \in 1..m : s = n + i
  <2> HIDE DEF n, m
  <2> TAKE s \in 1..(n + m)
  <2>1. CASE s <= n
    BY <1>1, <2>1
  <2>2. CASE ~(s <= n)
    <3>1. s - n \in 1..m /\ s = n + (s - n)
      BY <1>1, <2>2
    <3> QED
      BY <3>1
  <2> QED
    BY <2>1, <2>2
<1> HIDE DEF added
<1>11. SupsOK(supervisors')
  <2> HIDE DEF n, m
  <2>1. \A s \in 1..n : SupOK(supervisors'[s])
    BY <1>5, <1>9
  <2>2. \A i \in 1..m : SupOK(supervisors'[n + i])
    BY <1>7, <1>9
  <2>3. \A s \in 1..(n + m) : SupOK(supervisors'[s])
    BY <1>10, <2>1, <2>2
  <2> QED
    BY <1>9, <2>3 DEF SupsOK
<1>12. \A p \in Providers : \E i \in 1..m : at[p] = n + i /\ added[i] = p
  BY <1>1
<1> HIDE DEF n, m
<1>13. SessionsOK(supervisors', serving')
  <2>1. at \in [Providers -> 1..Len(supervisors')]
    <3>1. ASSUME NEW p \in Providers PROVE at[p] \in 1..(n + m)
      <4>1. PICK i \in 1..m : at[p] = n + i
        BY <1>12
      <4>2. n + i \in 1..(n + m)
        BY <1>1
      <4> HIDE DEF at
      <4> QED
        BY <4>1, <4>2
    <3> QED
      BY <1>9, <3>1
  <2> HIDE DEF at
  <2>2. \A p \in Providers : supervisors'[at[p]].provider = p /\ ~supervisors'[at[p]].retired
    BY <1>7, <1>9, <1>12
  <2>3. ASSUME NEW s \in 1..(n + m), ~supervisors'[s].retired
        PROVE  at[supervisors'[s].provider] = s
    <3>1. s \notin 1..n
      BY <1>5, <1>9, <2>3
    <3>2. PICK i \in 1..m : s = n + i
      BY <1>10, <3>1
    <3>3. supervisors'[s].provider = added[i] /\ added[i] \in Providers
      BY <1>7, <1>9, <3>2
    <3>4. PICK j \in 1..m : at[added[i]] = n + j /\ added[j] = added[i]
      BY <1>12, <3>3
    <3>5. i = j
      BY <1>1, <3>4
    <3> QED
      BY <3>2, <3>3, <3>4, <3>5
  <2> QED
    BY <1>3, <1>9, <2>1, <2>2, <2>3 DEF SessionsOK
<1>14. RequestsOK(gwRequests', supervisors', gwGeneration', searched')
  <2>1. \A k \in DOMAIN gwRequests : gwRequests[k].asked \in 1..n
    BY InvParts DEF RequestsOK, WaitsFor, n
  <2>2. \A k \in DOMAIN gwRequests :
          /\ supervisors'[gwRequests[k].asked].provider
               = supervisors[gwRequests[k].asked].provider
          /\ Awaited(supervisors[gwRequests[k].asked], k[2], gwRequests[k])
               => Awaited(supervisors'[gwRequests[k].asked], k[2], gwRequests[k])
    BY <1>5, <1>9, <2>1
  <2>3. n <= n + m /\ n + m \in Nat
    BY <1>1
  <2>4. Survive(gwRequests, supervisors', gwRequests, supervisors)
    BY <1>1, <1>9, <2>2, <2>3 DEF Survive, n
  <2>5. RequestsOK(gwRequests, supervisors', gwGeneration, searched)
    BY <2>4, InvParts, FewerRequests
  <2> QED
    BY <1>4, <2>5
<1>15. NoneRetired(supervisors') => NoneRetired(supervisors)
  <2> SUFFICES ASSUME NoneRetired(supervisors'), NEW s \in 1..n
               PROVE  FALSE
    BY DEF NoneRetired, n
  <2>1. s \in 1..(n + m)
    BY <1>1
  <2>2. supervisors'[s].retired = TRUE
    BY <1>5, <1>9
  <2> QED
    BY <1>9, <2>1, <2>2 DEF NoneRetired
<1>16. CountOK(gwPending', Unanswered(gwRequests', accountSearches', gwGeneration'),
               NoneRetired(supervisors'))
  BY <1>4, <1>15, InvParts DEF CountOK
<1>17. SearchesOK(accountSearches', gwGeneration', searched')
  BY <1>4, InvParts
<1>18. GatewayTyped' /\ AnswersRight'
  <2>1. offlineMode' \in BOOLEAN /\ CacheOK(providerCache')
        /\ (CacheRight(providerCache) => CacheRight(providerCache'))
    BY <1>4, InvParts DEF GatewayTyped
  <2> QED
    BY <1>4, <2>1, InvParts, RestKeeps
<1> QED
  BY <1>11, <1>13, <1>14, <1>16, <1>17, <1>18 DEF GatewayInv

-----------------------------------------------------------------------------
(* Searches of accounts *)

(* A page of an account arrives, and the next one is asked for. *)
LEMMA AccountPageKeeps ==
  ASSUME GatewayInv, NEW x \in accountSearches, AccountPage(x)
  PROVE  GatewayInv'
<1> DEFINE y == [x EXCEPT !.page = x.page + 1]
           rest == accountSearches \ {x}
           g == gwGeneration
           live == LiveOf(accountSearches, g)
<1>1. /\ accountSearches \in SUBSET Searches /\ IsFiniteSet(accountSearches)
      /\ \A z \in accountSearches :
           z.generation <= g /\ (z.generation = g => z.of = searched)
      /\ \A z, w \in accountSearches :
           z.account = w.account /\ z.generation = w.generation => z = w
  BY InvParts DEF SearchesOK
<1>2. /\ accountSearches' = rest \cup {y}
      /\ UNCHANGED <<supervisors, serving, gwRequests, gwPending, gwGeneration, offlineMode>>
      /\ UNCHANGED <<gwItems, providerCache, misplayed, searched, crossed>>
  BY DEF AccountPage, waitingVars, answerVars
<1>3. /\ y \in Searches /\ y.account = x.account /\ y.of = x.of /\ y.generation = x.generation
  BY <1>1 DEF Searches
<1> HIDE DEF y
<1>4. y \notin rest
  BY <1>1, <1>3
<1>5. SearchesOK(accountSearches', gwGeneration', searched')
  <2>1. IsFiniteSet(rest \cup {y})
    BY <1>1, FS_RemoveElement, FS_AddElement
  <2>2. rest \cup {y} \in SUBSET Searches
    BY <1>1, <1>3
  <2>3. \A z \in rest \cup {y} : z.generation <= g /\ (z.generation = g => z.of = searched)
    BY <1>1, <1>3
  <2>4. ASSUME NEW z \in rest \cup {y}, NEW w \in rest \cup {y},
               z.account = w.account, z.generation = w.generation
        PROVE  z = w
    BY <2>4, <1>1, <1>3
  <2> QED
    BY <1>2, <2>1, <2>2, <2>3, <2>4 DEF SearchesOK
<1>6. Cardinality(LiveOf(accountSearches', g)) = Cardinality(live)
  <2>1. CASE x.generation = g
    <3>1. LiveOf(accountSearches', g) = (live \ {x}) \cup {y} /\ x \in live /\ y \notin live \ {x}
      BY <1>2, <1>3, <1>4, <2>1 DEF LiveOf
    <3>2. IsFiniteSet(live)
      BY <1>1, FS_Subset DEF LiveOf
    <3> HIDE DEF live
    <3>3. Cardinality(live \ {x}) = Cardinality(live) - 1 /\ Cardinality(live) \in Nat
          /\ IsFiniteSet(live \ {x})
      BY <3>1, <3>2, OneLess, FS_RemoveElement
    <3>4. Cardinality((live \ {x}) \cup {y}) = Cardinality(live \ {x}) + 1
      BY <3>1, <3>3, OneMore
    <3> QED
      BY <3>1, <3>3, <3>4
  <2>2. CASE x.generation # g
    <3>1. LiveOf(accountSearches', g) = live
      BY <1>2, <1>3, <2>2 DEF LiveOf
    <3> QED
      BY <3>1
  <2> QED
    BY <2>1, <2>2
<1>7. CountOK(gwPending', Unanswered(gwRequests', accountSearches', gwGeneration'),
              NoneRetired(supervisors'))
  BY <1>2, <1>6, InvParts DEF CountOK, Unanswered
<1>8. GatewayTyped' /\ AnswersRight'
  <2>1. offlineMode' \in BOOLEAN /\ CacheOK(providerCache')
        /\ (CacheRight(providerCache) => CacheRight(providerCache'))
    BY <1>2, InvParts DEF GatewayTyped
  <2> QED
    BY <1>2, <2>1, InvParts, RestKeeps
<1>9. SupsOK(supervisors') /\ SessionsOK(supervisors', serving')
      /\ RequestsOK(gwRequests', supervisors', gwGeneration', searched')
  BY <1>2, InvParts
<1> QED
  BY <1>5, <1>7, <1>8, <1>9 DEF GatewayInv

(* The search of an account ends. *)
LEMMA FinishAccountKeeps ==
  ASSUME GatewayInv, NEW x \in accountSearches, NEW succeeded,
         FinishAccountSearch(x, succeeded)
  PROVE  GatewayInv'
<1> DEFINE g == gwGeneration
           live == LiveOf(accountSearches, g)
<1>1. /\ accountSearches \in SUBSET Searches /\ IsFiniteSet(accountSearches)
      /\ x.generation = g => x.of = searched
      /\ SearchesOK(accountSearches, g, searched)
  BY InvParts DEF SearchesOK
<1>2. /\ accountSearches' = accountSearches \ {x}
      /\ UNCHANGED <<supervisors, serving, gwRequests, gwGeneration, offlineMode, searched>>
      /\ UNCHANGED <<misplayed, crossed>>
  BY DEF FinishAccountSearch
<1>3. SearchesOK(accountSearches', gwGeneration', searched')
  <2>1. IsFiniteSet(accountSearches \ {x})
    BY <1>1, FS_RemoveElement
  <2> QED
    BY <1>1, <1>2, <2>1 DEF SearchesOK
<1>4. SupsOK(supervisors') /\ SessionsOK(supervisors', serving')
      /\ RequestsOK(gwRequests', supervisors', gwGeneration', searched')
  BY <1>2, InvParts
<1>5. CountOK(gwPending, Cardinality(DOMAIN gwRequests) + Cardinality(live),
              NoneRetired(supervisors))
  BY InvParts DEF Unanswered
<1>6. CASE x.generation # g
  <2>1. UNCHANGED <<gwPending, gwItems, providerCache>>
    BY <1>6 DEF FinishAccountSearch
  <2>2. LiveOf(accountSearches', g) = live
    BY <1>2, <1>6 DEF LiveOf
  <2>3. CountOK(gwPending', Unanswered(gwRequests', accountSearches', gwGeneration'),
                NoneRetired(supervisors'))
    BY <1>2, <1>5, <2>1, <2>2 DEF CountOK, Unanswered
  <2>4. offlineMode' \in BOOLEAN /\ CacheOK(providerCache')
        /\ (CacheRight(providerCache) => CacheRight(providerCache'))
    BY <1>2, <2>1, InvParts DEF GatewayTyped
  <2>5. GatewayTyped' /\ AnswersRight'
    BY <1>2, <2>1, <2>4, InvParts, RestKeeps
  <2> QED
    BY <1>3, <1>4, <2>3, <2>5 DEF GatewayInv
<1>7. CASE x.generation = g
  <2>1. gwPending' = Decrement(gwPending)
    BY <1>7 DEF FinishAccountSearch
  <2>2. CountOK(gwPending', Unanswered(gwRequests', accountSearches', gwGeneration'),
                NoneRetired(supervisors'))
    <3> DEFINE D == DOMAIN gwRequests
               c == Cardinality(D) + Cardinality(live)
    <3>1. IsFiniteSet(D) /\ IsFiniteSet(live) /\ x \in live
      BY <1>1, <1>7, InvParts, FS_Subset DEF RequestsOK, LiveOf
    <3>2. LiveOf(accountSearches', g) = live \ {x}
      BY <1>2 DEF LiveOf
    <3>3. Unanswered(gwRequests', accountSearches', gwGeneration')
            = Cardinality(D) + Cardinality(live \ {x})
      BY <1>2, <3>2 DEF Unanswered
    <3> HIDE DEF D, live
    <3>4. Cardinality(live \ {x}) = Cardinality(live) - 1 /\ Cardinality(live) \in Nat
          /\ Cardinality(live) # 0 /\ Cardinality(D) \in Nat
      BY <3>1, OneLess, FS_CardinalityType
    <3>5. c # 0 /\ Unanswered(gwRequests', accountSearches', gwGeneration') = c - 1
      BY <3>3, <3>4
    <3>6. CountOK(gwPending, c, NoneRetired(supervisors))
      BY <1>5 DEF D
    <3> HIDE DEF c
    <3>7. CountOK(Decrement(gwPending), c - 1, NoneRetired(supervisors))
      BY <3>5, <3>6, CountedDown
    <3> QED
      BY <1>2, <2>1, <3>5, <3>7 DEF CountOK
  <2>3. CASE ~succeeded
    <3>1. UNCHANGED <<gwItems, providerCache>>
      BY <1>7, <2>3 DEF FinishAccountSearch
    <3>2. offlineMode' \in BOOLEAN /\ CacheOK(providerCache')
          /\ (CacheRight(providerCache) => CacheRight(providerCache'))
      BY <1>2, <3>1, InvParts DEF GatewayTyped
    <3>3. GatewayTyped' /\ AnswersRight'
      BY <1>2, <3>1, <3>2, InvParts, RestKeeps
    <3> QED
      BY <1>3, <1>4, <2>2, <3>3 DEF GatewayInv
  <2>4. CASE succeeded
    <3> DEFINE item == [source |-> x.account, of |-> x.of]
    <3>1. PutAndPrune(x.account, x.of, x.of) /\ gwItems' = gwItems \cup {item}
      BY <1>7, <2>4 DEF FinishAccountSearch
    <3>2. x.account \in Sources /\ x.of \in Sought /\ x.of = searched
      BY <1>1, <1>7 DEF Searches, Sources
    <3>3. CacheOK(providerCache') /\ (CacheRight(providerCache) => CacheRight(providerCache'))
      BY <3>1, <3>2, PutKeeps
    <3>4. item \in Items /\ item.of = searched
      BY <3>2 DEF Items
    <3> HIDE DEF item
    <3>5. GatewayTyped'
      BY <1>2, <3>1, <3>3, <3>4, InvParts DEF GatewayTyped
    <3>6. AnswersRight
      BY InvParts
    <3>7. AnswersRight'
      BY <1>2, <3>1, <3>3, <3>4, <3>6 DEF AnswersRight
    <3> QED
      BY <1>3, <1>4, <2>2, <3>5, <3>7 DEF GatewayInv
  <2> QED
    BY <2>3, <2>4
<1> QED
  BY <1>6, <1>7

-----------------------------------------------------------------------------
(* The specification *)

(* The invariant holds at the start, *)
LEMMA GatewayStartsInv == GatewayInit => GatewayInv
<1> SUFFICES ASSUME GatewayInit PROVE GatewayInv
  OBVIOUS
<1> DEFINE n == Cardinality(Providers)
<1>1. PICK order \in [1..n -> Providers] :
        /\ IsInjective(order)
        /\ supervisors = [s \in DOMAIN order |-> NewSupervisor(order[s])]
        /\ serving = [p \in Providers |-> CHOOSE s \in DOMAIN order : order[s] = p]
  BY DEF GatewayInit
<1>2. /\ n \in Nat /\ DOMAIN order = 1..n
      /\ \A i, j \in 1..n : order[i] = order[j] => i = j
      /\ \A p \in Providers : \E i \in 1..n : order[i] = p
  BY <1>1, InjectiveOrders DEF Places
<1>3. \A s \in 1..n : /\ order[s] \in Providers
                     /\ SupOK(supervisors[s]) /\ supervisors[s] \in Sups
                     /\ supervisors[s].provider = order[s] /\ supervisors[s].retired = FALSE
  BY <1>1, <1>2, NewIsSup
<1>4. supervisors = [s \in 1..n |-> supervisors[s]]
  BY <1>1, <1>2
<1>5. supervisors \in Seq(Sups) /\ Len(supervisors) = n
  <2> HIDE DEF n
  <2>1. supervisors \in [1..n -> Sups]
    BY <1>3, <1>4
  <2> QED
    BY <1>2, <2>1, SeqOfFunction
<1>6. SupsOK(supervisors)
  BY <1>3, <1>5 DEF SupsOK
<1>7. \A p \in Providers : serving[p] \in 1..n /\ order[serving[p]] = p
  BY <1>1, <1>2
<1>8. serving = [p \in Providers |-> serving[p]]
  BY <1>1
<1> HIDE DEF n
<1>9. SessionsOK(supervisors, serving)
  BY <1>2, <1>3, <1>5, <1>7, <1>8 DEF SessionsOK
<1>10. /\ gwRequests = NoRequests /\ gwPending = 0 /\ gwGeneration = 0 /\ gwItems = {}
       /\ offlineMode = FALSE /\ accountSearches = {} /\ providerCache = <<>>
       /\ searched = NoQuery /\ misplayed = FALSE /\ crossed = FALSE
  BY DEF GatewayInit
<1>11. RequestsOK(gwRequests, supervisors, gwGeneration, searched)
  BY <1>10, NoneAreOut, FS_EmptySet DEF RequestsOK
<1>12. SearchesOK(accountSearches, gwGeneration, searched)
  BY <1>10, FS_EmptySet DEF SearchesOK
<1>13. CountOK(gwPending, Unanswered(gwRequests, accountSearches, gwGeneration),
               NoneRetired(supervisors))
  <2>1. DOMAIN gwRequests = {} /\ LiveOf(accountSearches, gwGeneration) = {}
    BY <1>10, NoneAreOut DEF LiveOf
  <2>2. Cardinality({}) = 0
    BY FS_EmptySet
  <2>3. Unanswered(gwRequests, accountSearches, gwGeneration) = 0
    BY <2>1, <2>2 DEF Unanswered
  <2> QED
    BY <1>10, <2>3 DEF CountOK
<1>14. CacheOK(providerCache) /\ CacheRight(providerCache)
  <2>1. providerCache \in Seq(CacheEntries) /\ Len(providerCache) = 0
    BY <1>10, EmptySeq
  <2> QED
    BY <2>1, BoundIsNumber DEF CacheOK, CacheRight
<1>15. GatewayTyped
  BY <1>10, <1>14 DEF GatewayTyped, Sought
<1>16. AnswersRight
  BY <1>10, <1>14 DEF AnswersRight
<1> QED
  BY <1>6, <1>9, <1>11, <1>12, <1>13, <1>15, <1>16 DEF GatewayInv

(* and every step keeps it. *)
LEMMA GatewayStepKeeps == GatewayInv /\ [GatewayNext]_gatewayVars => GatewayInv'
<1> SUFFICES ASSUME GatewayInv, [GatewayNext]_gatewayVars PROVE GatewayInv'
  OBVIOUS
<1>1. DOMAIN supervisors = 1..Len(supervisors)
  BY InvParts
<1>2. CASE UNCHANGED gatewayVars
  <2>1. /\ UNCHANGED <<supervisors, serving, gwRequests, gwPending, gwGeneration, offlineMode>>
        /\ UNCHANGED <<accountSearches, gwItems, providerCache, misplayed, searched, crossed>>
    BY <1>2 DEF gatewayVars, waitingVars, gwAccountVars, answerVars
  <2>2. offlineMode' \in BOOLEAN /\ CacheOK(providerCache')
        /\ (CacheRight(providerCache) => CacheRight(providerCache'))
    BY <2>1, InvParts DEF GatewayTyped
  <2>3. GatewayTyped' /\ AnswersRight'
    BY <2>1, <2>2, InvParts, RestKeeps
  <2> QED
    BY <2>1, <2>3, InvParts DEF GatewayInv
<1>3. CASE \E s \in DOMAIN supervisors : SupervisorReady(s)
  BY <1>1, <1>3, SupervisorReadyKeeps
<1>4. CASE \E s \in DOMAIN supervisors : SupervisorRestarts(s)
  BY <1>1, <1>4, SupervisorRestartsKeeps
<1>5. CASE \E s \in DOMAIN supervisors : SupervisorEnds(s)
  BY <1>1, <1>5, SupervisorEndsKeeps
<1>6. CASE Reconcile
  BY <1>6, ReconcileKeeps
<1>7. CASE ExpireCache
  BY <1>7, ExpireCacheKeeps
<1>8. CASE \E query \in Queries : Search(query)
  BY <1>8, SearchKeeps
<1>9. CASE \E p \in Providers, cursor \in Cursors : Browse(p, cursor)
  BY <1>9, BrowseKeeps
<1>10. CASE CancelGateway
  BY <1>10, CancelGatewayKeeps
<1>11. CASE SetOfflineMode
  BY <1>11, SetOfflineModeKeeps
<1>12. CASE \E item \in gwItems : PlayItem(item)
  BY <1>12, PlayItemKeeps
<1>13. CASE \E s \in DOMAIN supervisors, succeeded \in BOOLEAN :
              \E id \in DOMAIN supervisors[s].outstanding : ProviderResponds(s, id, succeeded)
  BY <1>1, <1>13, ProviderRespondsKeeps
<1>14. CASE \E s \in DOMAIN supervisors :
              \E id \in DOMAIN supervisors[s].outstanding : ProviderTimesOut(s, id)
  BY <1>1, <1>14, ProviderTimesOutKeeps
<1>15. CASE \E x \in accountSearches : AccountPage(x)
  BY <1>15, AccountPageKeeps
<1>16. CASE \E x \in accountSearches, succeeded \in BOOLEAN : FinishAccountSearch(x, succeeded)
  BY <1>16, FinishAccountKeeps
<1>17. CASE \E a \in Accounts, status \in {"enabled", "disabled", "removed"} :
              SetAccount(a, status)
  BY <1>17, SetAccountKeeps
<1> QED
  BY <1>2, <1>3, <1>4, <1>5, <1>6, <1>7, <1>8, <1>9, <1>10, <1>11, <1>12, <1>13, <1>14,
     <1>15, <1>16, <1>17 DEF GatewayNext

(* What the gateway knows of its supervisors, requests, searches and cache stays    *)
(* consistent whatever they do: GatewayInv is inductive.                       *)
THEOREM GatewayStaysConsistent == GatewaySpec => []GatewayInv
<1>1. GatewayInit => GatewayInv
  BY GatewayStartsInv
<1>2. GatewayInv /\ [GatewayNext]_gatewayVars => GatewayInv'
  BY GatewayStepKeeps
<1> QED
  BY <1>1, <1>2, PTL DEF GatewaySpec

(* It says what the variables range over, *)
LEMMA GatewayInvTypes == GatewayInv => GatewayTypeOK
<1> SUFFICES ASSUME GatewayInv PROVE GatewayTypeOK
  OBVIOUS
<1>1. DOMAIN supervisors = 1..Len(supervisors)
      /\ \A s \in 1..Len(supervisors) : supervisors[s] \in Sups
  BY InvParts
<1>2. /\ serving \in [Providers -> 1..Len(supervisors)]
      /\ \A p \in Providers : ~supervisors[serving[p]].retired
      /\ \A s \in 1..Len(supervisors) :
           ~supervisors[s].retired => serving[supervisors[s].provider] = s
  BY InvParts DEF SessionsOK
<1>3. {s \in DOMAIN supervisors : ~supervisors[s].retired} = Range(serving)
  <2>1. ASSUME NEW s \in DOMAIN supervisors, ~supervisors[s].retired
        PROVE  s \in Range(serving)
    <3>1. supervisors[s].provider \in DOMAIN serving
      BY <1>1, <1>2, SupFields
    <3>2. serving[supervisors[s].provider] = s
      BY <1>1, <1>2, <2>1
    <3> QED
      BY <3>1, <3>2 DEF Range
  <2>2. \A s \in Range(serving) : s \in DOMAIN supervisors /\ ~supervisors[s].retired
    BY <1>1, <1>2 DEF Range
  <2> QED
    BY <2>1, <2>2
<1>4. \A s \in DOMAIN supervisors : supervisors[s].state \in {"starting", "ready", "ended"}
  BY <1>1, SupFields
<1>5. gwPending \in Nat
  BY InvParts DEF CountOK
<1>6. gwGeneration \in Nat /\ offlineMode \in BOOLEAN /\ crossed \in BOOLEAN
  BY InvParts DEF GatewayTyped
<1>7. \A e \in Range(providerCache) : e.space \in Sources
  <2>1. \A i \in DOMAIN providerCache : providerCache[i] \in CacheEntries
    BY InvParts, LenProperties, ElementOfSeq DEF GatewayTyped, CacheOK
  <2> QED
    BY <2>1 DEF Range, CacheEntries
<1> QED
  BY <1>3, <1>4, <1>5, <1>6, <1>7 DEF GatewayTypeOK, Sources

(* that what is shown and cached answers the query, *)
LEMMA GatewayInvAnswers == GatewayInv => OnlyRetiredMisanswer
<1> SUFFICES ASSUME GatewayInv, crossed # TRUE PROVE AnswersOfTheirQuery
  BY InvParts DEF OnlyRetiredMisanswer, GatewayTyped
<1>1. AnswersRight /\ DOMAIN providerCache = 1..Len(providerCache)
  BY InvParts, LenProperties DEF GatewayTyped, CacheOK
<1> QED
  BY <1>1 DEF AnswersRight, CacheRight, AnswersOfTheirQuery

(* and that what is pending may come. *)
LEMMA GatewayInvPends == GatewayInv => PendingIsAnswerable
<1> SUFFICES ASSUME GatewayInv PROVE PendingIsAnswerable
  OBVIOUS
<1>1. \A k \in DOMAIN gwRequests : WaitsFor(supervisors, k, gwRequests[k], gwGeneration, searched)
  BY InvParts DEF RequestsOK
<1>2. \A k \in DOMAIN gwRequests :
        LET sup == supervisors[gwRequests[k].asked]
        IN  /\ gwRequests[k].generation = gwGeneration
            /\ sup.state = "ready" /\ k[2] >= sup.first => k[2] \in DOMAIN sup.outstanding
  BY <1>1 DEF WaitsFor, Awaited
<1>3. CountOK(gwPending, Cardinality(DOMAIN gwRequests)
                + Cardinality(LiveOf(accountSearches, gwGeneration)), NoneRetired(supervisors))
  BY InvParts DEF Unanswered
<1>4. NoneRetired(supervisors) <=> \A s \in DOMAIN supervisors : ~supervisors[s].retired
  BY InvParts DEF NoneRetired
<1> QED
  BY <1>2, <1>3, <1>4 DEF PendingIsAnswerable, CountOK, LiveOf

(* Every variable of the gateway stays in its domain, and each provider has one *)
(* supervisor that has not retired.                                             *)
THEOREM GatewayIsTyped == GatewaySpec => []GatewayTypeOK
  BY GatewayStaysConsistent, GatewayInvTypes, PTL

(* Everything the gateway shows, caches and plays answers the query it was asked for, *)
(* unless a response of a retired supervisor was taken for that of its successor      *)
(* (ProviderGateway.cpp; the request numbers of both start at one).                   *)
THEOREM OnlyRetiredSupervisorsMisanswer == GatewaySpec => []OnlyRetiredMisanswer
  BY GatewayStaysConsistent, GatewayInvAnswers, PTL

(* A request the gateway waits for is of the present generation, and its supervisor has   *)
(* it outstanding or is gone for good; and while no supervisor retired the number that is *)
(* pending is the number of answers to come (ProviderGateway.cpp).                        *)
THEOREM PendingAnswersCanCome == GatewaySpec => []PendingIsAnswerable
  BY GatewayStaysConsistent, GatewayInvPends, PTL

HIDE GatewayAssumption

-----------------------------------------------------------------------------
(* ProviderAccounts *)

RowsTyped ==
  /\ accountRows \in Rows /\ settingsRows \in Rows /\ diskRows \in Rows
  /\ secrets \subseteq usedIds /\ usedIds \subseteq Users /\ troubled \subseteq Users
  /\ \A u \in Users \ usedIds :
       accountRows[u] = "none" /\ settingsRows[u] = "none" /\ diskRows[u] = "none"

(* The settings agree too: QSettings may sync them at any time. *)
StoresTell ==
  \A u \in Users \ troubled :
    /\ u \in secrets <=> accountRows[u] # "none"
    /\ diskRows[u] = accountRows[u] /\ settingsRows[u] = accountRows[u]

TestsTyped ==
  /\ testStatus \in [Users -> {"", "testing", "answered"}]
  /\ tests \in [Users -> 0..MaxTests]
  /\ \A u \in Users : testStatus[u] = "testing" => tests[u] > 0
  /\ \A u \in Users : accountRows[u] = "none" => testStatus[u] = ""
  /\ wallClock \in 0..MaxClock

(* A grant is what was issued under its handle, of an account that is stored, and  *)
(* a handle that disclosed its secret has no grant any more. *)
Issued == \E n \in Nat : DOMAIN issueLog = 1..n

GrantsTell ==
  /\ Issued
  /\ \A g \in handleGrants :
       /\ g.handle \in DOMAIN issueLog
       /\ issueLog[g.handle].account = g.account /\ issueLog[g.handle].provider = g.provider
       /\ g.expires = issueLog[g.handle].at + Lifetime
       /\ g.account \in Users /\ accountRows[g.account] # "none"
  /\ \A d \in disclosed : d.handle \in DOMAIN issueLog
  /\ \A d \in disclosed : \A g \in handleGrants : g.handle # d.handle

AccountsInv == RowsTyped /\ StoresTell /\ TestsTyped /\ GrantsTell

USE AccountsAssumption

-----------------------------------------------------------------------------
(* The bounds and the lifetime of a handle are numbers. *)
LEMMA BoundsAreNumbers == MaxTests \in Nat /\ MaxClock \in Nat /\ Lifetime \in Nat
  OBVIOUS

(* One test more or less, of those not answered *)
LEMMA OneTestMore ==
  ASSUME NEW n \in 0..MaxTests
  PROVE  /\ n < MaxTests => n + 1 \in 0..MaxTests /\ n + 1 > 0
         /\ n > 0 => n - 1 \in 0..MaxTests
  BY BoundsAreNumbers

(* The accounts that are stored have a row. *)
LEMMA InStored ==
  ASSUME NEW u
  PROVE  u \in Stored <=> u \in Users /\ accountRows[u] # "none"
  BY DEF Stored

(* Nothing about handles changes, and no account leaves. *)
LEMMA GrantsKeep ==
  ASSUME GrantsTell, KeepHandles,
         \A u \in Users : accountRows[u] # "none" => accountRows'[u] # "none"
  PROVE  GrantsTell'
  BY DEF GrantsTell, Issued, KeepHandles

(* ... and some grants are dropped. *)
LEMMA FewerGrantsKeep ==
  ASSUME GrantsTell, handleGrants' \subseteq handleGrants, UNCHANGED <<issueLog, disclosed>>,
         \A g \in handleGrants' : accountRows'[g.account] # "none"
  PROVE  GrantsTell'
  BY DEF GrantsTell, Issued

(* Settings and disk after an account u is written over the rows *)
LEMMA WrittenKeeps ==
  ASSUME RowsTyped, StoresTell, NEW u \in Users, NEW ok \in BOOLEAN,
         NEW state \in {"none", "enabled", "disabled"},
         PersistAccounts([accountRows EXCEPT ![u] = state], ok), Trouble(u, ok),
         accountRows' = [accountRows EXCEPT ![u] = state] \/ (~ok /\ accountRows' = accountRows),
         u \in usedIds', usedIds \subseteq usedIds', usedIds' \subseteq Users,
         secrets' \subseteq usedIds',
         \A v \in Users : v # u => (v \in secrets' <=> v \in secrets),
         ok => (u \in secrets' <=> state # "none")
  PROVE  RowsTyped' /\ StoresTell'
<1> DEFINE rows == [accountRows EXCEPT ![u] = state]
<1>1. /\ accountRows \in Rows /\ settingsRows \in Rows /\ diskRows \in Rows
      /\ troubled \subseteq Users
  BY DEF RowsTyped
<1>2. /\ rows \in Rows /\ rows[u] = state
      /\ \A v \in Users : v # u => rows[v] = accountRows[v]
  BY <1>1 DEF Rows
<1>3. /\ settingsRows' = rows /\ diskRows' = (IF ok THEN rows ELSE diskRows)
      /\ accountRows' = rows \/ (~ok /\ accountRows' = accountRows)
      /\ troubled' = troubled \cup (IF ok THEN {} ELSE {u})
  BY DEF PersistAccounts, Trouble, Troubles
<1> HIDE DEF rows
<1>4. RowsTyped'
  <2>1. accountRows' \in Rows /\ settingsRows' \in Rows /\ diskRows' \in Rows
        /\ troubled' \subseteq Users
    BY <1>1, <1>2, <1>3
  <2>2. ASSUME NEW v \in Users \ usedIds'
        PROVE  accountRows'[v] = "none" /\ settingsRows'[v] = "none" /\ diskRows'[v] = "none"
    <3>1. v # u /\ v \in Users \ usedIds
      OBVIOUS
    <3> QED
      BY <3>1, <1>2, <1>3 DEF RowsTyped
  <2> QED
    BY <2>1, <2>2 DEF RowsTyped
<1>5. ASSUME NEW v \in Users \ troubled'
      PROVE  /\ v \in secrets' <=> accountRows'[v] # "none"
             /\ diskRows'[v] = accountRows'[v] /\ settingsRows'[v] = accountRows'[v]
  <2>1. CASE v # u
    BY <2>1, <1>2, <1>3 DEF StoresTell
  <2>2. CASE v = u
    BY <2>2, <1>2, <1>3
  <2> QED
    BY <2>1, <2>2
<1> QED
  BY <1>4, <1>5 DEF StoresTell

-----------------------------------------------------------------------------
(* Adding, removing, switching *)

(* Adding an account stores its secret and its row, or neither. *)
LEMMA AddAccountKeeps ==
  ASSUME AccountsInv, NEW u \in Users, NEW ok \in BOOLEAN, AddAccount(u, ok)
  PROVE  AccountsInv'
<1>1. /\ u \notin usedIds /\ usedIds' = usedIds \cup {u}
      /\ PersistAccounts([accountRows EXCEPT ![u] = "enabled"], ok) /\ Trouble(u, ok)
      /\ accountRows' = [accountRows EXCEPT ![u] = "enabled"]
           \/ (~ok /\ accountRows' = accountRows)
      /\ secrets' = secrets \cup {u} \/ (~ok /\ secrets' = secrets)
      /\ UNCHANGED <<testStatus, tests, wallClock>> /\ KeepHandles
  BY DEF AddAccount, KeepClock
<1>2. RowsTyped /\ StoresTell /\ TestsTyped /\ GrantsTell
  BY DEF AccountsInv
<1>3. RowsTyped' /\ StoresTell'
  <2>1. /\ u \in usedIds' /\ usedIds \subseteq usedIds' /\ usedIds' \subseteq Users
        /\ secrets' \subseteq usedIds'
        /\ \A v \in Users : v # u => (v \in secrets' <=> v \in secrets)
        /\ ok => (u \in secrets' <=> "enabled" # "none")
    BY <1>1, <1>2 DEF RowsTyped
  <2> QED
    BY <1>1, <1>2, <2>1, WrittenKeeps
<1>4. \A v \in Users : accountRows'[v] = "none" => accountRows[v] = "none"
  BY <1>1, <1>2 DEF RowsTyped, Rows
<1> QED
  BY <1>1, <1>2, <1>3, <1>4, GrantsKeep DEF AccountsInv, TestsTyped

(* Removing one removes both, or its row alone: then it is troubled. *)
LEMMA RemoveAccountKeeps ==
  ASSUME AccountsInv, NEW u \in Users, NEW ok \in BOOLEAN, RemoveAccount(u, ok)
  PROVE  AccountsInv'
<1>1. /\ u \in Stored /\ secrets' = secrets \ {u} /\ handleGrants' = RevokeAccount(u)
      /\ accountRows' = [accountRows EXCEPT ![u] = "none"]
      /\ testStatus' = [testStatus EXCEPT ![u] = ""]
      /\ PersistAccounts([accountRows EXCEPT ![u] = "none"], ok) /\ Trouble(u, ok)
      /\ UNCHANGED <<tests, usedIds, wallClock>> /\ UNCHANGED <<issueLog, disclosed>>
  BY DEF RemoveAccount, KeepClock
<1>2. RowsTyped /\ StoresTell /\ TestsTyped /\ GrantsTell
  BY DEF AccountsInv
<1>3. u \in usedIds
  BY <1>1, <1>2, InStored DEF RowsTyped
<1>4. RowsTyped' /\ StoresTell'
  <2>1. /\ u \in usedIds' /\ usedIds \subseteq usedIds' /\ usedIds' \subseteq Users
        /\ secrets' \subseteq usedIds'
        /\ \A v \in Users : v # u => (v \in secrets' <=> v \in secrets)
        /\ ok => (u \in secrets' <=> "none" # "none")
    BY <1>1, <1>2, <1>3 DEF RowsTyped
  <2> QED
    BY <1>1, <1>2, <2>1, WrittenKeeps
<1>5. accountRows'[u] = "none" /\ \A v \in Users : v # u => accountRows'[v] = accountRows[v]
  BY <1>1, <1>2 DEF RowsTyped, Rows
<1>6. GrantsTell'
  <2>1. \A g \in handleGrants' : g \in handleGrants /\ g.account # u
    BY <1>1 DEF RevokeAccount
  <2>2. \A g \in handleGrants' : accountRows'[g.account] # "none"
    BY <2>1, <1>2, <1>5 DEF GrantsTell
  <2> QED
    BY <1>1, <1>2, <2>1, <2>2, FewerGrantsKeep
<1>7. TestsTyped'
  <2>1. testStatus \in [Users -> {"", "testing", "answered"}]
    BY <1>2 DEF TestsTyped
  <2>2. testStatus' \in [Users -> {"", "testing", "answered"}] /\ testStatus'[u] = ""
        /\ \A v \in Users : v # u => testStatus'[v] = testStatus[v]
    BY <1>1, <2>1
  <2> QED
    BY <1>1, <1>2, <1>5, <2>2 DEF TestsTyped
<1> QED
  BY <1>4, <1>6, <1>7 DEF AccountsInv

(* Enabling and disabling writes the row. *)
LEMMA SetAccountEnabledKeeps ==
  ASSUME AccountsInv, NEW u \in Users, NEW ok \in BOOLEAN,
         NEW state \in {"enabled", "disabled"}, SetAccountEnabled(u, state, ok)
  PROVE  AccountsInv'
<1>1. /\ u \in Stored
      /\ accountRows' = [accountRows EXCEPT ![u] = state]
      /\ PersistAccounts([accountRows EXCEPT ![u] = state], ok) /\ Trouble(u, ok)
      /\ UNCHANGED <<secrets, testStatus, tests, usedIds, wallClock>> /\ KeepHandles
  BY DEF SetAccountEnabled, KeepClock
<1>2. RowsTyped /\ StoresTell /\ TestsTyped /\ GrantsTell
  BY DEF AccountsInv
<1>3. u \in usedIds /\ accountRows[u] # "none"
  BY <1>1, <1>2, InStored DEF RowsTyped
<1>4. RowsTyped' /\ StoresTell'
  <2>1. CASE u \in secrets
    <3>1. /\ u \in usedIds' /\ usedIds \subseteq usedIds' /\ usedIds' \subseteq Users
          /\ secrets' \subseteq usedIds'
          /\ \A v \in Users : v # u => (v \in secrets' <=> v \in secrets)
          /\ ok => (u \in secrets' <=> state # "none")
          /\ state \in {"none", "enabled", "disabled"}
      BY <1>1, <1>2, <1>3, <2>1 DEF RowsTyped
    <3> QED
      BY <1>1, <1>2, <3>1, WrittenKeeps
  <2>2. CASE u \notin secrets
    \* then a write of u has failed before, and the stores need not agree on it
    <3> DEFINE rows == [accountRows EXCEPT ![u] = state]
    <3>1. u \in troubled
      BY <1>2, <1>3, <2>2 DEF StoresTell
    <3>2. /\ rows \in Rows /\ rows[u] = state
          /\ \A v \in Users : v # u => rows[v] = accountRows[v]
      BY <1>2 DEF RowsTyped, Rows
    <3>3. /\ settingsRows' = rows /\ diskRows' = (IF ok THEN rows ELSE diskRows)
          /\ accountRows' = rows
          /\ troubled' = troubled \cup (IF ok THEN {} ELSE {u})
      BY <1>1 DEF PersistAccounts, Trouble, Troubles
    <3> HIDE DEF rows
    <3>4. RowsTyped'
      BY <1>1, <1>2, <1>3, <3>2, <3>3 DEF RowsTyped
    <3>5. \A v \in Users \ troubled' : v # u /\ v \in Users \ troubled
      BY <3>1, <3>3
    <3>6. StoresTell'
      BY <1>1, <1>2, <3>2, <3>3, <3>5 DEF StoresTell
    <3> QED
      BY <3>4, <3>6
  <2> QED
    BY <2>1, <2>2
<1>5. \A v \in Users : accountRows'[v] = "none" => accountRows[v] = "none"
  BY <1>1, <1>2 DEF RowsTyped, Rows
<1> QED
  BY <1>1, <1>2, <1>4, <1>5, GrantsKeep DEF AccountsInv, TestsTyped

(* The secret of u alone, while a write of u fails *)
LEMMA SecretOnlyKeeps ==
  ASSUME AccountsInv, NEW u \in Users,
         usedIds' = usedIds \cup {u}, secrets' \in {secrets, secrets \cup {u}, secrets \ {u}},
         Trouble(u, FALSE),
         UNCHANGED <<accountRows, settingsRows, diskRows, testStatus, tests>>,
         KeepHandles, KeepClock
  PROVE  AccountsInv'
<1>1. RowsTyped /\ StoresTell /\ TestsTyped /\ GrantsTell
  BY DEF AccountsInv
<1>2. troubled' = troubled \cup {u} /\ UNCHANGED wallClock
  BY DEF Trouble, Troubles, KeepClock
<1>3. RowsTyped'
  BY <1>1, <1>2 DEF RowsTyped
<1>4. StoresTell'
  BY <1>1, <1>2 DEF StoresTell
<1> QED
  BY <1>1, <1>2, <1>3, <1>4, GrantsKeep DEF AccountsInv, TestsTyped

(* A test of the connection starts, *)
LEMMA TestConnectionKeeps ==
  ASSUME AccountsInv, NEW u \in Users, NEW loaded \in BOOLEAN, TestConnection(u, loaded)
  PROVE  AccountsInv'
<1>1. /\ u \in Users /\ accountRows[u] # "none" /\ tests[u] < MaxTests
      /\ \/ /\ testStatus' = [testStatus EXCEPT ![u] = "testing"]
            /\ tests' = [tests EXCEPT ![u] = tests[u] + 1]
         \/ /\ testStatus' = [testStatus EXCEPT ![u] = "answered"]
            /\ tests' = tests
      /\ UNCHANGED <<accountRows, settingsRows, diskRows, secrets, usedIds, troubled, wallClock>>
      /\ KeepHandles
  BY InStored DEF TestConnection, KeepClock
<1>2. RowsTyped /\ StoresTell /\ TestsTyped /\ GrantsTell
  BY DEF AccountsInv
<1>3. RowsTyped' /\ StoresTell'
  BY <1>1, <1>2 DEF RowsTyped, StoresTell
<1>4. TestsTyped'
  <2>1. MaxTests \in Nat /\ testStatus \in [Users -> {"", "testing", "answered"}]
        /\ tests \in [Users -> 0..MaxTests]
    BY <1>2 DEF TestsTyped
  <2>2. CASE /\ testStatus' = [testStatus EXCEPT ![u] = "testing"]
             /\ tests' = [tests EXCEPT ![u] = tests[u] + 1]
    <3> DEFINE more == tests[u] + 1
    <3>1. more \in 0..MaxTests /\ more > 0
      BY <1>1, <2>1, OneTestMore
    <3> HIDE DEF more
    <3>2. /\ testStatus' \in [Users -> {"", "testing", "answered"}]
          /\ tests' \in [Users -> 0..MaxTests]
          /\ \A v \in Users : v # u => testStatus'[v] = testStatus[v] /\ tests'[v] = tests[v]
          /\ tests'[u] > 0
      <4>1. tests' = [tests EXCEPT ![u] = more]
        BY <2>2 DEF more
      <4> QED
        BY <2>1, <2>2, <3>1, <4>1
    <3> QED
      BY <3>2, <1>1, <1>2 DEF TestsTyped
  <2>3. CASE testStatus' = [testStatus EXCEPT ![u] = "answered"] /\ tests' = tests
    <3>1. /\ testStatus' \in [Users -> {"", "testing", "answered"}]
          /\ \A v \in Users : v # u => testStatus'[v] = testStatus[v]
          /\ testStatus'[u] = "answered"
      BY <2>1, <2>3
    <3> QED
      BY <3>1, <2>3, <1>1, <1>2 DEF TestsTyped
  <2> QED
    BY <1>1, <2>2, <2>3
<1> QED
  BY <1>1, <1>2, <1>3, <1>4, GrantsKeep DEF AccountsInv

(* and is answered: the last one decides. *)
LEMMA TestAnsweredKeeps ==
  ASSUME AccountsInv, NEW u \in Users, TestAnswered(u)
  PROVE  AccountsInv'
<1>1. /\ tests[u] > 0 /\ tests' = [tests EXCEPT ![u] = tests[u] - 1]
      /\ testStatus' = IF accountRows[u] # "none" THEN [testStatus EXCEPT ![u] = "answered"]
                       ELSE testStatus
      /\ UNCHANGED <<accountRows, settingsRows, diskRows, secrets, usedIds, troubled, wallClock>>
      /\ KeepHandles
  BY InStored DEF TestAnswered, KeepClock
<1>2. RowsTyped /\ StoresTell /\ TestsTyped /\ GrantsTell
  BY DEF AccountsInv
<1>3. RowsTyped' /\ StoresTell'
  BY <1>1, <1>2 DEF RowsTyped, StoresTell
<1>4. TestsTyped'
  <2>1. MaxTests \in Nat /\ testStatus \in [Users -> {"", "testing", "answered"}]
        /\ tests \in [Users -> 0..MaxTests]
    BY <1>2 DEF TestsTyped
  <2>2. tests[u] - 1 \in 0..MaxTests
    BY <1>1, <2>1, OneTestMore
  <2>3. /\ tests' \in [Users -> 0..MaxTests]
        /\ \A v \in Users : v # u => tests'[v] = tests[v]
    BY <1>1, <2>1, <2>2
  <2>4. /\ testStatus' \in [Users -> {"", "testing", "answered"}]
        /\ \A v \in Users : v # u => testStatus'[v] = testStatus[v]
        /\ testStatus'[u] # "testing" /\ (accountRows[u] = "none" => testStatus'[u] = "")
    BY <1>1, <1>2, <2>1 DEF TestsTyped
  <2> QED
    BY <1>1, <1>2, <2>3, <2>4 DEF TestsTyped
<1> QED
  BY <1>1, <1>2, <1>3, <1>4, GrantsKeep DEF AccountsInv

-----------------------------------------------------------------------------
(* Handles *)

(* A handle is issued to a provider for an account that is stored. *)
LEMMA IssueHandleKeeps ==
  ASSUME AccountsInv, NEW u \in Users, NEW asker \in Askers, IssueHandle(u, asker)
  PROVE  AccountsInv'
<1> DEFINE entry == [account |-> u, provider |-> asker, at |-> wallClock]
           grant(n) == [handle |-> n + 1, account |-> u, provider |-> asker,
                        expires |-> wallClock + Lifetime]
<1>1. RowsTyped /\ StoresTell /\ TestsTyped /\ GrantsTell
  BY DEF AccountsInv
<1>2. PICK n \in Nat : DOMAIN issueLog = 1..n
  BY <1>1 DEF GrantsTell, Issued
<1>3. Cardinality(DOMAIN issueLog) = n
  BY <1>2, FS_Interval
<1>4. /\ accountRows[u] = "enabled"
      /\ handleGrants' = Unexpired \cup {grant(n)}
      /\ issueLog' = [i \in DOMAIN issueLog \cup {n + 1} |->
                        IF i = n + 1 THEN entry ELSE issueLog[i]]
      /\ UNCHANGED <<accountRows, settingsRows, diskRows, secrets, testStatus, tests,
                     usedIds, disclosed, troubled, wallClock>>
  BY <1>3 DEF IssueHandle, KeepClock
<1>5. RowsTyped' /\ StoresTell' /\ TestsTyped'
  BY <1>1, <1>4 DEF RowsTyped, StoresTell, TestsTyped
<1>6. /\ DOMAIN issueLog' = 1..(n + 1) /\ n + 1 \in Nat
      /\ \A i \in 1..n : i \in 1..(n + 1) /\ issueLog'[i] = issueLog[i]
      /\ issueLog'[n + 1] = entry /\ n + 1 \in 1..(n + 1) /\ n + 1 \notin 1..n
  <2>1. 1..n \cup {n + 1} = 1..(n + 1) /\ n + 1 \notin 1..n
    OBVIOUS
  <2> QED
    BY <1>2, <1>4, <2>1
<1>7. /\ grant(n).handle = n + 1 /\ grant(n).account = u /\ grant(n).provider = asker
      /\ grant(n).expires = wallClock + Lifetime
      /\ entry.account = u /\ entry.provider = asker /\ entry.at = wallClock
  OBVIOUS
<1> HIDE DEF entry, grant
<1>8. \A g \in handleGrants' : g \in handleGrants \/ g = grant(n)
  BY <1>4 DEF Unexpired
<1>9. Issued'
  BY <1>6 DEF Issued
<1>10. ASSUME NEW g \in handleGrants'
       PROVE  /\ g.handle \in DOMAIN issueLog'
              /\ issueLog'[g.handle].account = g.account
              /\ issueLog'[g.handle].provider = g.provider
              /\ g.expires = issueLog'[g.handle].at + Lifetime
              /\ g.account \in Users /\ accountRows'[g.account] # "none"
  <2>1. CASE g \in handleGrants
    BY <2>1, <1>1, <1>2, <1>4, <1>6 DEF GrantsTell
  <2>2. CASE g = grant(n)
    BY <2>2, <1>4, <1>6, <1>7
  <2> QED
    BY <1>8, <2>1, <2>2
<1>11. ASSUME NEW d \in disclosed'
       PROVE  d.handle \in DOMAIN issueLog' /\ \A g \in handleGrants' : g.handle # d.handle
  <2>1. d \in disclosed /\ d.handle \in 1..n
    BY <1>1, <1>2, <1>4 DEF GrantsTell
  <2> QED
    BY <2>1, <1>1, <1>6, <1>7, <1>8 DEF GrantsTell
<1> QED
  BY <1>5, <1>9, <1>10, <1>11 DEF AccountsInv, GrantsTell

(* What a read says, and what it leaves *)
Disclosed(h, u, asker) ==
  [handle |-> h, account |-> u, to |-> asker, at |-> wallClock,
   again |-> \E d \in disclosed : d.handle = h]

(* A handle is read in its scope and time, and has no grant afterwards. *)
LEMMA ReadFacts ==
  ASSUME AccountsInv, NEW h, NEW u \in Users, NEW asker, NEW loaded \in BOOLEAN,
         ReadCredential(h, u, asker, loaded)
  PROVE  /\ handleGrants' \subseteq handleGrants /\ UNCHANGED issueLog
         /\ \/ disclosed' = disclosed
            \/ /\ disclosed' = disclosed \cup {Disclosed(h, u, asker)}
               /\ \E g \in handleGrants : InScope(g, h, u, asker) /\ g.expires > wallClock
               /\ \A g \in handleGrants' : g.handle # h
<1> DEFINE redeemed == \E g \in Unexpired : InScope(g, h, u, asker)
<1>1. /\ loaded => redeemed
      /\ handleGrants' = IF redeemed THEN Consume(h, u, asker) ELSE Unexpired
      /\ disclosed' = IF ~loaded THEN disclosed ELSE disclosed \cup {Disclosed(h, u, asker)}
      /\ UNCHANGED issueLog
  BY DEF ReadCredential, Disclosed
<1>2. handleGrants' \subseteq handleGrants
  BY <1>1 DEF Consume, Unexpired
<1>3. CASE ~loaded
  BY <1>1, <1>2, <1>3
<1>4. CASE loaded
  <2>1. PICK g \in handleGrants : InScope(g, h, u, asker) /\ g.expires > wallClock
    BY <1>1, <1>4 DEF Unexpired
  <2>2. ASSUME NEW f \in handleGrants', f.handle = h PROVE FALSE
    <3>1. f \in handleGrants /\ ~InScope(f, h, u, asker)
      BY <1>1, <1>4, <2>2 DEF Consume, Unexpired
    <3>2. /\ issueLog[f.handle].account = f.account /\ issueLog[f.handle].provider = f.provider
          /\ issueLog[g.handle].account = g.account /\ issueLog[g.handle].provider = g.provider
      BY <3>1 DEF AccountsInv, GrantsTell
    <3> QED
      BY <3>1, <3>2, <2>1, <2>2 DEF InScope
  <2> QED
    BY <1>1, <1>2, <1>4, <2>1, <2>2
<1> QED
  BY <1>3, <1>4

(* Reading a handle discloses the secret of its account. *)
LEMMA ReadCredentialKeeps ==
  ASSUME AccountsInv, NEW h, NEW u \in Users, NEW asker, NEW loaded \in BOOLEAN,
         ReadCredential(h, u, asker, loaded)
  PROVE  AccountsInv'
<1>1. RowsTyped /\ StoresTell /\ TestsTyped /\ GrantsTell
  BY DEF AccountsInv
<1>2. /\ h \in DOMAIN issueLog
      /\ UNCHANGED <<accountRows, settingsRows, diskRows, secrets, testStatus, tests, usedIds,
                     issueLog, troubled, wallClock>>
  BY DEF ReadCredential, KeepClock
<1>3. RowsTyped' /\ StoresTell' /\ TestsTyped'
  BY <1>1, <1>2 DEF RowsTyped, StoresTell, TestsTyped
<1>4. Disclosed(h, u, asker).handle = h
  BY DEF Disclosed
<1>5. GrantsTell'
  <2>1. CASE disclosed' = disclosed
    BY <1>1, <1>2, <2>1, ReadFacts, FewerGrantsKeep DEF GrantsTell
  <2>2. CASE /\ disclosed' = disclosed \cup {Disclosed(h, u, asker)}
             /\ \A g \in handleGrants' : g.handle # h
    <3>1. handleGrants' \subseteq handleGrants
      BY ReadFacts
    <3>2. Issued'
      BY <1>1, <1>2 DEF GrantsTell, Issued
    <3> QED
      BY <1>1, <1>2, <1>4, <2>2, <3>1, <3>2 DEF GrantsTell
  <2> QED
    BY <2>1, <2>2, ReadFacts
<1> QED
  BY <1>3, <1>5 DEF AccountsInv

-----------------------------------------------------------------------------
(* Clock, settings and restarts *)

(* Time passes. *)
LEMMA ClockAdvancesKeeps ==
  ASSUME AccountsInv, ClockAdvances
  PROVE  AccountsInv'
<1>1. RowsTyped /\ StoresTell /\ TestsTyped /\ GrantsTell
  BY DEF AccountsInv
<1>2. /\ wallClock' \in 0..MaxClock
      /\ UNCHANGED <<accountRows, settingsRows, diskRows, secrets, testStatus, tests, usedIds,
                     troubled>>
      /\ KeepHandles
  <2>1. wallClock \in 0..MaxClock
    BY <1>1 DEF TestsTyped
  <2>2. wallClock < MaxClock /\ wallClock' = wallClock + 1
    BY DEF ClockAdvances
  <2>3. wallClock' \in 0..MaxClock
    BY <2>1, <2>2, BoundsAreNumbers
  <2> QED
    BY <2>3 DEF ClockAdvances
<1> QED
  BY <1>1, <1>2, GrantsKeep DEF AccountsInv, RowsTyped, StoresTell, TestsTyped

(* QSettings writes what it holds. *)
LEMMA SettingsSyncKeeps ==
  ASSUME AccountsInv, SettingsSync
  PROVE  AccountsInv'
<1>1. RowsTyped /\ StoresTell /\ TestsTyped /\ GrantsTell
  BY DEF AccountsInv
<1>2. /\ diskRows' = settingsRows
      /\ UNCHANGED <<accountRows, settingsRows, secrets, testStatus, tests, usedIds, troubled,
                     wallClock>>
      /\ KeepHandles
  BY DEF SettingsSync, KeepClock
<1> QED
  BY <1>1, <1>2, GrantsKeep DEF AccountsInv, RowsTyped, StoresTell, TestsTyped

(* A restart starts from the rows on the disk, and forgets the handles. *)
LEMMA RestartKeeps ==
  ASSUME AccountsInv, NEW hurt \in SUBSET Users, NEW left \in SUBSET Users,
         RestartWith(left, hurt),
         usedIds \subseteq usedIds', usedIds' \subseteq Users, left \subseteq usedIds',
         \A u \in Users \ hurt : u \in left <=> u \in secrets
  PROVE  AccountsInv'
<1>1. RowsTyped /\ StoresTell /\ TestsTyped /\ GrantsTell
  BY DEF AccountsInv
<1>2. /\ secrets' = left /\ accountRows' = diskRows /\ settingsRows' = diskRows
      /\ testStatus' = Untested /\ tests' = [u \in Users |-> 0] /\ handleGrants' = {}
      /\ troubled' = troubled \cup hurt
      /\ UNCHANGED <<diskRows, wallClock, issueLog, disclosed>>
  BY DEF RestartWith, Troubles
<1>3. RowsTyped'
  BY <1>1, <1>2 DEF RowsTyped
<1>4. StoresTell'
  BY <1>1, <1>2 DEF StoresTell
<1>5. TestsTyped'
  <2>1. /\ testStatus' \in [Users -> {"", "testing", "answered"}]
        /\ \A u \in Users : testStatus'[u] = ""
    BY <1>2 DEF Untested
  <2>2. tests' \in [Users -> 0..MaxTests]
    BY <1>2
  <2> QED
    BY <1>1, <1>2, <2>1, <2>2 DEF TestsTyped
<1>6. GrantsTell'
  BY <1>1, <1>2, FewerGrantsKeep
<1> QED
  BY <1>3, <1>4, <1>5, <1>6 DEF AccountsInv

-----------------------------------------------------------------------------
(* The specification *)

(* The invariant holds at the start, *)
LEMMA AccountsInitEstablishes == AccountsInit => AccountsInv
<1> SUFFICES ASSUME AccountsInit PROVE AccountsInv
  OBVIOUS
<1>1. RowsTyped
  BY DEF AccountsInit, RowsTyped, Rows, Nobody
<1>2. StoresTell
  BY DEF AccountsInit, StoresTell, Nobody
<1>3. TestsTyped
  <2>1. testStatus = Untested /\ tests = [u \in Users |-> 0] /\ wallClock = 0
    BY DEF AccountsInit
  <2>2. testStatus \in [Users -> {"", "testing", "answered"}] /\ \A u \in Users : testStatus[u] = ""
    BY <2>1 DEF Untested
  <2>3. tests \in [Users -> 0..MaxTests] /\ wallClock \in 0..MaxClock
    BY <2>1, BoundsAreNumbers
  <2> QED
    BY <2>2, <2>3 DEF TestsTyped
<1>4. GrantsTell
  <2>1. Issued
    BY DEF AccountsInit, Issued
  <2> QED
    BY <2>1 DEF AccountsInit, GrantsTell
<1> QED
  BY <1>1, <1>2, <1>3, <1>4 DEF AccountsInv

(* and every step keeps it. *)
LEMMA AccountsNextKeeps == AccountsInv /\ [AccountsNext]_accountVars => AccountsInv'
<1> SUFFICES ASSUME AccountsInv, [AccountsNext]_accountVars PROVE AccountsInv'
  OBVIOUS
<1>1. RowsTyped
  BY DEF AccountsInv
<1>2. ASSUME NEW u \in Users, NEW ok \in BOOLEAN,
             AddAccount(u, ok) \/ RemoveAccount(u, ok) \/ TestConnection(u, ok)
      PROVE  AccountsInv'
  BY <1>2, AddAccountKeeps, RemoveAccountKeeps, TestConnectionKeeps
<1>3. ASSUME NEW u \in Users, NEW ok \in BOOLEAN, NEW state \in {"enabled", "disabled"},
             SetAccountEnabled(u, state, ok)
      PROVE  AccountsInv'
  BY <1>3, SetAccountEnabledKeeps
<1>4. ASSUME NEW u \in Users, NEW ok \in BOOLEAN, NEW asker \in Askers, NEW h \in 1..MaxHandles,
             ReadCredential(h, u, asker, ok)
      PROVE  AccountsInv'
  BY <1>4, ReadCredentialKeeps
<1>5. ASSUME NEW u \in Users, AddAccountUnsaved(u) \/ RemoveAccountRefused(u)
      PROVE  AccountsInv'
  <2>1. CASE AddAccountUnsaved(u)
    BY <2>1, SecretOnlyKeeps DEF AddAccountUnsaved
  <2>2. CASE RemoveAccountRefused(u)
    <3>1. usedIds' = usedIds \cup {u}
      BY <1>1, <2>2, InStored DEF RemoveAccountRefused, RowsTyped
    <3> QED
      BY <2>2, <3>1, SecretOnlyKeeps DEF RemoveAccountRefused
  <2> QED
    BY <1>5, <2>1, <2>2
<1>6. ASSUME NEW u \in Users, TestAnswered(u) PROVE AccountsInv'
  BY <1>6, TestAnsweredKeeps
<1>7. ASSUME NEW u \in Users, NEW asker \in Askers, IssueHandle(u, asker) PROVE AccountsInv'
  BY <1>7, IssueHandleKeeps
<1>8. ASSUME NEW u \in Users, DieInAddAccount(u) PROVE AccountsInv'
  <2>1. /\ usedIds' = usedIds \cup {u} /\ RestartWith(secrets \cup {u}, {u})
        /\ secrets \subseteq usedIds /\ usedIds \subseteq Users
    BY <1>1, <1>8 DEF DieInAddAccount, RowsTyped
  <2> DEFINE left == secrets \cup {u}
             hurt == {u}
  <2>2. /\ left \in SUBSET Users /\ hurt \in SUBSET Users /\ RestartWith(left, hurt)
        /\ usedIds \subseteq usedIds' /\ usedIds' \subseteq Users /\ left \subseteq usedIds'
        /\ \A v \in Users \ hurt : v \in left <=> v \in secrets
    BY <2>1
  <2> HIDE DEF left, hurt
  <2> QED
    BY <2>2, RestartKeeps
<1>9. ASSUME NEW u \in Users, DieInRemoveAccount(u) PROVE AccountsInv'
  <2>1. /\ UNCHANGED usedIds /\ RestartWith(secrets \ {u}, {u})
        /\ secrets \subseteq usedIds /\ usedIds \subseteq Users
    BY <1>1, <1>9 DEF DieInRemoveAccount, RowsTyped
  <2> DEFINE left == secrets \ {u}
             hurt == {u}
  <2>2. /\ left \in SUBSET Users /\ hurt \in SUBSET Users /\ RestartWith(left, hurt)
        /\ usedIds \subseteq usedIds' /\ usedIds' \subseteq Users /\ left \subseteq usedIds'
        /\ \A v \in Users \ hurt : v \in left <=> v \in secrets
    BY <2>1
  <2> HIDE DEF left, hurt
  <2> QED
    BY <2>2, RestartKeeps
<1>10. CASE Restart
  <2>1. /\ UNCHANGED usedIds /\ RestartWith(secrets, {})
        /\ secrets \subseteq usedIds /\ usedIds \subseteq Users
    BY <1>1, <1>10 DEF Restart, RowsTyped
  <2> DEFINE hurt == {}
  <2>2. /\ secrets \in SUBSET Users /\ hurt \in SUBSET Users /\ RestartWith(secrets, hurt)
        /\ usedIds \subseteq usedIds' /\ usedIds' \subseteq Users /\ secrets \subseteq usedIds'
        /\ \A v \in Users \ hurt : v \in secrets <=> v \in secrets
    BY <2>1
  <2> HIDE DEF hurt
  <2> QED
    BY <2>2, RestartKeeps
<1>11. CASE ClockAdvances \/ SettingsSync
  BY <1>11, ClockAdvancesKeeps, SettingsSyncKeeps
<1>12. CASE UNCHANGED accountVars
  <2>1. /\ UNCHANGED <<accountRows, settingsRows, diskRows, secrets, testStatus, tests, usedIds,
                       troubled, wallClock>>
        /\ KeepHandles
    BY <1>12 DEF accountVars, KeepHandles
  <2> QED
    BY <2>1, GrantsKeep DEF AccountsInv, RowsTyped, StoresTell, TestsTyped
<1> QED
  BY <1>2, <1>3, <1>4, <1>5, <1>6, <1>7, <1>8, <1>9, <1>10, <1>11, <1>12 DEF AccountsNext

(* A step discloses a secret as the documents promise. *)
DisclosesOnce ==
  \A d \in disclosed' \ disclosed :
    /\ ~d.again
    /\ d.at < issueLog[d.handle].at + Lifetime
    /\ issueLog[d.handle].account = d.account /\ issueLog[d.handle].provider = d.to
    /\ d.account \in Stored \/ d.account \in troubled

(* A disclosure is of a handle that was not read before, to whom it was issued, *)
LEMMA ReadDisclosesOnce ==
  ASSUME AccountsInv, NEW h, NEW u \in Users, NEW asker, NEW loaded \in BOOLEAN,
         ReadCredential(h, u, asker, loaded)
  PROVE  DisclosesOnce
<1> DEFINE said == Disclosed(h, u, asker)
<1>1. /\ said.handle = h /\ said.account = u /\ said.to = asker /\ said.at = wallClock
      /\ said.again = \E d \in disclosed : d.handle = h
  BY DEF Disclosed
<1> HIDE DEF said
<1>2. ASSUME NEW d \in disclosed' \ disclosed
      PROVE  /\ ~d.again
             /\ d.at < issueLog[d.handle].at + Lifetime
             /\ issueLog[d.handle].account = d.account /\ issueLog[d.handle].provider = d.to
             /\ d.account \in Stored
  <2>1. /\ d = said
        /\ \E g \in handleGrants : InScope(g, h, u, asker) /\ g.expires > wallClock
    BY <1>2, ReadFacts DEF said
  <2>2. PICK g \in handleGrants : InScope(g, h, u, asker) /\ g.expires > wallClock
    BY <2>1
  <2>3. /\ g.handle = h /\ g.account = u /\ g.provider = asker
        /\ issueLog[g.handle].account = g.account /\ issueLog[g.handle].provider = g.provider
        /\ g.expires = issueLog[g.handle].at + Lifetime
        /\ accountRows[g.account] # "none"
        /\ \A e \in disclosed : g.handle # e.handle
    BY <2>2 DEF InScope, AccountsInv, GrantsTell
  <2>4. ~said.again
    BY <1>1, <2>3
  <2>5. said.at < issueLog[h].at + Lifetime
    BY <1>1, <2>2, <2>3
  <2> QED
    BY <1>1, <2>1, <2>3, <2>4, <2>5, InStored
<1> QED
  BY <1>2 DEF DisclosesOnce

(* and nothing else discloses a secret. *)
LEMMA NextDisclosesOnce == AccountsInv /\ [AccountsNext]_accountVars => [DisclosesOnce]_accountVars
<1> SUFFICES ASSUME AccountsInv, AccountsNext PROVE DisclosesOnce
  OBVIOUS
<1>1. ASSUME NEW u \in Users, NEW ok \in BOOLEAN, NEW asker \in Askers, NEW h \in 1..MaxHandles,
             ReadCredential(h, u, asker, ok)
      PROVE  DisclosesOnce
  BY <1>1, ReadDisclosesOnce
<1>2. ASSUME disclosed' = disclosed PROVE DisclosesOnce
  BY <1>2 DEF DisclosesOnce
<1>3. ASSUME NEW u \in Users, NEW ok \in BOOLEAN
      PROVE  /\ AddAccount(u, ok) \/ RemoveAccount(u, ok) \/ TestConnection(u, ok)
                  => disclosed' = disclosed
             /\ \A state \in {"enabled", "disabled"} :
                  SetAccountEnabled(u, state, ok) => disclosed' = disclosed
  BY DEF AddAccount, RemoveAccount, TestConnection, SetAccountEnabled, KeepHandles
<1>4. ASSUME NEW u \in Users
      PROVE  /\ AddAccountUnsaved(u) \/ RemoveAccountRefused(u) \/ TestAnswered(u)
                  => disclosed' = disclosed
             /\ \A asker \in Askers : IssueHandle(u, asker) => disclosed' = disclosed
             /\ DieInAddAccount(u) \/ DieInRemoveAccount(u) => disclosed' = disclosed
  BY DEF AddAccountUnsaved, RemoveAccountRefused, TestAnswered, IssueHandle, DieInAddAccount,
         DieInRemoveAccount, RestartWith, KeepHandles
<1>5. ClockAdvances \/ SettingsSync \/ Restart => disclosed' = disclosed
  BY DEF ClockAdvances, SettingsSync, Restart, RestartWith, KeepHandles
<1> QED
  BY <1>1, <1>2, <1>3, <1>4, <1>5 DEF AccountsNext

(* The rows, the secrets, the handles and the disclosures stay consistent. *)
LEMMA AccountsStayInv == AccountsSpec => []AccountsInv
<1> QED
  BY AccountsInitEstablishes, AccountsNextKeeps, PTL DEF AccountsSpec

(* Every variable of the accounts stays in its domain. *)
THEOREM AccountsAreTyped == AccountsSpec => []AccountsTypeOK
<1>1. AccountsInv => AccountsTypeOK
  <2> SUFFICES ASSUME AccountsInv PROVE AccountsTypeOK
    OBVIOUS
  <2>1. {accountRows, settingsRows, diskRows} \subseteq Rows
    BY DEF AccountsInv, RowsTyped
  <2> QED
    BY <2>1 DEF AccountsInv, RowsTyped, TestsTyped, GrantsTell, AccountsTypeOK
<1> QED
  BY <1>1, AccountsStayInv, PTL

(* The rows, the settings and the secrets tell of the same accounts, but for those a *)
(* failure or a crash between two writes left troubled (ProviderAccountStore.cpp). *)
THEOREM AccountStoresAgree == AccountsSpec => []StoresAgree
<1>1. AccountsInv => StoresAgree
  BY InStored DEF AccountsInv, StoresTell, StoresAgree
<1> QED
  BY <1>1, AccountsStayInv, PTL

(* A handle discloses the secret of its account once, to the provider it was issued to, *)
(* before it expires, and while the account is stored (CredentialHandleRegistry).       *)
THEOREM HandlesDiscloseOnce == AccountsSpec => HandlesOneShot
<1>1. AccountsInv /\ [AccountsNext]_accountVars =>
        [\A d \in disclosed' \ disclosed :
           /\ ~d.again
           /\ d.at < issueLog[d.handle].at + Lifetime
           /\ issueLog[d.handle].account = d.account /\ issueLog[d.handle].provider = d.to
           /\ d.account \in Stored \/ d.account \in troubled]_accountVars
  BY NextDisclosesOnce DEF DisclosesOnce
<1> QED
  BY <1>1, AccountsStayInv, PTL DEF AccountsSpec, HandlesOneShot

HIDE AccountsAssumption

-----------------------------------------------------------------------------
(* ProviderLink: what is in transit and what each side holds of it *)

(* The messages of a direction, whatever their order *)
InTransit(messages) == {messages[i] : i \in 1..Len(messages)}

IsRequest(m, x) == m.type = "request" /\ m.id = x
IsResponse(m, x) == m.type = "response" /\ m.id = x

(* The requests of the supervisor that the provider has not read, those of them that it *)
(* will invoke, and the responses that the supervisor has not read                      *)
SentIds == {x \in HostIds : \E m \in InTransit(toProvider) : IsRequest(m, x)}
CallIds == {x \in HostIds : \E m \in InTransit(toProvider) : IsRequest(m, x) /\ m.method = "call"}
AnsweredIds == {x \in HostIds : \E m \in InTransit(toHost) : IsResponse(m, x)}

InRequestOrder(messages) ==
  \A i, j \in 1..Len(messages) :
    i < j /\ messages[i].type = "request" /\ messages[j].type = "request" =>
      messages[i].id < messages[j].id

RequestsTell ==
  /\ InRequestOrder(toProvider)
  /\ \A m \in InTransit(toProvider) : m.type = "request" =>
       /\ m.id \in HostIds /\ m.target = cancelledBy[m.id]
       /\ m.method = "cancel" <=> m.target # 0
       /\ m.method \in {"call", "cancel", "shutdown"}
  /\ \A m \in InTransit(toProvider) : m.type # "request" => m.method = ""

IdsInOrder ==
  /\ \A x \in SentIds \cup sdkOutstanding \cup AnsweredIds \cup hostOutstanding \cup overdue : x < hostNext
  /\ \A x \in sdkOutstanding \cup AnsweredIds, y \in SentIds : x < y
  /\ sdkOutstanding \cap AnsweredIds = {}

CancelsTell ==
  /\ \A c \in HostIds : cancelledBy[c] # 0 =>
       /\ cancelledBy[c] \in HostIds /\ cancelledBy[c] < c /\ c < hostNext
       /\ cancelledBy[c] \notin hostOutstanding
       /\ cancelledBy[cancelledBy[c]] = 0
  /\ \A c, d \in HostIds : cancelledBy[c] = cancelledBy[d] /\ cancelledBy[c] # 0 => c = d
  /\ \A x \in sdkOutstanding : cancelledBy[x] = 0

WaitedIds == hostOutstanding \cup overdue
LinkDue(x) == x \in WaitedIds \/ \E c \in WaitedIds \ AnsweredIds : cancelledBy[c] = x

AllDue == \A x \in SentIds \cup sdkOutstanding : LinkDue(x)

Expected(i) ==
  LET x == toHost[i].id IN
  \/ x \in WaitedIds
  \/ \E c \in WaitedIds : /\ cancelledBy[c] = x
                       /\ \A j \in 1..Len(toHost) : IsResponse(toHost[j], c) => i < j

AllExpected ==
  /\ \A i, j \in 1..Len(toHost) :
       toHost[i].type = "response" /\ toHost[j].type = "response" /\ toHost[i].id = toHost[j].id => i = j
  /\ \A i \in 1..Len(toHost) : toHost[i].type = "response" => toHost[i].id \in HostIds /\ Expected(i)

WastedIds == {c \in SentIds : cancelledBy[c] # 0 /\ cancelledBy[c] \notin SentIds \cup sdkOutstanding}
OwedIds == CallIds \cup sdkOutstanding \cup WastedIds

SlotsTell ==
  /\ Cardinality(hostOutstanding) <= MaxInFlight
  /\ ~quitting => /\ hostOutstanding \subseteq SentIds \cup sdkOutstanding \cup AnsweredIds
                  /\ Cardinality(OwedIds) <= Cardinality(hostOutstanding \ AnsweredIds)
  /\ quitting => Cardinality(CallIds \cup sdkOutstanding) <= MaxInFlight

HandshakeTells ==
  /\ ~hostReady => /\ toHost = <<Hello>> /\ toProvider = <<>> /\ sdkOutstanding = {}
                   /\ hostOutstanding = {} /\ ~accepted
  /\ hostReady => \A m \in InTransit(toHost) : m.type # "hello"

(* sdk's own requests *)
SdkRequestsTell ==
  /\ \A x \in sdkRequests : x < sdkNext
  /\ \A i \in 1..Len(toHost) : toHost[i].type = "request" => toHost[i].id \in sdkRequests
  /\ \A i \in 1..Len(toProvider) : toProvider[i].type = "response" => toProvider[i].id \in sdkRequests
  /\ \A i, j \in 1..Len(toHost) :
       toHost[i].type = "request" /\ toHost[j].type = "request" /\ toHost[i].id = toHost[j].id => i = j
  /\ \A i, j \in 1..Len(toProvider) :
       toProvider[i].type = "response" /\ toProvider[j].type = "response"
         /\ toProvider[i].id = toProvider[j].id => i = j
  /\ \A i \in 1..Len(toHost), j \in 1..Len(toProvider) :
       ~(toHost[i].type = "request" /\ toProvider[j].type = "response" /\ toHost[i].id = toProvider[j].id)

HostTyped ==
  /\ hostReady \in BOOLEAN /\ linkStopping \in BOOLEAN
  /\ hostOutstanding \subseteq HostIds /\ overdue \subseteq HostIds
  /\ hostNext \in 1..MaxHostIds + 1 /\ cancelledBy \in [HostIds -> 0..MaxHostIds]
SdkTyped ==
  /\ accepted \in BOOLEAN /\ quitting \in BOOLEAN
  /\ sdkOutstanding \subseteq HostIds /\ invoked \subseteq HostIds /\ posted \subseteq HostIds
  /\ sdkRequests \subseteq 1..MaxSdkIds /\ sdkNext \in 1..MaxSdkIds + 1
WireTyped ==
  /\ toProvider \in Seq(Messages) /\ toHost \in Seq(Messages) /\ linkOpen \in BOOLEAN
LinkTyped == HostTyped /\ SdkTyped /\ WireTyped /\ accusations \in {0, 1}

LinkInv ==
  /\ LinkTyped /\ SlotsSuffice
  /\ ~linkOpen => toHost = <<>>
  /\ linkOpen => /\ RequestsTell /\ IdsInOrder /\ CancelsTell /\ AllDue /\ AllExpected
                 /\ SlotsTell /\ HandshakeTells /\ SdkRequestsTell

-----------------------------------------------------------------------------
(* Messages in transit *)

IsLonger(new, q, m) ==
  /\ Len(new) = Len(q) + 1 /\ Len(q) \in Nat
  /\ \A i \in 1..Len(q) : new[i] = q[i]
  /\ new[Len(q) + 1] = m
  /\ InTransit(new) = InTransit(q) \cup {m}

(* What is written comes behind what is in transit. *)
LEMMA OneMessageMore ==
  ASSUME NEW S, NEW q \in Seq(S), NEW m \in S, NEW new, new = Append(q, m)
  PROVE  new \in Seq(S) /\ IsLonger(new, q, m)
<1>1. new \in Seq(S) /\ Len(new) = Len(q) + 1 /\ Len(q) \in Nat
  OBVIOUS
<1>2. \A i \in 1..Len(q) : new[i] = q[i]
  OBVIOUS
<1>3. new[Len(q) + 1] = m
  OBVIOUS
<1> QED
  BY <1>1, <1>2, <1>3 DEF InTransit, IsLonger

(* The first message is read, and the others come one place earlier. *)
LEMMA FirstMessageRead ==
  ASSUME NEW S, NEW q \in Seq(S), q # <<>>, NEW new, new = Tail(q)
  PROVE  /\ new \in Seq(S) /\ Len(new) = Len(q) - 1 /\ Len(q) \in Nat /\ Len(q) > 0
         /\ \A i \in 1..Len(new) : new[i] = q[i + 1]
         /\ Head(q) = q[1] /\ Head(q) \in S /\ Head(q) \in InTransit(q)
         /\ InTransit(q) = InTransit(new) \cup {Head(q)}
<1>1. /\ new \in Seq(S) /\ Len(new) = Len(q) - 1 /\ Len(q) \in Nat /\ Len(q) > 0
      /\ \A i \in 1..Len(new) : new[i] = q[i + 1]
      /\ Head(q) = q[1] /\ Head(q) \in S
  OBVIOUS
<1>2. 1 \in 1..Len(q) /\ Head(q) \in InTransit(q)
  BY <1>1 DEF InTransit
<1>3. \A i \in 1..Len(new) : i + 1 \in 1..Len(q)
  BY <1>1
<1>4. InTransit(new) \subseteq InTransit(q)
  BY <1>1, <1>3 DEF InTransit
<1>5. \A i \in 1..Len(q) : i = 1 \/ (i - 1 \in 1..Len(new) /\ new[i - 1] = q[i])
  BY <1>1
<1>6. InTransit(q) \subseteq InTransit(new) \cup {Head(q)}
  BY <1>1, <1>5 DEF InTransit
<1> QED
  BY <1>1, <1>2, <1>4, <1>6

(* A place that is not the last is one before it. *)
LEMMA LastOrBefore ==
  ASSUME NEW k \in Nat, NEW i \in 1..k + 1, i # k + 1
  PROVE  i \in 1..k
  OBVIOUS

(* What is read in the same chunk as the request to shut down *)
LEMMA SomeMessagesRead ==
  ASSUME NEW S, NEW q \in Seq(S), q # <<>>, NEW n \in 1..Len(q), NEW new, new = SubSeq(q, 2, n)
  PROVE  /\ new \in Seq(S) /\ Len(new) = n - 1 /\ Len(q) \in Nat
         /\ \A i \in 1..Len(new) : i + 1 \in 1..Len(q) /\ new[i] = q[i + 1]
<1>1. Len(q) \in Nat /\ n \in Nat /\ 1 <= n /\ n <= Len(q)
  OBVIOUS
<1>2. \A i \in 2..n : q[i] \in S
  BY <1>1
<1>3. /\ new \in Seq(S) /\ Len(new) = IF 2 <= n THEN n - 2 + 1 ELSE 0
      /\ \A i \in 1..n - 2 + 1 : new[i] = q[2 + i - 1]
  BY <1>1, <1>2, SubSeqProperties
<1>4. Len(new) = n - 1
  BY <1>1, <1>3
<1>5. ASSUME NEW i \in 1..Len(new) PROVE i + 1 \in 1..Len(q) /\ new[i] = q[i + 1]
  <2>1. i \in 1..n - 2 + 1 /\ 2 + i - 1 = i + 1 /\ i + 1 \in 1..Len(q)
    BY <1>1, <1>4
  <2> QED
    BY <1>3, <2>1
<1> QED
  BY <1>1, <1>3, <1>4, <1>5

-----------------------------------------------------------------------------
(* Types *)
LEMMA LinkBounds ==
  /\ MaxInFlight \in Nat /\ MaxInFlight > 0 /\ MaxHostIds \in Nat /\ MaxHostIds > 0
  /\ MaxSdkIds \in Nat /\ MaxSdkIds > 0
  BY LinkAssumption

(* What either side writes is a message. *)
LEMMA MessagesTyped ==
  /\ Hello \in Messages
  /\ \A id \in HostIds, method \in {"call", "cancel", "shutdown"}, target \in 0..MaxHostIds :
       Request(id, method, target) \in Messages
  /\ \A id \in 1..MaxSdkIds : Request(id, "call", 0) \in Messages
  /\ \A m \in Messages : Response(m.id) \in Messages
  /\ \A id \in HostIds : Response(id) \in Messages
<1>1. /\ 0 \in 0..MaxHostIds + MaxSdkIds /\ 0 \in 0..MaxHostIds
      /\ HostIds \subseteq 0..MaxHostIds + MaxSdkIds /\ 1..MaxSdkIds \subseteq 0..MaxHostIds + MaxSdkIds
  BY LinkBounds DEF HostIds
<1>2. \A m \in Messages : m.id \in 0..MaxHostIds + MaxSdkIds
  BY DEF Messages
<1>3. \A id \in 0..MaxHostIds + MaxSdkIds : Response(id) \in Messages
  BY <1>1 DEF Messages, Response
<1>4. Hello \in Messages
  BY <1>1 DEF Messages, Hello
<1>5. \A id \in 0..MaxHostIds + MaxSdkIds, method \in {"call", "cancel", "shutdown"},
         target \in 0..MaxHostIds : Request(id, method, target) \in Messages
  BY DEF Messages, Request
<1> QED
  BY <1>1, <1>2, <1>3, <1>4, <1>5

(* The supervisor writes a message, or nobody reads it, *)
LEMMA WriteTyped ==
  ASSUME WireTyped, NEW m \in Messages, Write(m)
  PROVE  toProvider' \in Seq(Messages)
  BY OneMessageMore DEF WireTyped, Write

(* a request of any kind, *)
LEMMA SendTyped ==
  ASSUME HostTyped, WireTyped, NEW outstanding \in SUBSET HostIds,
         NEW method \in {"call", "cancel", "shutdown"}, NEW target \in 0..MaxHostIds,
         SendRequest(outstanding, method, target)
  PROVE  /\ hostNext \in HostIds /\ hostNext' = hostNext + 1
         /\ toProvider' \in Seq(Messages)
         /\ hostOutstanding' \subseteq HostIds /\ hostNext' \in 1..MaxHostIds + 1
         /\ cancelledBy' \in [HostIds -> 0..MaxHostIds]
<1>1. hostNext \in HostIds /\ hostNext' = hostNext + 1
  BY LinkBounds DEF HostTyped, SendRequest, HostIds
<1>2. Request(hostNext, method, target) \in Messages
  BY <1>1, MessagesTyped
<1>3. toProvider' \in Seq(Messages)
  BY <1>2, WriteTyped DEF SendRequest
<1>4. hostNext' \in 1..MaxHostIds + 1
  BY <1>1, LinkBounds DEF HostIds
<1>5. hostOutstanding' \subseteq HostIds
  BY <1>1 DEF SendRequest
<1>6. cancelledBy' \in [HostIds -> 0..MaxHostIds]
  BY <1>1 DEF SendRequest, HostTyped
<1> QED
  BY <1>1, <1>3, <1>4, <1>5, <1>6

(* and the request to shut down, if there is a slot for it. *)
LEMMA ShutdownTyped ==
  ASSUME HostTyped, WireTyped, NEW outstanding \in SUBSET HostIds, Shutdown(outstanding)
  PROVE  /\ linkStopping' = TRUE /\ toProvider' \in Seq(Messages)
         /\ hostOutstanding' \subseteq HostIds /\ hostNext' \in 1..MaxHostIds + 1
         /\ cancelledBy' \in [HostIds -> 0..MaxHostIds]
<1>1. 0 \in 0..MaxHostIds
  BY LinkBounds
<1>2. CASE SendRequest(outstanding, "shutdown", 0)
  BY <1>1, <1>2, SendTyped DEF Shutdown
<1>3. CASE hostOutstanding' = outstanding /\ UNCHANGED <<hostNext, cancelledBy, toProvider>>
  BY <1>3 DEF Shutdown, HostTyped, WireTyped
<1> QED
  BY <1>2, <1>3 DEF Shutdown

(* Whatever the supervisor does keeps every variable in its domain. *)
LEMMA HostStepTyped ==
  ASSUME LinkTyped, UNCHANGED linkOpen,
         \/ HostRequests \/ HostStops \/ HostReads
         \/ \E r \in HostIds : HostCancels(r) \/ HostTimesOut(r)
  PROVE  LinkTyped'
<1>z. 0 \in 0..MaxHostIds /\ HostTyped /\ WireTyped /\ hostOutstanding \in SUBSET HostIds
  BY LinkBounds DEF LinkTyped, HostTyped
<1>1. CASE HostRequests
  <2>1. /\ toProvider' \in Seq(Messages)
        /\ hostOutstanding' \subseteq HostIds /\ hostNext' \in 1..MaxHostIds + 1
        /\ cancelledBy' \in [HostIds -> 0..MaxHostIds]
    BY <1>z, <1>1, SendTyped DEF HostRequests
  <2> QED
    BY <1>1, <2>1 DEF HostRequests, LinkTyped, HostTyped, SdkTyped, WireTyped, sdkVars, blame
<1>2. CASE HostStops
  <2>1. /\ linkStopping' = TRUE /\ toProvider' \in Seq(Messages)
        /\ hostOutstanding' \subseteq HostIds /\ hostNext' \in 1..MaxHostIds + 1
        /\ cancelledBy' \in [HostIds -> 0..MaxHostIds]
    BY <1>z, <1>2, ShutdownTyped DEF HostStops
  <2> QED
    BY <1>2, <2>1 DEF HostStops, LinkTyped, HostTyped, SdkTyped, WireTyped, sdkVars, blame
<1>3. ASSUME NEW r \in HostIds, HostCancels(r) PROVE LinkTyped'
  <2>1. r \in 0..MaxHostIds /\ hostOutstanding \ {r} \in SUBSET HostIds
    BY <1>z, LinkBounds DEF HostIds
  <2>2. /\ toProvider' \in Seq(Messages)
        /\ hostOutstanding' \subseteq HostIds /\ hostNext' \in 1..MaxHostIds + 1
        /\ cancelledBy' \in [HostIds -> 0..MaxHostIds]
    BY <1>z, <1>3, <2>1, SendTyped DEF HostCancels
  <2> QED
    BY <1>3, <2>2 DEF HostCancels, LinkTyped, HostTyped, SdkTyped, WireTyped, sdkVars, blame
<1>4. ASSUME NEW r \in HostIds, HostTimesOut(r) PROVE LinkTyped'
  <2>1. hostOutstanding \ {r} \in SUBSET HostIds
    BY <1>z
  <2>2. /\ linkStopping' = TRUE /\ toProvider' \in Seq(Messages)
        /\ hostOutstanding' \subseteq HostIds /\ hostNext' \in 1..MaxHostIds + 1
        /\ cancelledBy' \in [HostIds -> 0..MaxHostIds]
    BY <1>z, <1>4, <2>1, ShutdownTyped DEF HostTimesOut
  <2> QED
    BY <1>4, <2>2 DEF HostTimesOut, LinkTyped, HostTyped, SdkTyped, WireTyped, sdkVars, blame
<1>5. CASE HostReads
  <2>1. toHost # <<>> /\ toHost \in Seq(Messages) /\ Head(toHost) \in Messages
        /\ toHost' \in Seq(Messages)
    BY <1>5, FirstMessageRead DEF HostReads, LinkTyped, WireTyped
  <2>2. CASE ~hostReady
    <3>1. hostReady' = TRUE /\ Write(Hello) /\ UNCHANGED <<hostOutstanding, accusations>>
      BY <1>5, <2>2 DEF HostReads
    <3>2. toProvider' \in Seq(Messages)
      BY <1>z, <3>1, WriteTyped, MessagesTyped
    <3> QED
      BY <1>5, <2>1, <3>1, <3>2 DEF HostReads, LinkTyped, HostTyped, SdkTyped, WireTyped, sdkVars
  <2>3. CASE hostReady /\ Head(toHost).type = "request"
    <3>1. Write(Response(Head(toHost).id)) /\ UNCHANGED <<hostReady, hostOutstanding, accusations>>
      BY <1>5, <2>3 DEF HostReads
    <3>2. toProvider' \in Seq(Messages)
      BY <1>z, <2>1, <3>1, WriteTyped, MessagesTyped
    <3> QED
      BY <1>5, <2>1, <3>1, <3>2 DEF HostReads, LinkTyped, HostTyped, SdkTyped, WireTyped, sdkVars
  <2>4. CASE hostReady /\ Head(toHost).type # "request"
    <3>1. /\ hostOutstanding' = hostOutstanding \ {Head(toHost).id}
          /\ accusations' \in {0, 1}
          /\ UNCHANGED <<hostReady, toProvider>>
      BY <1>5, <2>4 DEF HostReads, LinkTyped
    <3> QED
      BY <1>5, <2>1, <3>1 DEF HostReads, LinkTyped, HostTyped, SdkTyped, WireTyped, sdkVars
  <2> QED
    BY <2>2, <2>3, <2>4
<1> QED
  BY <1>1, <1>2, <1>3, <1>4, <1>5

(* What the provider reads is a message, *)
LEMMA ReadTyped ==
  ASSUME WireTyped, toProvider # <<>>
  PROVE  Head(toProvider) \in Messages /\ Tail(toProvider) \in Seq(Messages)
  BY FirstMessageRead DEF WireTyped

(* and what it writes is one: *)
LEMMA RespondTyped ==
  ASSUME WireTyped, NEW id \in HostIds, Respond(id)
  PROVE  toHost' \in Seq(Messages)
  BY OneMessageMore, MessagesTyped DEF WireTyped, Respond

(* reading keeps every variable in its domain, *)
LEMMA SdkReadTyped ==
  ASSUME LinkInv, linkOpen, UNCHANGED linkOpen, SdkReads
  PROVE  LinkTyped'
<1>1. /\ SdkTyped /\ HostTyped /\ WireTyped /\ accusations \in {0, 1}
      /\ UNCHANGED <<hostVars, posted, sdkNext, accusations>>
      /\ toProvider # <<>> /\ Head(toProvider) \in InTransit(toProvider)
      /\ Tail(toProvider) \in Seq(Messages) /\ toProvider \in Seq(Messages)
  BY FirstMessageRead DEF SdkReads, LinkInv, LinkTyped, WireTyped
<1> DEFINE m == Head(toProvider)
<1>2. HostTyped' /\ accusations' \in {0, 1}
  BY <1>1 DEF HostTyped, hostVars
<1>3. CASE m.type = "hello" /\ SdkReadsHello
  BY <1>1, <1>2, <1>3 DEF SdkReadsHello, LinkTyped, SdkTyped, WireTyped
<1>4. CASE m.type = "response" /\ SdkReadsResponse(m.id)
  BY <1>1, <1>2, <1>4 DEF SdkReadsResponse, LinkTyped, SdkTyped, WireTyped
<1>5. ASSUME m.type = "request" PROVE m.id \in HostIds
  BY <1>1, <1>5 DEF LinkInv, RequestsTell
<1>6. CASE SdkCancels(m.id, m.target) /\ m.type = "request"
  <2>1. toHost' \in Seq(Messages)
    BY <1>1, <1>5, <1>6, RespondTyped DEF SdkCancels
  <2> QED
    BY <1>1, <1>2, <1>6, <2>1 DEF SdkCancels, LinkTyped, SdkTyped, WireTyped
<1>7. CASE SdkShutsDown(m.id) /\ m.type = "request"
  <2>1. toHost' \in Seq(Messages)
    BY <1>1, <1>5, <1>7, RespondTyped DEF SdkShutsDown
  <2>2. toProvider' \in Seq(Messages)
    BY <1>1, <1>7, SomeMessagesRead DEF SdkShutsDown
  <2> QED
    BY <1>1, <1>2, <1>7, <2>1, <2>2 DEF SdkShutsDown, LinkTyped, SdkTyped, WireTyped
<1>8. CASE SdkInvokes(m.id) /\ m.type = "request"
  <2>1. toHost' \in Seq(Messages)
    BY <1>1, <1>5, <1>8, RespondTyped DEF SdkInvokes, WireTyped
  <2>2. sdkOutstanding' \subseteq HostIds /\ invoked' \subseteq HostIds
    BY <1>1, <1>5, <1>8 DEF SdkInvokes, SdkTyped
  <2> QED
    BY <1>1, <1>2, <1>8, <2>1, <2>2 DEF SdkInvokes, LinkTyped, SdkTyped, WireTyped
<1>9. m.type \in {"hello", "request", "response"} /\ (m.method # "" => m.type = "request")
  <2>1. m \in Messages
    BY <1>1, ReadTyped
  <2> QED
    BY <1>1, <2>1 DEF Messages, LinkInv, RequestsTell
<1> QED
  BY <1>3, <1>4, <1>6, <1>7, <1>8, <1>9 DEF SdkReads

(* and so does what the provider does otherwise. *)
LEMMA SdkStepTyped ==
  ASSUME LinkInv, linkOpen, UNCHANGED linkOpen,
         \/ SdkRequestsHost
         \/ \E r \in HostIds : ServiceCompletes(r) \/ CompletionRuns(r)
  PROVE  LinkTyped'
<1>1. SdkTyped /\ HostTyped /\ WireTyped /\ accusations \in {0, 1}
  BY DEF LinkInv, LinkTyped
<1>2. CASE SdkRequestsHost
  <2>1. sdkNext \in 1..MaxSdkIds /\ sdkNext' = sdkNext + 1
    BY <1>1, <1>2, LinkBounds DEF SdkRequestsHost, SdkTyped
  <2>2. sdkNext' \in 1..MaxSdkIds + 1 /\ sdkRequests' \subseteq 1..MaxSdkIds
    BY <1>1, <1>2, <2>1, LinkBounds DEF SdkRequestsHost, SdkTyped
  <2>3. Request(sdkNext, "call", 0) \in Messages
    BY <2>1, MessagesTyped
  <2>4. toHost' \in Seq(Messages)
    BY <1>1, <1>2, <2>3, OneMessageMore DEF SdkRequestsHost, WireTyped
  <2> QED
    BY <1>1, <1>2, <2>2, <2>4
    DEF SdkRequestsHost, LinkTyped, SdkTyped, HostTyped, WireTyped, hostVars, blame
<1>3. ASSUME NEW r \in HostIds, ServiceCompletes(r) PROVE LinkTyped'
  <2>1. posted' \subseteq HostIds
    BY <1>1, <1>3 DEF ServiceCompletes, SdkTyped
  <2> QED
    BY <1>1, <1>3, <2>1
    DEF ServiceCompletes, LinkTyped, SdkTyped, HostTyped, WireTyped, hostVars, blame
<1>4. ASSUME NEW r \in HostIds, CompletionRuns(r) PROVE LinkTyped'
  <2>1. toHost' \in Seq(Messages)
    BY <1>1, <1>4, RespondTyped DEF CompletionRuns, WireTyped
  <2>2. posted' \subseteq HostIds /\ sdkOutstanding' \subseteq HostIds
    BY <1>1, <1>4 DEF CompletionRuns, SdkTyped
  <2> QED
    BY <1>1, <1>4, <2>1, <2>2
    DEF CompletionRuns, LinkTyped, SdkTyped, HostTyped, WireTyped, hostVars, blame
<1> QED
  BY <1>2, <1>3, <1>4

(* When the connection ends, nothing is in transit. *)
LEMMA CloseTyped ==
  ASSUME LinkInv, LinkCloses
  PROVE  LinkInv'
<1>1. LinkTyped'
  <2>1. <<>> \in Seq(Messages)
    OBVIOUS
  <2> QED
    BY <2>1 DEF LinkCloses, LinkInv, LinkTyped, SdkTyped, HostTyped, WireTyped, sdkVars, blame
<1> QED
  BY <1>1 DEF LinkCloses, LinkInv, SlotsSuffice, blame
-----------------------------------------------------------------------------
(* What a step leaves alone *)

(* Nothing is written to the provider or read by it: *)
(* it has the same requests before it.               *)
LEMMA SentTheSame ==
  ASSUME UNCHANGED toProvider PROVE SentIds' = SentIds /\ CallIds' = CallIds
  BY DEF SentIds, CallIds, InTransit

(* The same of the supervisor and its responses *)
LEMMA AnsweredTheSame ==
  ASSUME UNCHANGED toHost PROVE AnsweredIds' = AnsweredIds
  BY DEF AnsweredIds, InTransit

(* The host sends a request: it is in transit, unless nobody reads it any more. *)
LEMMA RequestSent ==
  ASSUME LinkInv, linkOpen, NEW outstanding, NEW method \in {"call", "cancel", "shutdown"},
         NEW target \in 0..MaxHostIds, method = "cancel" <=> target # 0,
         SendRequest(outstanding, method, target)
  PROVE  /\ RequestsTell'
         /\ SentIds' = SentIds \cup (IF quitting THEN {} ELSE {hostNext})
         /\ CallIds' = CallIds \cup (IF ~quitting /\ method = "call" THEN {hostNext} ELSE {})
<1> DEFINE n == hostNext
           m == Request(n, method, target)
<1>1. /\ n \in HostIds /\ n \in Nat /\ cancelledBy' = [cancelledBy EXCEPT ![n] = target]
      /\ cancelledBy \in [HostIds -> 0..MaxHostIds] /\ toProvider \in Seq(Messages)
  BY LinkBounds DEF LinkInv, LinkTyped, HostTyped, WireTyped, SendRequest, HostIds
<1>2. /\ m.type = "request" /\ m.id = n /\ m.method = method /\ m.target = target
      /\ m \in Messages
  BY <1>1, MessagesTyped DEF Request
<1>3. /\ RequestsTell /\ \A x \in SentIds : x < n
  BY DEF LinkInv, IdsInOrder
<1>4. \A k \in InTransit(toProvider) : k.type = "request" => k.id \in SentIds /\ k.id # n
  <2>1. ASSUME NEW k \in InTransit(toProvider), k.type = "request" PROVE k.id \in SentIds
    BY <1>3, <2>1 DEF RequestsTell, SentIds, IsRequest
  <2>2. n \notin SentIds
    BY <1>1, <1>3
  <2> QED
    BY <2>1, <2>2
<1>5. cancelledBy'[n] = target /\ \A x \in HostIds : x # n => cancelledBy'[x] = cancelledBy[x]
  BY <1>1
<1>6. CASE quitting
  <2>1. toProvider' = toProvider
    BY <1>6 DEF SendRequest, Write
  <2>2. InTransit(toProvider') = InTransit(toProvider)
    BY <2>1
  <2>3. RequestsTell'
    BY <1>3, <1>4, <1>5, <2>1, <2>2 DEF RequestsTell
  <2> QED
    BY <1>6, <2>1, <2>3, SentTheSame
<1>7. CASE ~quitting
  <2>1. toProvider' = Append(toProvider, m)
    BY <1>7 DEF SendRequest, Write
  <2> HIDE DEF m, n
  <2>2. /\ Len(toProvider') = Len(toProvider) + 1 /\ Len(toProvider) \in Nat
        /\ \A i \in 1..Len(toProvider) : toProvider'[i] = toProvider[i]
        /\ toProvider'[Len(toProvider) + 1] = m
        /\ InTransit(toProvider') = InTransit(toProvider) \cup {m}
    <3>1. PICK new : new = toProvider'
      OBVIOUS
    <3>2. new = Append(toProvider, m) /\ m \in Messages /\ toProvider \in Seq(Messages)
      BY <1>1, <1>2, <2>1, <3>1
    <3>3. IsLonger(new, toProvider, m)
      BY <3>2, OneMessageMore
    <3> QED
      BY <3>1, <3>3 DEF IsLonger
  <2>3. InRequestOrder(toProvider')
    <3> SUFFICES ASSUME NEW i \in 1..Len(toProvider'), NEW j \in 1..Len(toProvider'), i < j,
                        toProvider'[i].type = "request", toProvider'[j].type = "request"
                 PROVE  toProvider'[i].id < toProvider'[j].id
      BY DEF InRequestOrder
    <3>1. i \in 1..Len(toProvider) /\ toProvider'[i] = toProvider[i]
      BY <2>2
    <3>2. CASE j \in 1..Len(toProvider)
      BY <1>3, <2>2, <3>1, <3>2 DEF RequestsTell, InRequestOrder
    <3>3. CASE j = Len(toProvider) + 1
      <4>1. toProvider[i] \in InTransit(toProvider)
        BY <3>1 DEF InTransit
      <4> QED
        BY <1>2, <1>3, <1>4, <2>2, <3>1, <3>3, <4>1
    <3> QED
      BY <2>2, <3>2, <3>3
  <2>4. RequestsTell'
    BY <1>1, <1>2, <1>3, <1>4, <1>5, <2>2, <2>3 DEF RequestsTell
  <2>5. SentIds' = SentIds \cup {n}
    BY <1>1, <1>2, <2>2 DEF SentIds, IsRequest
  <2>6. CallIds' = CallIds \cup (IF method = "call" THEN {n} ELSE {})
    BY <1>1, <1>2, <2>2 DEF CallIds, IsRequest
  <2> QED
    BY <1>7, <2>4, <2>5, <2>6 DEF n
<1> QED
  BY <1>6, <1>7

(* The provider reads: what is left comes later. *)
IsLater(new, q) ==
  \A i \in 1..Len(new) : i + 1 \in 1..Len(q) /\ new[i] = q[i + 1]

(* What the provider has not read keeps its order, and comes after what it reads. *)
LEMMA LaterTell ==
  ASSUME LinkInv, linkOpen, toProvider # <<>>, IsLater(toProvider', toProvider),
         UNCHANGED cancelledBy
  PROVE  /\ RequestsTell' /\ SentIds' \subseteq SentIds /\ CallIds' \subseteq CallIds
         /\ Head(toProvider) \in InTransit(toProvider)
         /\ Head(toProvider).type = "request" =>
              /\ Head(toProvider).id \in SentIds
              /\ \A x \in SentIds' : Head(toProvider).id < x
<1>1. /\ RequestsTell /\ toProvider \in Seq(Messages) /\ Len(toProvider) \in Nat
      /\ Head(toProvider) = toProvider[1] /\ 1 \in 1..Len(toProvider)
      /\ Head(toProvider) \in InTransit(toProvider)
  BY FirstMessageRead DEF LinkInv, LinkTyped, WireTyped, InTransit
<1> DEFINE new == toProvider'
           first == Head(toProvider)
<1>2. \A i \in 1..Len(new) : i + 1 \in 1..Len(toProvider) /\ new[i] = toProvider[i + 1]
  BY DEF IsLater
<1>3. \A m \in InTransit(new) : m \in InTransit(toProvider)
  BY <1>2 DEF InTransit
<1>4. InRequestOrder(new)
  <2> SUFFICES ASSUME NEW i \in 1..Len(new), NEW j \in 1..Len(new), i < j,
                      new[i].type = "request", new[j].type = "request"
               PROVE  new[i].id < new[j].id
    BY DEF InRequestOrder
  <2>1. i + 1 \in 1..Len(toProvider) /\ j + 1 \in 1..Len(toProvider) /\ i + 1 < j + 1
        /\ new[i] = toProvider[i + 1] /\ new[j] = toProvider[j + 1]
    BY <1>2
  <2> HIDE DEF new
  <2> QED
    BY <1>1, <2>1 DEF RequestsTell, InRequestOrder
<1>5. RequestsTell'
  BY <1>1, <1>3, <1>4 DEF RequestsTell
<1>6. SentIds' \subseteq SentIds /\ CallIds' \subseteq CallIds
  BY <1>3 DEF SentIds, CallIds
<1>7. ASSUME first.type = "request"
      PROVE  first.id \in SentIds /\ \A x \in SentIds' : first.id < x
  <2>1. first.id \in SentIds
    BY <1>1, <1>7 DEF RequestsTell, SentIds, IsRequest
  <2>2. ASSUME NEW x \in SentIds' PROVE first.id < x
    <3>1. PICK m \in InTransit(new) : m.type = "request" /\ m.id = x
      BY <2>2 DEF SentIds, IsRequest
    <3>2. PICK i \in 1..Len(new) : m = new[i]
      BY <3>1 DEF InTransit
    <3>3. i + 1 \in 1..Len(toProvider) /\ new[i] = toProvider[i + 1] /\ 1 < i + 1
      BY <1>2
    <3> QED
      BY <1>1, <1>7, <3>1, <3>2, <3>3 DEF RequestsTell, InRequestOrder
  <2> QED
    BY <2>1, <2>2
<1> QED
  BY <1>1, <1>5, <1>6, <1>7

(* The request that is read is the first of those in transit, and leaves them. *)
LEMMA FirstRead ==
  ASSUME LinkInv, linkOpen, toProvider # <<>>, toProvider' = Tail(toProvider),
         UNCHANGED cancelledBy
  PROVE  /\ RequestsTell'
         /\ LET m == Head(toProvider) IN
            /\ m \in InTransit(toProvider)
            /\ m.type # "request" => SentIds' = SentIds /\ CallIds' = CallIds
            /\ m.type = "request" =>
                 /\ m.id \in SentIds /\ SentIds' = SentIds \ {m.id} /\ CallIds' = CallIds \ {m.id}
                 /\ \A x \in SentIds' : m.id < x
<1>1. IsLater(toProvider', toProvider) /\ toProvider \in Seq(Messages)
  BY FirstMessageRead DEF IsLater, LinkInv, LinkTyped, WireTyped
<1> DEFINE m == Head(toProvider)
<1>2. InTransit(toProvider) = InTransit(toProvider') \cup {m}
  <2>1. PICK new : new = toProvider'
    OBVIOUS
  <2>2. InTransit(toProvider) = InTransit(new) \cup {m}
    BY <1>1, <2>1, FirstMessageRead
  <2> QED
    BY <2>1, <2>2
<1>3. /\ RequestsTell' /\ SentIds' \subseteq SentIds /\ CallIds' \subseteq CallIds
      /\ m \in InTransit(toProvider)
      /\ m.type = "request" => m.id \in SentIds /\ \A x \in SentIds' : m.id < x
  BY <1>1, LaterTell
<1> HIDE DEF m
<1>4. CASE m.type # "request"
  <2>1. SentIds \subseteq SentIds' /\ CallIds \subseteq CallIds'
    BY <1>2, <1>4 DEF SentIds, CallIds, IsRequest
  <2> QED
    BY <1>3, <1>4, <2>1 DEF m
<1>5. CASE m.type = "request"
  <2>1. SentIds \ {m.id} \subseteq SentIds' /\ CallIds \ {m.id} \subseteq CallIds'
    BY <1>2, <1>5 DEF SentIds, CallIds, IsRequest
  <2>2. CallIds' \subseteq SentIds' /\ SentIds' \subseteq HostIds
    BY DEF SentIds, CallIds
  <2>3. m.id \notin SentIds'
    <3>1. \A x \in SentIds' : m.id < x /\ x \in Nat
      BY <1>3, <1>5, <2>2 DEF HostIds
    <3> QED
      BY <3>1
  <2> QED
    BY <1>3, <1>5, <2>1, <2>2, <2>3 DEF m
<1> QED
  BY <1>4, <1>5

-----------------------------------------------------------------------------
(* The way to the host *)

(* An ID is answered if some response in transit has it. *)
LEMMA AnsweredAt ==
  ASSUME LinkInv, linkOpen
  PROVE  /\ \A i \in 1..Len(toHost) : toHost[i].type = "response" => toHost[i].id \in AnsweredIds
         /\ \A x \in AnsweredIds : \E i \in 1..Len(toHost) : IsResponse(toHost[i], x)
<1>1. \A i \in 1..Len(toHost) : toHost[i] \in InTransit(toHost)
  BY DEF InTransit
<1>2. \A i \in 1..Len(toHost) : toHost[i].type = "response" => toHost[i].id \in HostIds
  BY DEF LinkInv, AllExpected
<1>3. \A m \in InTransit(toHost) : \E i \in 1..Len(toHost) : m = toHost[i]
  BY DEF InTransit
<1> QED
  BY <1>1, <1>2, <1>3 DEF AnsweredIds, IsResponse

(* A response to a request that is due is expected, behind all others. *)
LEMMA ResponseWritten ==
  ASSUME LinkInv, linkOpen, NEW id \in HostIds, Respond(id), id \notin AnsweredIds, LinkDue(id),
         UNCHANGED hostVars
  PROVE  AnsweredIds' = AnsweredIds \cup {id} /\ AllExpected'
<1> DEFINE m == Response(id)
           n == Len(toHost)
<1>1. m \in Messages /\ m.type = "response" /\ m.id = id /\ toHost \in Seq(Messages)
  BY MessagesTyped DEF Response, LinkInv, LinkTyped, WireTyped
<1> HIDE DEF m
<1>2. IsLonger(toHost', toHost, m)
  <2>1. PICK new : new = toHost'
    OBVIOUS
  <2>2. new = Append(toHost, m)
    BY <2>1 DEF Respond, m
  <2>3. IsLonger(new, toHost, m)
    BY <1>1, <2>2, OneMessageMore
  <2> QED
    BY <2>1, <2>3
<1>3. /\ Len(toHost') = n + 1 /\ n \in Nat /\ toHost'[n + 1] = m
      /\ \A i \in 1..n : toHost'[i] = toHost[i]
  BY <1>2 DEF IsLonger
<1>4. AnsweredIds' = AnsweredIds \cup {id}
  <2>1. InTransit(toHost') = InTransit(toHost) \cup {m}
    BY <1>2 DEF IsLonger
  <2> QED
    BY <1>1, <2>1 DEF AnsweredIds, IsResponse
<1>5. WaitedIds' = WaitedIds /\ cancelledBy' = cancelledBy
  BY DEF WaitedIds, hostVars
<1>6. \A i \in 1..n + 1 : i \in 1..n \/ i = n + 1
  BY <1>3
<1>7. \A i, j \in 1..n + 1 :
        toHost'[i].type = "response" /\ toHost'[j].type = "response"
          /\ toHost'[i].id = toHost'[j].id => i = j
  <2>1. \A i, j \in 1..n :
          toHost[i].type = "response" /\ toHost[j].type = "response"
            /\ toHost[i].id = toHost[j].id => i = j
    BY DEF LinkInv, AllExpected
  <2>2. \A i \in 1..n : toHost[i].type = "response" => toHost[i].id # id
    BY AnsweredAt
  <2> QED
    BY <1>1, <1>3, <1>6, <2>1, <2>2
<1>8. ASSUME NEW i \in 1..n + 1, toHost'[i].type = "response"
      PROVE  toHost'[i].id \in HostIds /\ Expected(i)'
  <2>1. CASE i \in 1..n
    <3>1. toHost[i].id \in HostIds /\ Expected(i)
      BY <1>3, <1>8, <2>1 DEF LinkInv, AllExpected
    <3>2. toHost'[i] = toHost[i] /\ i < n + 1
      BY <1>3, <2>1
    <3>3. ASSUME NEW c \in WaitedIds, cancelledBy[c] = toHost[i].id,
                 \A j \in 1..n : IsResponse(toHost[j], c) => i < j
          PROVE  \A j \in 1..n + 1 : IsResponse(toHost'[j], c) => i < j
      BY <1>3, <1>6, <3>2, <3>3
    <3> QED
      BY <1>3, <1>5, <3>1, <3>2, <3>3 DEF Expected
  <2>2. CASE i = n + 1
    <3>1. toHost'[i].id = id
      BY <1>1, <1>3, <2>2
    <3>2. CASE id \in WaitedIds
      BY <1>5, <3>1, <3>2 DEF Expected
    <3>3. ASSUME NEW c \in WaitedIds \ AnsweredIds, cancelledBy[c] = id PROVE Expected(i)'
      <4>1. c \in HostIds /\ c # id
        BY <3>3 DEF LinkInv, CancelsTell, WaitedIds, LinkTyped, HostTyped, HostIds
      <4>2. \A j \in 1..n + 1 : ~IsResponse(toHost'[j], c)
        <5>1. \A j \in 1..n : ~IsResponse(toHost[j], c)
          BY <3>3, AnsweredAt DEF IsResponse
        <5> QED
          BY <1>1, <1>3, <1>6, <4>1, <5>1 DEF IsResponse
      <4>3. \A j \in 1..Len(toHost') : IsResponse(toHost'[j], c) => i < j
        BY <1>3, <4>2
      <4>4. c \in WaitedIds' /\ cancelledBy'[c] = toHost'[i].id
        BY <1>5, <3>1, <3>3
      <4> QED
        BY <4>3, <4>4 DEF Expected
    <3> QED
      BY <3>1, <3>2, <3>3 DEF LinkDue
  <2> QED
    BY <1>6, <2>1, <2>2
<1> QED
  BY <1>3, <1>4, <1>7, <1>8 DEF AllExpected

(* A request of the provider is written behind the responses. *)
LEMMA RequestWritten ==
  ASSUME LinkInv, linkOpen, NEW m \in Messages, m.type = "request",
         toHost' = Append(toHost, m), UNCHANGED hostVars
  PROVE  AnsweredIds' = AnsweredIds /\ AllExpected'
<1> DEFINE n == Len(toHost)
<1>1. IsLonger(toHost', toHost, m)
  <2>1. PICK new : new = toHost'
    OBVIOUS
  <2>2. new = Append(toHost, m) /\ toHost \in Seq(Messages)
    BY <2>1 DEF LinkInv, LinkTyped, WireTyped
  <2>3. IsLonger(new, toHost, m)
    BY <2>2, OneMessageMore
  <2> QED
    BY <2>1, <2>3
<1>2. /\ Len(toHost') = n + 1 /\ n \in Nat /\ toHost'[n + 1] = m
      /\ \A i \in 1..n : toHost'[i] = toHost[i]
      /\ InTransit(toHost') = InTransit(toHost) \cup {m}
  BY <1>1 DEF IsLonger
<1>3. \A i \in 1..n + 1 : i \in 1..n \/ i = n + 1
  BY <1>2
<1>4. AnsweredIds' = AnsweredIds
  BY <1>2 DEF AnsweredIds, IsResponse
<1>5. WaitedIds' = WaitedIds /\ cancelledBy' = cancelledBy
  BY DEF WaitedIds, hostVars
<1>6. \A i \in 1..n + 1 : toHost'[i].type = "response" => i \in 1..n /\ toHost'[i] = toHost[i]
  BY <1>2, <1>3
<1>7. \A i, j \in 1..n + 1 :
        toHost'[i].type = "response" /\ toHost'[j].type = "response"
          /\ toHost'[i].id = toHost'[j].id => i = j
  BY <1>6 DEF LinkInv, AllExpected
<1>8. ASSUME NEW i \in 1..n + 1, toHost'[i].type = "response"
      PROVE  toHost'[i].id \in HostIds /\ Expected(i)'
  <2>1. i \in 1..n /\ toHost'[i] = toHost[i] /\ toHost[i].id \in HostIds /\ Expected(i)
    BY <1>6, <1>8 DEF LinkInv, AllExpected
  <2>2. ASSUME NEW c \in WaitedIds, cancelledBy[c] = toHost[i].id,
               \A j \in 1..n : IsResponse(toHost[j], c) => i < j
        PROVE  Expected(i)'
    <3>1. \A j \in 1..n + 1 : IsResponse(toHost'[j], c) => i < j
      BY <1>6, <2>2 DEF IsResponse
    <3>2. \A j \in 1..Len(toHost') : IsResponse(toHost'[j], c) => i < j
      BY <1>2, <3>1
    <3>3. c \in WaitedIds' /\ cancelledBy'[c] = toHost'[i].id
      BY <1>5, <2>1, <2>2
    <3> QED
      BY <3>2, <3>3 DEF Expected
  <2>3. CASE toHost[i].id \in WaitedIds
    BY <1>5, <2>1, <2>3 DEF Expected
  <2> QED
    BY <2>1, <2>2, <2>3 DEF Expected
<1> QED
  BY <1>2, <1>4, <1>7, <1>8 DEF AllExpected

(* The supervisor reads a message: a response frees what it answers. *)
LEMMA FirstTaken ==
  ASSUME LinkInv, linkOpen, toHost # <<>>, toHost' = Tail(toHost), UNCHANGED <<cancelledBy, overdue>>,
         hostOutstanding' = IF Head(toHost).type = "response"
                            THEN hostOutstanding \ {Head(toHost).id} ELSE hostOutstanding
  PROVE  /\ AllExpected'
         /\ Head(toHost).type = "response" => Head(toHost).id \in AnsweredIds
         /\ AnsweredIds' = IF Head(toHost).type = "response"
                           THEN AnsweredIds \ {Head(toHost).id} ELSE AnsweredIds
<1> DEFINE m == Head(toHost)
           n == Len(toHost)
<1>1. /\ Len(toHost') = n - 1 /\ n \in Nat /\ n > 0 /\ m = toHost[1]
      /\ \A i \in 1..n - 1 : toHost'[i] = toHost[i + 1] /\ i + 1 \in 1..n
      /\ InTransit(toHost) = InTransit(toHost') \cup {m}
  <2>1. PICK new : new = toHost'
    OBVIOUS
  <2>2. new = Tail(toHost) /\ toHost \in Seq(Messages)
    BY <2>1 DEF LinkInv, LinkTyped, WireTyped
  <2>3. /\ Len(new) = n - 1 /\ n \in Nat /\ n > 0 /\ m = toHost[1]
        /\ \A i \in 1..Len(new) : new[i] = toHost[i + 1]
    BY <2>2, FirstMessageRead
  <2>5. InTransit(toHost) = InTransit(new) \cup {m}
    BY <2>2, FirstMessageRead
  <2> HIDE DEF m
  <2>4. \A i \in 1..n - 1 : i + 1 \in 1..n
    BY <2>3
  <2> QED
    BY <2>1, <2>3, <2>4, <2>5
<1> HIDE DEF m
<1>2. \A i, j \in 1..n :
        toHost[i].type = "response" /\ toHost[j].type = "response" /\ toHost[i].id = toHost[j].id => i = j
  BY DEF LinkInv, AllExpected
<1>3. \A i \in 1..n - 1 : toHost'[i].type = "response" /\ m.type = "response" => toHost'[i].id # m.id
  <2> SUFFICES ASSUME NEW i \in 1..n - 1, toHost'[i].type = "response", m.type = "response",
                      toHost'[i].id = m.id
               PROVE  FALSE
    OBVIOUS
  <2>1. i + 1 = 1
    BY <1>1, <1>2
  <2> QED
    BY <1>1, <2>1
<1>4. AnsweredIds' = IF m.type = "response" THEN AnsweredIds \ {m.id} ELSE AnsweredIds
  <2>1. \A x \in HostIds : (\E k \in InTransit(toHost') : IsResponse(k, x))
                             => \E i \in 1..n - 1 : IsResponse(toHost'[i], x)
    BY <1>1 DEF InTransit
  <2>2. \A x \in AnsweredIds' : x \in AnsweredIds /\ (m.type = "response" => x # m.id)
    BY <1>1, <1>3, <2>1 DEF AnsweredIds, IsResponse
  <2>3. \A x \in AnsweredIds : x \in AnsweredIds' \/ (m.type = "response" /\ x = m.id)
    BY <1>1 DEF AnsweredIds, IsResponse
  <2> QED
    BY <2>2, <2>3
<1>5. m.type = "response" => m.id \in AnsweredIds
  BY <1>1, AnsweredAt
<1>6. \A i, j \in 1..n - 1 :
        toHost'[i].type = "response" /\ toHost'[j].type = "response"
          /\ toHost'[i].id = toHost'[j].id => i = j
  <2> SUFFICES ASSUME NEW i \in 1..n - 1, NEW j \in 1..n - 1,
                      toHost'[i].type = "response", toHost'[j].type = "response",
                      toHost'[i].id = toHost'[j].id
               PROVE  i = j
    OBVIOUS
  <2>1. i + 1 = j + 1
    BY <1>1, <1>2
  <2> QED
    BY <1>1, <2>1
<1>7. \A x \in WaitedIds : x \in WaitedIds' \/ (m.type = "response" /\ x = m.id)
  BY DEF WaitedIds, m
<1>8. ASSUME NEW i \in 1..n - 1, toHost'[i].type = "response"
      PROVE  toHost'[i].id \in HostIds /\ Expected(i)'
  <2>1. toHost'[i] = toHost[i + 1] /\ i + 1 \in 1..n /\ toHost[i + 1].id \in HostIds /\ Expected(i + 1)
    BY <1>1, <1>8 DEF LinkInv, AllExpected
  <2>2. CASE toHost[i + 1].id \in WaitedIds
    BY <1>3, <1>7, <1>8, <2>1, <2>2 DEF Expected
  <2>3. ASSUME NEW c \in WaitedIds, cancelledBy[c] = toHost[i + 1].id,
               \A j \in 1..n : IsResponse(toHost[j], c) => i + 1 < j
        PROVE  Expected(i)'
    <3>1. ~IsResponse(m, c)
      BY <1>1, <2>3
    <3>2. c \in WaitedIds'
      BY <1>7, <3>1 DEF IsResponse
    <3>3. ASSUME NEW j \in 1..n - 1, IsResponse(toHost'[j], c) PROVE i < j
      <4>1. j + 1 \in 1..n /\ IsResponse(toHost[j + 1], c)
        BY <1>1, <3>3
      <4>2. i + 1 < j + 1
        BY <2>3, <4>1
      <4> QED
        BY <1>1, <4>2
    <3>4. \A j \in 1..Len(toHost') : IsResponse(toHost'[j], c) => i < j
      BY <1>1, <3>3
    <3>5. cancelledBy'[c] = toHost'[i].id
      BY <2>1, <2>3
    <3> QED
      BY <3>2, <3>4, <3>5 DEF Expected
  <2> QED
    BY <2>1, <2>2, <2>3 DEF Expected
<1> QED
  BY <1>1, <1>4, <1>5, <1>6, <1>8 DEF AllExpected, m

-----------------------------------------------------------------------------
(* Counting requests *)

(* There are finitely many requests of the supervisor, *)
LEMMA HostIdsFinite == IsFiniteSet(HostIds)
  BY LinkBounds, FS_Interval DEF HostIds

(* so that any of them can be counted, one by one, *)
LEMMA Counted ==
  ASSUME NEW X \in SUBSET HostIds
  PROVE  /\ IsFiniteSet(X) /\ Cardinality(X) \in Nat
         /\ \A x : x \notin X => /\ Cardinality(X \cup {x}) = Cardinality(X) + 1
                                 /\ IsFiniteSet(X \cup {x})
         /\ \A x : x \in X => Cardinality(X \ {x}) = Cardinality(X) - 1
<1>1. IsFiniteSet(X)
  BY HostIdsFinite, FS_Subset
<1>2. Cardinality(X) \in Nat
  BY <1>1, FS_CardinalityType
<1>3. ASSUME NEW x, x \notin X
      PROVE  Cardinality(X \cup {x}) = Cardinality(X) + 1 /\ IsFiniteSet(X \cup {x})
  BY <1>1, <1>3, FS_AddElement
<1>4. ASSUME NEW x, x \in X PROVE Cardinality(X \ {x}) = Cardinality(X) - 1
  BY <1>1, <1>4, FS_RemoveElement
<1> QED
  BY <1>1, <1>2, <1>3, <1>4

(* and fewer of them are no more. *)
LEMMA Fewer ==
  ASSUME NEW X \in SUBSET HostIds, NEW Y \in SUBSET HostIds, X \subseteq Y
  PROVE  Cardinality(X) <= Cardinality(Y) /\ Cardinality(X) \in Nat /\ Cardinality(Y) \in Nat
<1>1. IsFiniteSet(Y)
  BY Counted
<1> QED
  BY <1>1, Counted, FS_Subset

(* X and Y, of which X has no more, change together. *)
NoMore(X, Y) == Cardinality(X) <= Cardinality(Y)
Added(X2, X, n) == X2 \subseteq X \cup {n}
Joined(Y2, Y, n) == n \in Y2 /\ n \notin Y /\ Y \subseteq Y2
Left(Y2, Y, r) == Y \ {r} \subseteq Y2
Gone(X2, X, p) == p \in X /\ X2 \subseteq X \ {p}
MovedOn(X2, X, p, c) == p \in X /\ X2 \subseteq (X \ {p}) \cup {c}

(* One may join what is owed when one joins what is waited for. *)
LEMMA BothGrow ==
  ASSUME NEW X \in SUBSET HostIds, NEW Y \in SUBSET HostIds,
         NEW X2 \in SUBSET HostIds, NEW Y2 \in SUBSET HostIds, NEW n \in HostIds,
         NoMore(X, Y), Added(X2, X, n), Joined(Y2, Y, n)
  PROVE  NoMore(X2, Y2)
<1> DEFINE X3 == X \cup {n}
           Y3 == Y \cup {n}
<1>1. X3 \in SUBSET HostIds /\ Y3 \in SUBSET HostIds /\ X2 \subseteq X3 /\ Y3 \subseteq Y2
  BY DEF Added, Joined
<1>2. Cardinality(Y3) = Cardinality(Y) + 1 /\ Cardinality(Y) \in Nat
  BY Counted DEF Joined
<1>3. Cardinality(X3) <= Cardinality(X) + 1 /\ Cardinality(X) \in Nat
  <2>1. CASE n \in X
    <3>1. X3 = X
      BY <2>1
    <3> HIDE DEF X3
    <3>2. Cardinality(X) \in Nat
      BY Counted
    <3> QED
      BY <3>1, <3>2
  <2>2. CASE n \notin X
    BY <2>2, Counted
  <2> QED
    BY <2>1, <2>2
<1> HIDE DEF X3, Y3
<1>4. Cardinality(X2) <= Cardinality(X3) /\ Cardinality(X2) \in Nat /\ Cardinality(X3) \in Nat
  BY <1>1, Fewer
<1>5. Cardinality(Y3) <= Cardinality(Y2) /\ Cardinality(Y3) \in Nat /\ Cardinality(Y2) \in Nat
  BY <1>1, Fewer
<1> QED
  BY <1>2, <1>3, <1>4, <1>5 DEF NoMore

(* The slot that is freed is taken at once. *)
LEMMA OneLeavesOneJoins ==
  ASSUME NEW X \in SUBSET HostIds, NEW Y \in SUBSET HostIds,
         NEW X2 \in SUBSET HostIds, NEW Y2 \in SUBSET HostIds, NEW n \in HostIds, NEW r \in HostIds,
         NoMore(X, Y), X2 \subseteq X, Left(Y2, Y, r), n \in Y2, n \notin Y
  PROVE  NoMore(X2, Y2)
<1> DEFINE Y3 == Y \ {r}
           Y4 == Y3 \cup {n}
<1>1. Y3 \in SUBSET HostIds /\ n \notin Y3 /\ Y4 \in SUBSET HostIds /\ Y4 \subseteq Y2
  BY DEF Left
<1>2. Cardinality(Y3) >= Cardinality(Y) - 1 /\ Cardinality(Y) \in Nat
  <2>1. CASE r \in Y
    BY <2>1, Counted
  <2>2. CASE r \notin Y
    <3>1. Y3 = Y
      BY <2>2
    <3>2. Cardinality(Y) \in Nat
      BY Counted
    <3> QED
      BY <3>1, <3>2
  <2> QED
    BY <2>1, <2>2
<1> HIDE DEF Y3
<1>3. Cardinality(Y4) = Cardinality(Y3) + 1 /\ Cardinality(Y3) \in Nat
  BY <1>1, Counted
<1> HIDE DEF Y4
<1>4. Cardinality(X2) <= Cardinality(X) /\ Cardinality(X2) \in Nat /\ Cardinality(X) \in Nat
  BY Fewer
<1>5. Cardinality(Y4) <= Cardinality(Y2) /\ Cardinality(Y4) \in Nat /\ Cardinality(Y2) \in Nat
  BY <1>1, Fewer
<1> QED
  BY <1>2, <1>3, <1>4, <1>5 DEF NoMore

(* One may leave what is waited for when one leaves what is owed. *)
LEMMA BothShrink ==
  ASSUME NEW X \in SUBSET HostIds, NEW Y \in SUBSET HostIds,
         NEW X2 \in SUBSET HostIds, NEW Y2 \in SUBSET HostIds, NEW p \in HostIds, NEW r \in HostIds,
         NoMore(X, Y), Gone(X2, X, p), Left(Y2, Y, r)
  PROVE  NoMore(X2, Y2)
<1> DEFINE X3 == X \ {p}
           Y3 == Y \ {r}
<1>1. X3 \in SUBSET HostIds /\ Y3 \in SUBSET HostIds /\ X2 \subseteq X3 /\ Y3 \subseteq Y2 /\ p \in X
  BY DEF Gone, Left
<1>2. Cardinality(X3) = Cardinality(X) - 1 /\ Cardinality(X) \in Nat
  BY <1>1, Counted
<1>3. Cardinality(Y3) >= Cardinality(Y) - 1 /\ Cardinality(Y) \in Nat
  <2>1. CASE r \in Y
    BY <2>1, Counted
  <2>2. CASE r \notin Y
    <3>1. Y3 = Y
      BY <2>2
    <3>2. Cardinality(Y) \in Nat
      BY Counted
    <3> QED
      BY <3>1, <3>2
  <2> QED
    BY <2>1, <2>2
<1> HIDE DEF X3, Y3
<1>4. Cardinality(X2) <= Cardinality(X3) /\ Cardinality(X2) \in Nat /\ Cardinality(X3) \in Nat
  BY <1>1, Fewer
<1>5. Cardinality(Y3) <= Cardinality(Y2) /\ Cardinality(Y3) \in Nat /\ Cardinality(Y2) \in Nat
  BY <1>1, Fewer
<1> QED
  BY <1>2, <1>3, <1>4, <1>5 DEF NoMore

(* One request is owed for another. *)
LEMMA OneMoves ==
  ASSUME NEW X \in SUBSET HostIds, NEW Y \in SUBSET HostIds,
         NEW X2 \in SUBSET HostIds, NEW Y2 \in SUBSET HostIds, NEW p \in HostIds, NEW c \in HostIds,
         NoMore(X, Y), MovedOn(X2, X, p, c), Y \subseteq Y2
  PROVE  NoMore(X2, Y2)
<1> DEFINE X3 == X \ {p}
           X4 == X3 \cup {c}
<1>1. X3 \in SUBSET HostIds /\ X4 \in SUBSET HostIds /\ X2 \subseteq X4 /\ p \in X
  BY DEF MovedOn
<1>2. Cardinality(X3) = Cardinality(X) - 1 /\ Cardinality(X) \in Nat
  BY <1>1, Counted
<1> HIDE DEF X3
<1>3. Cardinality(X4) <= Cardinality(X3) + 1 /\ Cardinality(X3) \in Nat
  <2>1. CASE c \in X3
    <3>1. X4 = X3
      BY <2>1
    <3> HIDE DEF X4
    <3>2. Cardinality(X3) \in Nat
      BY <1>1, Counted
    <3> QED
      BY <3>1, <3>2
  <2>2. CASE c \notin X3
    BY <1>1, <2>2, Counted
  <2> QED
    BY <2>1, <2>2
<1> HIDE DEF X4
<1>4. Cardinality(X2) <= Cardinality(X4) /\ Cardinality(X2) \in Nat /\ Cardinality(X4) \in Nat
  BY <1>1, Fewer
<1>5. Cardinality(Y) <= Cardinality(Y2) /\ Cardinality(Y) \in Nat /\ Cardinality(Y2) \in Nat
  BY Fewer
<1> QED
  BY <1>2, <1>3, <1>4, <1>5 DEF NoMore

-----------------------------------------------------------------------------
(* The requests of the provider, and the handshake *)

(* What is in a queue of the messages of a type was in it before. *)
Carried(new, q, type) ==
  \E d \in {0, 1} : \A i \in 1..Len(new) :
    new[i].type = type => i + d \in 1..Len(q) /\ new[i] = q[i + d]

(* A message of another type is written: *)
LEMMA WrittenCarries ==
  ASSUME NEW q \in Seq(Messages), NEW m \in Messages, NEW new, new = Append(q, m),
         NEW type, m.type # type
  PROVE  Carried(new, q, type)
<1>1. /\ Len(new) = Len(q) + 1 /\ Len(q) \in Nat /\ new[Len(q) + 1] = m
      /\ \A i \in 1..Len(q) : new[i] = q[i]
  BY OneMessageMore DEF IsLonger
<1>2. \A i \in 1..Len(new) : new[i].type = type => i + 0 \in 1..Len(q) /\ new[i] = q[i + 0]
  <2> SUFFICES ASSUME NEW i \in 1..Len(new), new[i].type = type
               PROVE  i + 0 \in 1..Len(q) /\ new[i] = q[i + 0]
    OBVIOUS
  <2>1. i # Len(q) + 1
    BY <1>1
  <2>2. i \in 1..Len(q) /\ i + 0 = i
    BY <1>1, <2>1
  <2> QED
    BY <1>1, <2>2
<1> QED
  BY <1>2 DEF Carried

(* or nothing is, *)
LEMMA SameCarries ==
  ASSUME NEW q \in Seq(Messages), NEW new, new = q, NEW type
  PROVE  Carried(new, q, type)
<1>1. \A i \in 1..Len(new) : i + 0 = i
  OBVIOUS
<1>2. \A i \in 1..Len(new) : new[i].type = type => i + 0 \in 1..Len(q) /\ new[i] = q[i + 0]
  BY <1>1
<1> QED
  BY <1>2 DEF Carried

(* or the first is read: no message of the type is new. *)
LEMMA LaterCarries ==
  ASSUME NEW q, NEW new, IsLater(new, q), NEW type
  PROVE  Carried(new, q, type)
  BY DEF Carried, IsLater

(* Without its first message, a queue is later. *)
LEMMA TailIsLater ==
  ASSUME NEW q \in Seq(Messages), q # <<>>, NEW new, new = Tail(q)
  PROVE  IsLater(new, q)
<1>1. /\ Len(new) = Len(q) - 1 /\ Len(q) \in Nat
      /\ \A i \in 1..Len(new) : new[i] = q[i + 1]
  BY FirstMessageRead
<1> QED
  BY <1>1 DEF IsLater

(* When no request of the provider and no response to one is new, each is still *)
(* answered at most once.                                                       *)
LEMMA CarriedTells ==
  ASSUME SdkRequestsTell, UNCHANGED <<sdkRequests, sdkNext>>,
         Carried(toHost', toHost, "request"), Carried(toProvider', toProvider, "response")
  PROVE  SdkRequestsTell'
<1>1. PICK d \in {0, 1} : \A i \in 1..Len(toHost') :
        toHost'[i].type = "request" => i + d \in 1..Len(toHost) /\ toHost'[i] = toHost[i + d]
  BY DEF Carried
<1>2. PICK e \in {0, 1} : \A i \in 1..Len(toProvider') :
        toProvider'[i].type = "response" =>
          i + e \in 1..Len(toProvider) /\ toProvider'[i] = toProvider[i + e]
  BY DEF Carried
<1>3. /\ \A i \in 1..Len(toHost') : toHost'[i].type = "request" => toHost'[i].id \in sdkRequests'
      /\ \A i \in 1..Len(toProvider') :
           toProvider'[i].type = "response" => toProvider'[i].id \in sdkRequests'
  BY <1>1, <1>2 DEF SdkRequestsTell
<1>4. ASSUME NEW i \in 1..Len(toHost'), NEW j \in 1..Len(toHost'),
             toHost'[i].type = "request", toHost'[j].type = "request", toHost'[i].id = toHost'[j].id
      PROVE  i = j
  <2>1. i + d = j + d
    BY <1>1, <1>4 DEF SdkRequestsTell
  <2> QED
    BY <2>1
<1>5. ASSUME NEW i \in 1..Len(toProvider'), NEW j \in 1..Len(toProvider'),
             toProvider'[i].type = "response", toProvider'[j].type = "response",
             toProvider'[i].id = toProvider'[j].id
      PROVE  i = j
  <2>1. i + e = j + e
    BY <1>2, <1>5 DEF SdkRequestsTell
  <2> QED
    BY <2>1
<1>6. \A i \in 1..Len(toHost'), j \in 1..Len(toProvider') :
        ~(toHost'[i].type = "request" /\ toProvider'[j].type = "response"
          /\ toHost'[i].id = toProvider'[j].id)
  <2> SUFFICES ASSUME NEW i \in 1..Len(toHost'), NEW j \in 1..Len(toProvider'),
                      toHost'[i].type = "request", toProvider'[j].type = "response",
                      toHost'[i].id = toProvider'[j].id
               PROVE  FALSE
    OBVIOUS
  <2>1. i + d \in 1..Len(toHost) /\ toHost'[i] = toHost[i + d]
    BY <1>1
  <2>2. j + e \in 1..Len(toProvider) /\ toProvider'[j] = toProvider[j + e]
    BY <1>2
  <2> QED
    BY <2>1, <2>2 DEF SdkRequestsTell
<1> QED
  BY <1>3, <1>4, <1>5, <1>6 DEF SdkRequestsTell

(* The greetings are over once the supervisor has read the provider's. *)
LEMMA HandshakeStays ==
  ASSUME HandshakeTells, hostReady, hostReady',
         \A m \in InTransit(toHost') : m \in InTransit(toHost) \/ m.type # "hello"
  PROVE  HandshakeTells'
  BY DEF HandshakeTells

(* What is still due, or expected, when nothing is written to the supervisor or read *)
WaitsKept ==
  /\ \A x \in WaitedIds : \/ x \in WaitedIds'
                          \/ \E c \in WaitedIds' \ AnsweredIds : cancelledBy'[c] = x
  /\ \A c \in WaitedIds : cancelledBy[c] # 0 => c \in WaitedIds' /\ cancelledBy'[c] = cancelledBy[c]

(* What was due is due, *)
LEMMA StillDue ==
  ASSUME LinkInv, linkOpen, WaitsKept, UNCHANGED toHost, NEW x \in HostIds, LinkDue(x)
  PROVE  LinkDue(x)'
<1>1. AnsweredIds' = AnsweredIds
  BY AnsweredTheSame
<1>2. x # 0
  BY LinkBounds DEF HostIds
<1>3. CASE x \in WaitedIds
  BY <1>1, <1>3 DEF WaitsKept, LinkDue
<1>4. ASSUME NEW c \in WaitedIds \ AnsweredIds, cancelledBy[c] = x PROVE LinkDue(x)'
  <2>1. c \in WaitedIds' /\ cancelledBy'[c] = x
    BY <1>2, <1>4 DEF WaitsKept
  <2> QED
    BY <1>1, <1>4, <2>1 DEF LinkDue
<1> QED
  BY <1>3, <1>4 DEF LinkDue

(* and what was expected is expected. *)
LEMMA StillExpected ==
  ASSUME LinkInv, linkOpen, WaitsKept, UNCHANGED toHost
  PROVE  AllExpected'
<1>1. ASSUME NEW i \in 1..Len(toHost), toHost[i].type = "response"
      PROVE  Expected(i)'
  <2>1. toHost[i].id \in HostIds /\ toHost[i].id # 0 /\ Expected(i)
    BY <1>1, LinkBounds DEF LinkInv, AllExpected, HostIds
  <2>2. CASE toHost[i].id \in WaitedIds
    <3>1. ASSUME NEW c \in WaitedIds' \ AnsweredIds, cancelledBy'[c] = toHost[i].id
          PROVE  Expected(i)'
      <4>1. \A j \in 1..Len(toHost) : ~IsResponse(toHost[j], c)
        BY <3>1, AnsweredAt DEF IsResponse
      <4>2. \A j \in 1..Len(toHost') : IsResponse(toHost'[j], c) => i < j
        BY <4>1
      <4>3. c \in WaitedIds' /\ cancelledBy'[c] = toHost'[i].id
        BY <3>1
      <4> QED
        BY <4>2, <4>3 DEF Expected
    <3> QED
      BY <2>2, <3>1 DEF WaitsKept, Expected
  <2>3. ASSUME NEW c \in WaitedIds, cancelledBy[c] = toHost[i].id,
               \A j \in 1..Len(toHost) : IsResponse(toHost[j], c) => i < j
        PROVE  Expected(i)'
    <3>1. c \in WaitedIds' /\ cancelledBy'[c] = toHost'[i].id
      BY <2>1, <2>3 DEF WaitsKept
    <3>2. \A j \in 1..Len(toHost') : IsResponse(toHost'[j], c) => i < j
      BY <2>3
    <3> QED
      BY <3>1, <3>2 DEF Expected
  <2> QED
    BY <2>1, <2>2, <2>3 DEF Expected
<1>2. /\ \A i, j \in 1..Len(toHost) :
           toHost[i].type = "response" /\ toHost[j].type = "response" /\ toHost[i].id = toHost[j].id
             => i = j
      /\ \A i \in 1..Len(toHost) : toHost[i].type = "response" => toHost[i].id \in HostIds
  BY DEF LinkInv, AllExpected
<1> QED
  BY <1>1, <1>2 DEF AllExpected

-----------------------------------------------------------------------------
(* The supervisor sends a request *)

(* The slots that are freed before the request takes one *)
Frees(outstanding, method, target) ==
  \/ method # "cancel" /\ outstanding = hostOutstanding /\ overdue' = overdue
  \/ \E r \in hostOutstanding : /\ method = "shutdown" /\ outstanding = hostOutstanding \ {r}
                                /\ overdue' = overdue \cup {r}
  \/ /\ method = "cancel" /\ target \in hostOutstanding /\ cancelledBy[target] = 0
     /\ outstanding = hostOutstanding \ {target} /\ overdue' = overdue

(* The next ID of the supervisor is in nobody's hands. *)
LEMMA NextIsNew ==
  ASSUME LinkInv, linkOpen, hostNext <= MaxHostIds
  PROVE  /\ hostNext \in HostIds /\ hostNext \in Nat
         /\ hostNext \notin SentIds /\ hostNext \notin CallIds /\ hostNext \notin sdkOutstanding
         /\ hostNext \notin AnsweredIds /\ hostNext \notin hostOutstanding /\ hostNext \notin overdue
         /\ SentIds \subseteq HostIds /\ CallIds \subseteq SentIds /\ sdkOutstanding \subseteq HostIds
         /\ AnsweredIds \subseteq HostIds /\ hostOutstanding \subseteq HostIds /\ overdue \subseteq HostIds
<1>1. hostNext \in HostIds /\ hostNext \in Nat
  BY LinkBounds DEF LinkInv, LinkTyped, HostTyped, HostIds
<1>2. \A x \in SentIds \cup sdkOutstanding \cup AnsweredIds \cup hostOutstanding \cup overdue :
        x < hostNext
  BY DEF LinkInv, IdsInOrder
<1>3. \A x \in SentIds \cup sdkOutstanding \cup AnsweredIds \cup hostOutstanding \cup overdue :
        x # hostNext
  BY <1>1, <1>2
<1>4. CallIds \subseteq SentIds /\ SentIds \subseteq HostIds /\ AnsweredIds \subseteq HostIds
  BY DEF CallIds, SentIds, AnsweredIds
<1>5. sdkOutstanding \subseteq HostIds /\ hostOutstanding \subseteq HostIds /\ overdue \subseteq HostIds
  BY DEF LinkInv, LinkTyped, HostTyped, SdkTyped
<1> QED
  BY <1>1, <1>3, <1>4, <1>5

(* What sending changes, and what it leaves alone *)
Sends(outstanding, method, target) ==
  /\ Frees(outstanding, method, target)
  /\ outstanding \subseteq hostOutstanding
  /\ hostNext <= MaxHostIds /\ hostNext' = hostNext + 1
  /\ hostOutstanding' = outstanding \cup {hostNext}
  /\ cancelledBy'[hostNext] = target
  /\ \A x \in HostIds : x # hostNext => cancelledBy'[x] = cancelledBy[x]
  /\ SentIds' = SentIds \cup (IF quitting THEN {} ELSE {hostNext})
  /\ CallIds' = CallIds \cup (IF ~quitting /\ method = "call" THEN {hostNext} ELSE {})
  /\ sdkOutstanding' = sdkOutstanding /\ AnsweredIds' = AnsweredIds
  /\ quitting' = quitting

(* It is larger than all before it, *)
LEMMA SendKeepsOrder ==
  ASSUME LinkInv, linkOpen, NEW outstanding, NEW method, NEW target,
         Sends(outstanding, method, target)
  PROVE  IdsInOrder'
<1> DEFINE n == hostNext
<1>1. n \in Nat /\ n' = n + 1
  BY NextIsNew DEF Sends
<1>2. \A x \in SentIds \cup sdkOutstanding \cup AnsweredIds \cup hostOutstanding \cup overdue : x < n
  BY DEF LinkInv, IdsInOrder
<1>3. SentIds' \subseteq SentIds \cup {n} /\ hostOutstanding' \subseteq hostOutstanding \cup {n}
  BY DEF Sends
<1>4. overdue' \subseteq overdue \cup hostOutstanding
  BY DEF Sends, Frees
<1>5. sdkOutstanding' = sdkOutstanding /\ AnsweredIds' = AnsweredIds
  BY DEF Sends
<1>6. SentIds \cup sdkOutstanding \cup AnsweredIds \cup hostOutstanding \cup overdue \subseteq Nat
  BY NextIsNew DEF HostIds, Sends
<1> HIDE DEF n
<1>7. ASSUME NEW x \in SentIds' \cup sdkOutstanding' \cup AnsweredIds' \cup hostOutstanding' \cup overdue'
      PROVE  x < n'
  <2>1. x = n \/ (x < n /\ x \in Nat)
    BY <1>2, <1>3, <1>4, <1>5, <1>6
  <2> QED
    BY <1>1, <2>1
<1>8. \A x \in sdkOutstanding \cup AnsweredIds, y \in SentIds : x < y
  BY DEF LinkInv, IdsInOrder
<1>9. \A x \in sdkOutstanding' \cup AnsweredIds', y \in SentIds' : x < y
  BY <1>2, <1>3, <1>5, <1>8
<1>10. sdkOutstanding' \cap AnsweredIds' = {}
  BY <1>5 DEF LinkInv, IdsInOrder
<1> QED
  BY <1>7, <1>9, <1>10 DEF IdsInOrder, n

(* the request cancels at most one that the supervisor has given up, *)
LEMMA SendKeepsCancels ==
  ASSUME LinkInv, linkOpen, NEW outstanding, NEW method, NEW target,
         method = "cancel" <=> target # 0, Sends(outstanding, method, target)
  PROVE  CancelsTell'
<1> DEFINE n == hostNext
           B == cancelledBy
<1>1. /\ n \in Nat /\ n \in HostIds /\ n' = n + 1 /\ n \notin sdkOutstanding
      /\ hostOutstanding \subseteq HostIds
  BY NextIsNew DEF Sends
<1>2. CancelsTell
  BY DEF LinkInv
<1>3. target # 0 => /\ target \in hostOutstanding /\ B[target] = 0 /\ target \in HostIds
                    /\ target < n /\ target \notin hostOutstanding'
  <2> SUFFICES ASSUME target # 0
               PROVE  /\ target \in hostOutstanding /\ B[target] = 0 /\ target \in HostIds
                      /\ target < n /\ target \notin hostOutstanding'
    OBVIOUS
  <2>1. target \in hostOutstanding /\ B[target] = 0 /\ outstanding = hostOutstanding \ {target}
    BY DEF Sends, Frees
  <2>2. target < n /\ target \in HostIds
    BY <1>1, <2>1 DEF LinkInv, IdsInOrder
  <2>3. target # n
    BY <2>1, NextIsNew DEF Sends
  <2> QED
    BY <2>1, <2>2, <2>3 DEF Sends
<1>4. B'[n] = target /\ \A x \in HostIds : x # n => B'[x] = B[x]
  BY DEF Sends
<1>5. \A x \in HostIds : x \notin hostOutstanding /\ x # n => x \notin hostOutstanding'
  BY DEF Sends
<1>6. \A x \in HostIds : x < n => x # n /\ x < n'
  BY <1>1 DEF HostIds
<1> HIDE DEF B, n
<1>7. ASSUME NEW c \in HostIds, B'[c] # 0
      PROVE  /\ B'[c] \in HostIds /\ B'[c] < c /\ c < n' /\ B'[c] \notin hostOutstanding' /\ B'[B'[c]] = 0
  <2>1. CASE c = n
    <3>1. B'[c] = target /\ target # 0
      BY <1>4, <1>7, <2>1
    <3>2. target \in HostIds /\ target < n /\ B[target] = 0 /\ target \notin hostOutstanding'
      BY <1>3, <3>1
    <3>3. B'[target] = 0
      BY <1>4, <1>6, <3>2
    <3>4. c < n'
      BY <1>1, <2>1
    <3> QED
      BY <2>1, <3>1, <3>2, <3>3, <3>4
  <2>2. CASE c # n
    <3>1. B'[c] = B[c] /\ B[c] # 0
      BY <1>4, <1>7, <2>2
    <3>2. B[c] \in HostIds /\ B[c] < c /\ c < n /\ B[c] \notin hostOutstanding /\ B[B[c]] = 0
      BY <1>2, <3>1 DEF CancelsTell, B, n
    <3>3. B[c] < n
      BY <1>1, <3>2 DEF HostIds
    <3>4. B[c] # n /\ c < n'
      BY <1>6, <3>2, <3>3
    <3> QED
      BY <1>4, <1>5, <3>1, <3>2, <3>4
  <2> QED
    BY <2>1, <2>2
<1>8. ASSUME NEW c \in HostIds, NEW d \in HostIds, B'[c] = B'[d], B'[c] # 0 PROVE c = d
  <2>1. \A e \in HostIds : e # n /\ B'[e] # 0 => B'[e] = B[e] /\ B[e] \notin hostOutstanding
    BY <1>2, <1>4 DEF CancelsTell, B
  <2>2. CASE c # n /\ d # n
    BY <1>2, <1>8, <2>1, <2>2 DEF CancelsTell, B
  <2>3. CASE c = n /\ d # n
    BY <1>3, <1>4, <1>8, <2>1, <2>3
  <2>4. CASE d = n /\ c # n
    BY <1>3, <1>4, <1>8, <2>1, <2>4
  <2> QED
    BY <2>2, <2>3, <2>4
<1>9. ASSUME NEW x \in sdkOutstanding' PROVE B'[x] = 0
  <2>1. x \in sdkOutstanding /\ x \in HostIds
    BY <1>9, NextIsNew DEF Sends
  <2>2. x # n
    BY <1>1, <2>1 DEF n
  <2>3. B[x] = 0
    BY <1>2, <2>1 DEF CancelsTell, B
  <2> QED
    BY <1>4, <2>1, <2>2, <2>3
<1> QED
  BY <1>7, <1>8, <1>9 DEF CancelsTell, B, n

(* which still waits for the acknowledgment, *)
LEMMA SendKeepsWaits ==
  ASSUME LinkInv, linkOpen, NEW outstanding, NEW method, NEW target,
         Sends(outstanding, method, target)
  PROVE  WaitsKept
<1> DEFINE n == hostNext
<1>1. n \in HostIds /\ n \notin AnsweredIds /\ n \in hostOutstanding' /\ n \notin WaitedIds
  BY NextIsNew DEF Sends, WaitedIds
<1>2. outstanding \subseteq hostOutstanding'
  BY DEF Sends
<1>3. \A x \in WaitedIds : x \in WaitedIds' \/ (x = target /\ method = "cancel" /\ cancelledBy[x] = 0)
  <2>1. CASE method # "cancel" /\ outstanding = hostOutstanding /\ overdue' = overdue
    BY <1>2, <2>1 DEF WaitedIds
  <2>2. ASSUME NEW r \in hostOutstanding, outstanding = hostOutstanding \ {r},
               overdue' = overdue \cup {r}
        PROVE  \A x \in WaitedIds : x \in WaitedIds'
    BY <1>2, <2>2 DEF WaitedIds
  <2>3. CASE /\ method = "cancel" /\ target \in hostOutstanding /\ cancelledBy[target] = 0
             /\ outstanding = hostOutstanding \ {target} /\ overdue' = overdue
    BY <1>2, <2>3 DEF WaitedIds
  <2> QED
    BY <2>1, <2>2, <2>3 DEF Sends, Frees
<1>4. n \in WaitedIds' \ AnsweredIds /\ cancelledBy'[n] = target
  BY <1>1 DEF WaitedIds, Sends
<1>5. \A c \in WaitedIds : c \in HostIds /\ c # n
  BY <1>1, NextIsNew DEF WaitedIds, Sends
<1>6. \A c \in WaitedIds : cancelledBy'[c] = cancelledBy[c]
  BY <1>5 DEF Sends
<1> HIDE DEF n
<1> QED
  BY <1>3, <1>4, <1>6 DEF WaitsKept

(* A request to be invoked was no cancel. *)
LEMMA CallsCancelNothing ==
  ASSUME LinkInv, linkOpen, NEW x \in CallIds PROVE cancelledBy[x] = 0
  BY DEF LinkInv, RequestsTell, CallIds, IsRequest

(* (what is counted are requests of the supervisor) *)
LEMMA SlotSets ==
  ASSUME LinkInv, linkOpen
  PROVE  /\ OwedIds \in SUBSET HostIds /\ hostOutstanding \ AnsweredIds \in SUBSET HostIds
         /\ CallIds \cup sdkOutstanding \in SUBSET HostIds
         /\ CallIds \cup sdkOutstanding \subseteq OwedIds
         /\ hostOutstanding \in SUBSET HostIds
<1>1. sdkOutstanding \subseteq HostIds /\ hostOutstanding \subseteq HostIds
  BY DEF LinkInv, LinkTyped, HostTyped, SdkTyped
<1> QED
  BY <1>1 DEF OwedIds, CallIds, SentIds, WastedIds

(* and the slot it takes is one more that the provider may use. *)
LEMMA SendKeepsSlots ==
  ASSUME LinkInv, linkOpen, NEW outstanding, NEW method, NEW target,
         method = "cancel" <=> target # 0, Sends(outstanding, method, target),
         Cardinality(outstanding) < MaxInFlight
  PROVE  SlotsTell'
<1> DEFINE n == hostNext
           Y == hostOutstanding \ AnsweredIds
           Y2 == hostOutstanding' \ AnsweredIds'
           X == OwedIds
           X2 == OwedIds'
<1>1. /\ n \in HostIds /\ n \notin hostOutstanding /\ n \notin AnsweredIds /\ n \notin SentIds
      /\ n \notin sdkOutstanding
      /\ SentIds \subseteq HostIds /\ CallIds \subseteq SentIds /\ sdkOutstanding \subseteq HostIds
      /\ hostOutstanding \subseteq HostIds
  BY NextIsNew DEF Sends
<1>2. SlotsTell /\ CancelsTell
  BY DEF LinkInv
<1>3. /\ sdkOutstanding' = sdkOutstanding /\ AnsweredIds' = AnsweredIds /\ quitting' = quitting
      /\ outstanding \subseteq hostOutstanding /\ hostOutstanding' = outstanding \cup {n}
      /\ SentIds' = SentIds \cup (IF quitting THEN {} ELSE {n})
      /\ CallIds' = CallIds \cup (IF ~quitting /\ method = "call" THEN {n} ELSE {})
      /\ cancelledBy'[n] = target
      /\ \A x \in HostIds : x # n => cancelledBy'[x] = cancelledBy[x]
  BY DEF Sends
<1>4. Cardinality(hostOutstanding') <= MaxInFlight
  <2>1. outstanding \in SUBSET HostIds /\ n \notin outstanding
    BY <1>1, <1>3
  <2>2. Cardinality(outstanding \cup {n}) = Cardinality(outstanding) + 1
        /\ Cardinality(outstanding) \in Nat
    BY <2>1, Counted
  <2> QED
    BY <1>3, <2>2, LinkBounds
<1>5. CASE quitting
  <2>1. CallIds' = CallIds
    BY <1>3, <1>5
  <2> QED
    BY <1>2, <1>3, <1>4, <1>5, <2>1 DEF SlotsTell
<1>6. CASE ~quitting
  <2>1. hostOutstanding' \subseteq SentIds' \cup sdkOutstanding' \cup AnsweredIds'
    BY <1>2, <1>3, <1>6 DEF SlotsTell
  <2>2. /\ X \in SUBSET HostIds /\ Y \in SUBSET HostIds /\ X2 \in SUBSET HostIds
        /\ Y2 \in SUBSET HostIds /\ NoMore(X, Y)
    <3>1. X \in SUBSET HostIds /\ Y \in SUBSET HostIds
      BY SlotSets
    <3>2. Y2 \in SUBSET HostIds
      BY <1>1, <1>3
    <3>3. WastedIds' \subseteq SentIds'
      BY DEF WastedIds
    <3>4. X2 \in SUBSET HostIds
      BY <1>1, <1>3, <3>3 DEF OwedIds
    <3>5. NoMore(X, Y)
      BY <1>2, <1>6 DEF SlotsTell, NoMore
    <3> QED
      BY <3>1, <3>2, <3>4, <3>5
  <2>3. WastedIds' \subseteq WastedIds \cup {n}
    BY <1>1, <1>3 DEF WastedIds
  <2>4. n \in WastedIds' => target # 0 /\ target \notin SentIds \cup sdkOutstanding
    BY <1>3 DEF WastedIds
  <2>5. n \notin Y /\ n \in Y2
    BY <1>1, <1>3
  <2>6. Added(X2, X, n)
    BY <1>3, <2>3 DEF OwedIds, Added
  <2>7. method # "call" /\ n \notin WastedIds' => X2 \subseteq X
    BY <1>3, <2>3 DEF OwedIds
  <2> HIDE DEF X, X2, Y, Y2
  <2>8. ASSUME method # "cancel", outstanding = hostOutstanding
        PROVE  NoMore(X2, Y2)
    <3>1. Joined(Y2, Y, n)
      BY <1>3, <2>5, <2>8 DEF Joined, Y, Y2
    <3> QED
      BY <1>1, <2>2, <2>6, <3>1, BothGrow
  <2>9. ASSUME NEW r \in hostOutstanding, outstanding = hostOutstanding \ {r},
               method = "shutdown" \/ (method = "cancel" /\ target = r)
        PROVE  NoMore(X2, Y2)
    <3>1. Left(Y2, Y, r)
      BY <1>3, <2>9 DEF Left, Y, Y2
    <3>2. CASE n \notin WastedIds'
      <4>1. X2 \subseteq X /\ r \in HostIds
        BY <1>1, <2>7, <2>9, <3>2
      <4> QED
        BY <1>1, <2>2, <2>5, <3>1, <4>1, OneLeavesOneJoins
    <3>3. CASE n \in WastedIds'
      <4>1. r \notin SentIds \cup sdkOutstanding
        BY <2>4, <2>9, <3>3
      <4>2. r \in AnsweredIds
        BY <1>2, <1>6, <2>9, <4>1 DEF SlotsTell
      <4>3. Joined(Y2, Y, n)
        BY <1>3, <2>5, <2>9, <4>2 DEF Joined, Y, Y2
      <4> QED
        BY <1>1, <2>2, <2>6, <4>3, BothGrow
    <3> QED
      BY <3>2, <3>3
  <2>10. NoMore(X2, Y2)
    BY <2>8, <2>9 DEF Sends, Frees
  <2>11. Cardinality(OwedIds') <= Cardinality(hostOutstanding' \ AnsweredIds')
    BY <2>10 DEF NoMore, X2, Y2
  <2> QED
    BY <1>3, <1>4, <1>6, <2>1, <2>11 DEF SlotsTell
<1> QED
  BY <1>5, <1>6

(* What is written towards the provider is no response but to its request. *)
LEMMA WriteCarries ==
  ASSUME toProvider \in Seq(Messages), NEW m \in Messages, m.type # "response", Write(m)
  PROVE  Carried(toProvider', toProvider, "response")
<1>1. PICK new : new = toProvider'
  OBVIOUS
<1>2. CASE quitting
  <2>1. new = toProvider
    BY <1>1, <1>2 DEF Write
  <2>2. Carried(new, toProvider, "response")
    BY <2>1, SameCarries
  <2> QED
    BY <1>1, <2>2
<1>3. CASE ~quitting
  <2>1. new = Append(toProvider, m)
    BY <1>1, <1>3 DEF Write
  <2>2. Carried(new, toProvider, "response")
    BY <2>1, WrittenCarries
  <2> QED
    BY <1>1, <2>2
<1> QED
  BY <1>2, <1>3

(* What is not read is not new, *)
LEMMA UnreadCarries ==
  ASSUME toHost \in Seq(Messages), UNCHANGED toHost
  PROVE  Carried(toHost', toHost, "request")
<1>1. PICK new : new = toHost'
  OBVIOUS
<1>2. Carried(new, toHost, "request")
  BY <1>1, SameCarries
<1> QED
  BY <1>1, <1>2

(* on either way. *)
LEMMA UnwrittenCarries ==
  ASSUME toProvider \in Seq(Messages), UNCHANGED toProvider
  PROVE  Carried(toProvider', toProvider, "response")
<1>1. PICK new : new = toProvider'
  OBVIOUS
<1>2. Carried(new, toProvider, "response")
  BY <1>1, SameCarries
<1> QED
  BY <1>1, <1>2

(* A request of any kind is sent. *)
LEMMA SendKeeps ==
  ASSUME LinkInv, linkOpen, UNCHANGED linkOpen, LinkTyped',
         NEW outstanding \in SUBSET hostOutstanding, NEW method \in {"call", "cancel", "shutdown"},
         NEW target \in 0..MaxHostIds, method = "cancel" <=> target # 0,
         Frees(outstanding, method, target), CanSend(outstanding),
         SendRequest(outstanding, method, target),
         UNCHANGED <<hostReady, toHost, sdkVars, blame>>
  PROVE  LinkInv'
<1>1. /\ RequestsTell'
      /\ SentIds' = SentIds \cup (IF quitting THEN {} ELSE {hostNext})
      /\ CallIds' = CallIds \cup (IF ~quitting /\ method = "call" THEN {hostNext} ELSE {})
  BY RequestSent
<1>2. /\ hostNext <= MaxHostIds /\ hostNext' = hostNext + 1
      /\ Write(Request(hostNext, method, target))
      /\ hostOutstanding' = outstanding \cup {hostNext}
      /\ cancelledBy' = [cancelledBy EXCEPT ![hostNext] = target]
  BY DEF SendRequest
<1>3. /\ hostNext \in HostIds /\ cancelledBy \in [HostIds -> 0..MaxHostIds]
      /\ toProvider \in Seq(Messages) /\ toHost \in Seq(Messages)
      /\ SentIds \cup sdkOutstanding \subseteq HostIds
  BY <1>2, NextIsNew DEF LinkInv, LinkTyped, HostTyped, WireTyped
<1>4. cancelledBy'[hostNext] = target
      /\ \A x \in HostIds : x # hostNext => cancelledBy'[x] = cancelledBy[x]
  BY <1>2, <1>3
<1>5. AnsweredIds' = AnsweredIds
  BY AnsweredTheSame
<1>6. Sends(outstanding, method, target)
  BY <1>1, <1>2, <1>4, <1>5 DEF Sends, sdkVars
<1>7. IdsInOrder' /\ CancelsTell' /\ WaitsKept
  BY <1>6, SendKeepsOrder, SendKeepsCancels, SendKeepsWaits
<1>8. SlotsTell'
  BY <1>6, SendKeepsSlots DEF CanSend
<1>9. AllExpected'
  BY <1>7, StillExpected
<1>10. AllDue'
  <2>1. ASSUME NEW x \in SentIds \cup sdkOutstanding PROVE LinkDue(x)'
    <3>1. LinkDue(x) /\ x \in HostIds
      BY <1>3 DEF LinkInv, AllDue
    <3> QED
      BY <1>7, <3>1, StillDue
  <2>2. ASSUME NEW x, x = hostNext PROVE LinkDue(x)'
    BY <1>2, <2>2 DEF LinkDue, WaitedIds
  <2>3. ASSUME NEW x \in SentIds' \cup sdkOutstanding' PROVE LinkDue(x)'
    <3>1. x \in SentIds \cup sdkOutstanding \/ x = hostNext
      BY <1>1, <2>3 DEF sdkVars
    <3> QED
      BY <2>1, <2>2, <3>1
  <2> QED
    BY <2>3 DEF AllDue
<1>11. HandshakeTells'
  <2>1. HandshakeTells /\ hostReady /\ hostReady'
    BY DEF LinkInv, CanSend
  <2>2. \A m \in InTransit(toHost') : m \in InTransit(toHost)
    OBVIOUS
  <2> QED
    BY <2>1, <2>2, HandshakeStays
<1>12. SdkRequestsTell'
  <2>1. Request(hostNext, method, target) \in Messages
    BY <1>3, MessagesTyped
  <2>2. Carried(toProvider', toProvider, "response")
    BY <1>2, <1>3, <2>1, WriteCarries DEF Request
  <2>3. Carried(toHost', toHost, "request")
    BY <1>3, UnreadCarries
  <2> QED
    BY <2>2, <2>3, CarriedTells DEF LinkInv, sdkVars
<1>13. SlotsSuffice' /\ linkOpen'
  BY DEF LinkInv, SlotsSuffice, blame
<1> QED
  BY <1>1, <1>7, <1>8, <1>9, <1>10, <1>11, <1>12, <1>13 DEF LinkInv

(* HostRequests: a call *)
LEMMA HostRequestsKeeps ==
  ASSUME LinkInv, linkOpen, UNCHANGED linkOpen, HostRequests
  PROVE  LinkInv'
<1>1. LinkTyped' /\ 0 \in 0..MaxHostIds
  BY HostStepTyped, LinkBounds DEF LinkInv
<1>2. Frees(hostOutstanding, "call", 0)
  BY DEF HostRequests, Frees
<1> QED
  BY <1>1, <1>2, SendKeeps DEF HostRequests

(* HostCancels: the slot of the request is freed for the cancel request. *)
LEMMA HostCancelsKeeps ==
  ASSUME LinkInv, linkOpen, UNCHANGED linkOpen, NEW r \in HostIds, HostCancels(r)
  PROVE  LinkInv'
<1>1. LinkTyped'
  BY HostStepTyped DEF LinkInv
<1>2. r \in 0..MaxHostIds /\ r # 0
  BY LinkBounds DEF HostIds
<1>3. Frees(hostOutstanding \ {r}, "cancel", r)
  BY DEF HostCancels, Frees
<1>4. hostOutstanding \ {r} \in SUBSET hostOutstanding
  OBVIOUS
<1> QED
  BY <1>1, <1>2, <1>3, <1>4, SendKeeps DEF HostCancels

(* A stop that is not sent changes nothing that is counted. *)
LEMMA HostStopsKeeps ==
  ASSUME LinkInv, linkOpen, UNCHANGED linkOpen, HostStops
  PROVE  LinkInv'
<1>1. LinkTyped' /\ 0 \in 0..MaxHostIds
  BY HostStepTyped, LinkBounds DEF LinkInv
<1>2. CASE CanSend(hostOutstanding)
  <2>1. Frees(hostOutstanding, "shutdown", 0)
    BY DEF HostStops, Frees
  <2>2. SendRequest(hostOutstanding, "shutdown", 0)
    BY <1>2 DEF HostStops, Shutdown
  <2> QED
    BY <1>1, <1>2, <2>1, <2>2, SendKeeps DEF HostStops
<1>3. CASE ~CanSend(hostOutstanding)
  <2>1. UNCHANGED <<hostReady, hostOutstanding, hostNext, cancelledBy, overdue, toProvider, toHost,
                    sdkVars, blame, linkOpen>>
    BY <1>3 DEF HostStops, Shutdown
  <2>2. SentIds' = SentIds /\ CallIds' = CallIds /\ AnsweredIds' = AnsweredIds
        /\ WaitedIds' = WaitedIds
    BY <2>1, SentTheSame, AnsweredTheSame DEF WaitedIds
  <2>3. RequestsTell' /\ IdsInOrder' /\ CancelsTell'
    BY <2>1, <2>2 DEF LinkInv, RequestsTell, IdsInOrder, CancelsTell, InRequestOrder, InTransit, sdkVars
  <2>4. AllDue' /\ AllExpected'
    BY <2>1, <2>2 DEF LinkInv, AllDue, AllExpected, LinkDue, Expected, sdkVars
  <2>5. SlotsTell' /\ HandshakeTells'
    BY <2>1, <2>2 DEF LinkInv, SlotsTell, HandshakeTells, OwedIds, WastedIds, InTransit, sdkVars
  <2>6. SdkRequestsTell' /\ SlotsSuffice' /\ linkOpen'
    BY <2>1 DEF LinkInv, SdkRequestsTell, SlotsSuffice, sdkVars, blame
  <2> QED
    BY <1>1, <2>3, <2>4, <2>5, <2>6 DEF LinkInv
<1> QED
  BY <1>2, <1>3

(* A request that times out leaves a slot, so that the shutdown is sent. *)
LEMMA HostTimesOutKeeps ==
  ASSUME LinkInv, linkOpen, UNCHANGED linkOpen, NEW r \in HostIds, HostTimesOut(r)
  PROVE  LinkInv'
<1>1. LinkTyped' /\ 0 \in 0..MaxHostIds
  BY HostStepTyped, LinkBounds DEF LinkInv
<1>2. r \in hostOutstanding /\ hostOutstanding \in SUBSET HostIds
  BY SlotSets DEF HostTimesOut
<1>3. hostReady
  BY <1>2 DEF LinkInv, HandshakeTells
<1>4. Cardinality(hostOutstanding \ {r}) < MaxInFlight
  <2>1. Cardinality(hostOutstanding \ {r}) = Cardinality(hostOutstanding) - 1
        /\ Cardinality(hostOutstanding) \in Nat
    BY <1>2, Counted
  <2>2. Cardinality(hostOutstanding) <= MaxInFlight
    BY DEF LinkInv, SlotsTell
  <2> QED
    BY <2>1, <2>2, LinkBounds
<1>5. CanSend(hostOutstanding \ {r}) /\ SendRequest(hostOutstanding \ {r}, "shutdown", 0)
  BY <1>3, <1>4 DEF CanSend, HostTimesOut, Shutdown
<1>6. Frees(hostOutstanding \ {r}, "shutdown", 0)
  BY <1>2 DEF HostTimesOut, Frees
<1>7. hostOutstanding \ {r} \in SUBSET hostOutstanding
  OBVIOUS
<1> QED
  BY <1>1, <1>5, <1>6, <1>7, SendKeeps DEF HostTimesOut

-----------------------------------------------------------------------------
(* The supervisor reads *)

(* Its greeting and its responses are no requests. *)
LEMMA ReplyWritten ==
  ASSUME LinkInv, linkOpen, NEW m \in Messages, m.type # "request", m.method = "", Write(m),
         UNCHANGED cancelledBy
  PROVE  RequestsTell' /\ SentIds' = SentIds /\ CallIds' = CallIds
<1>1. RequestsTell /\ toProvider \in Seq(Messages)
  BY DEF LinkInv, LinkTyped, WireTyped
<1>2. CASE quitting
  <2>1. toProvider' = toProvider
    BY <1>2 DEF Write
  <2> QED
    BY <1>1, <2>1, SentTheSame DEF RequestsTell, InRequestOrder, InTransit
<1>3. CASE ~quitting
  <2>1. IsLonger(toProvider', toProvider, m)
    <3>1. PICK new : new = toProvider'
      OBVIOUS
    <3>2. new = Append(toProvider, m)
      BY <1>3, <3>1 DEF Write
    <3>3. IsLonger(new, toProvider, m)
      BY <1>1, <3>2, OneMessageMore
    <3> QED
      BY <3>1, <3>3
  <2>2. InTransit(toProvider') = InTransit(toProvider) \cup {m}
    BY <2>1 DEF IsLonger
  <2>3. InRequestOrder(toProvider')
    <3>1. \A i \in 1..Len(toProvider') :
            toProvider'[i].type = "request" => i \in 1..Len(toProvider) /\ toProvider'[i] = toProvider[i]
      <4> SUFFICES ASSUME NEW i \in 1..Len(toProvider'), toProvider'[i].type = "request"
                   PROVE  i \in 1..Len(toProvider) /\ toProvider'[i] = toProvider[i]
        OBVIOUS
      <4>1. /\ Len(toProvider') = Len(toProvider) + 1 /\ Len(toProvider) \in Nat
            /\ toProvider'[Len(toProvider) + 1] = m
            /\ \A j \in 1..Len(toProvider) : toProvider'[j] = toProvider[j]
        BY <2>1 DEF IsLonger
      <4>2. ASSUME i = Len(toProvider) + 1 PROVE FALSE
        <5>1. toProvider'[i] = m
          BY <4>1, <4>2
        <5>2. m.type = "request"
          BY <5>1
        <5> QED
          BY <5>2
      <4>3. i \in 1..Len(toProvider)
        <5>1. i \in 1..Len(toProvider) + 1
          BY <4>1
        <5> QED
          BY <4>1, <4>2, <5>1, LastOrBefore
      <4> QED
        BY <4>1, <4>3
    <3> QED
      BY <1>1, <3>1 DEF RequestsTell, InRequestOrder
  <2>4. RequestsTell'
    BY <1>1, <2>2, <2>3 DEF RequestsTell
  <2>5. SentIds' = SentIds /\ CallIds' = CallIds
    BY <2>2 DEF SentIds, CallIds, IsRequest
  <2> QED
    BY <2>4, <2>5
<1> QED
  BY <1>2, <1>3

(* What is answered is freed when the answer is read. *)
Takes(D) ==
  /\ D \subseteq AnsweredIds
  /\ AnsweredIds' = AnsweredIds \ D /\ hostOutstanding' = hostOutstanding \ D
  /\ SentIds' = SentIds /\ CallIds' = CallIds
  /\ UNCHANGED <<hostNext, cancelledBy, overdue, sdkVars>>

(* Reading answers changes neither what is owed nor what is waited for. *)
LEMMA TakingKeeps ==
  ASSUME LinkInv, linkOpen, NEW D, Takes(D)
  PROVE  IdsInOrder' /\ CancelsTell' /\ AllDue' /\ SlotsTell'
<1>1. /\ D \subseteq AnsweredIds
      /\ AnsweredIds' = AnsweredIds \ D /\ hostOutstanding' = hostOutstanding \ D
      /\ SentIds' = SentIds /\ CallIds' = CallIds /\ hostNext' = hostNext
      /\ cancelledBy' = cancelledBy /\ overdue' = overdue /\ sdkOutstanding' = sdkOutstanding
      /\ quitting' = quitting
  BY DEF Takes, sdkVars
<1>2. IdsInOrder'
  BY <1>1 DEF LinkInv, IdsInOrder
<1>3. CancelsTell'
  BY <1>1 DEF LinkInv, CancelsTell
<1>4. \A x \in SentIds \cup sdkOutstanding : x \notin D
  <2>1. ASSUME NEW x \in SentIds, x \in D PROVE FALSE
    <3>1. x < x /\ x \in Nat
      BY <1>1, <2>1 DEF LinkInv, IdsInOrder, SentIds, HostIds
    <3> QED
      BY <3>1
  <2>2. ASSUME NEW x \in sdkOutstanding, x \in D PROVE FALSE
    BY <1>1, <2>2 DEF LinkInv, IdsInOrder
  <2> QED
    BY <2>1, <2>2
<1>5. AllDue'
  <2>1. ASSUME NEW x \in SentIds \cup sdkOutstanding PROVE LinkDue(x)'
    <3>1. LinkDue(x) /\ x \notin D
      BY <1>4 DEF LinkInv, AllDue
    <3>2. \A c \in WaitedIds : c \notin D => c \in WaitedIds'
      BY <1>1 DEF WaitedIds
    <3>3. \A c : c \notin AnsweredIds => c \notin D /\ c \notin AnsweredIds'
      BY <1>1
    <3> QED
      BY <1>1, <3>1, <3>2, <3>3 DEF LinkDue
  <2> QED
    BY <1>1, <2>1 DEF AllDue
<1>6. hostOutstanding' \ AnsweredIds' = hostOutstanding \ AnsweredIds
  BY <1>1
<1>7. OwedIds' = OwedIds /\ CallIds' \cup sdkOutstanding' = CallIds \cup sdkOutstanding
  BY <1>1 DEF OwedIds, WastedIds
<1>8. Cardinality(hostOutstanding') <= MaxInFlight
  <2>1. hostOutstanding \ D \in SUBSET HostIds /\ hostOutstanding \in SUBSET HostIds
    BY SlotSets
  <2>2. /\ Cardinality(hostOutstanding \ D) <= Cardinality(hostOutstanding)
        /\ Cardinality(hostOutstanding \ D) \in Nat /\ Cardinality(hostOutstanding) \in Nat
    BY <2>1, Fewer
  <2> QED
    BY <1>1, <2>2, LinkBounds DEF LinkInv, SlotsTell
<1>9. SlotsTell'
  <2>1. SlotsTell
    BY DEF LinkInv
  <2>2. ~quitting => hostOutstanding' \subseteq SentIds' \cup sdkOutstanding' \cup AnsweredIds'
    BY <1>1, <2>1 DEF SlotsTell
  <2> QED
    BY <1>1, <1>6, <1>7, <1>8, <2>1, <2>2 DEF SlotsTell
<1> QED
  BY <1>2, <1>3, <1>5, <1>9

(* The supervisor answers a request of the provider that it has read. *)
LEMMA ProviderAnswered ==
  ASSUME SdkRequestsTell, toHost \in Seq(Messages), toProvider \in Seq(Messages),
         toHost # <<>>, toHost' = Tail(toHost), Head(toHost).type = "request",
         Write(Response(Head(toHost).id)), UNCHANGED <<sdkRequests, sdkNext>>
  PROVE  SdkRequestsTell'
<1> DEFINE x == Head(toHost).id
           m == Response(x)
           k == Len(toProvider)
<1>1. /\ toHost[1].type = "request" /\ toHost[1].id = x /\ 1 \in 1..Len(toHost)
      /\ Head(toHost) \in Messages
  BY FirstMessageRead
<1>2. m \in Messages /\ m.type = "response" /\ m.id = x
  BY <1>1, MessagesTyped DEF Response
<1>3. IsLater(toHost', toHost)
  <2>1. PICK new : new = toHost'
    OBVIOUS
  <2>2. IsLater(new, toHost)
    BY <2>1, TailIsLater
  <2> QED
    BY <2>1, <2>2
<1>4. Carried(toHost', toHost, "request")
  <2>1. PICK new : new = toHost'
    OBVIOUS
  <2>2. Carried(new, toHost, "request")
    BY <1>3, <2>1, LaterCarries
  <2> QED
    BY <2>1, <2>2
<1>5. CASE quitting
  <2>1. toProvider' = toProvider
    BY <1>5 DEF Write
  <2>2. Carried(toProvider', toProvider, "response")
    BY <2>1, UnwrittenCarries
  <2> QED
    BY <1>4, <2>2, CarriedTells
<1>6. CASE ~quitting
  <2>1. IsLonger(toProvider', toProvider, m)
    <3>1. PICK new : new = toProvider'
      OBVIOUS
    <3>2. new = Append(toProvider, m)
      BY <1>6, <3>1 DEF Write
    <3>3. IsLonger(new, toProvider, m)
      BY <1>2, <3>2, OneMessageMore
    <3> QED
      BY <3>1, <3>3
  <2> HIDE DEF m, x
  <2>2. /\ Len(toProvider') = k + 1 /\ k \in Nat /\ toProvider'[k + 1] = m
        /\ \A i \in 1..k : toProvider'[i] = toProvider[i]
    BY <2>1 DEF IsLonger
  <2>3. \A i \in 1..k + 1 : i \in 1..k \/ i = k + 1
    BY <2>2
  <2>4. \A i \in 1..Len(toHost') : /\ i + 1 \in 1..Len(toHost) /\ i + 1 # 1 /\ toHost'[i] = toHost[i + 1]
    BY <1>3 DEF IsLater
  <2>5. \A i \in 1..Len(toHost') : toHost'[i].type = "request" =>
          toHost'[i].id \in sdkRequests /\ toHost'[i].id # x
    BY <1>1, <2>4 DEF SdkRequestsTell
  <2>6. \A i \in 1..k : toProvider[i].type = "response" => toProvider[i].id # x
    BY <1>1 DEF SdkRequestsTell
  <2>7. x \in sdkRequests
    BY <1>1 DEF SdkRequestsTell
  <2>8. \A i, j \in 1..Len(toHost') :
          toHost'[i].type = "request" /\ toHost'[j].type = "request" /\ toHost'[i].id = toHost'[j].id
            => i = j
    <3> SUFFICES ASSUME NEW i \in 1..Len(toHost'), NEW j \in 1..Len(toHost'),
                        toHost'[i].type = "request", toHost'[j].type = "request",
                        toHost'[i].id = toHost'[j].id
                 PROVE  i = j
      OBVIOUS
    <3>1. i + 1 = j + 1
      BY <2>4 DEF SdkRequestsTell
    <3> QED
      BY <3>1
  <2>9. \A i \in 1..k + 1 : toProvider'[i].type = "response" => toProvider'[i].id \in sdkRequests
    BY <1>2, <2>2, <2>3, <2>7 DEF SdkRequestsTell
  <2>10. \A i, j \in 1..k + 1 :
           toProvider'[i].type = "response" /\ toProvider'[j].type = "response"
             /\ toProvider'[i].id = toProvider'[j].id => i = j
    <3>1. \A i, j \in 1..k :
            toProvider[i].type = "response" /\ toProvider[j].type = "response"
              /\ toProvider[i].id = toProvider[j].id => i = j
      BY DEF SdkRequestsTell
    <3> QED
      BY <1>2, <2>2, <2>3, <2>6, <3>1
  <2>11. \A i \in 1..Len(toHost'), j \in 1..k + 1 :
           ~(toHost'[i].type = "request" /\ toProvider'[j].type = "response"
             /\ toHost'[i].id = toProvider'[j].id)
    <3> SUFFICES ASSUME NEW i \in 1..Len(toHost'), NEW j \in 1..k + 1,
                        toHost'[i].type = "request", toProvider'[j].type = "response",
                        toHost'[i].id = toProvider'[j].id
                 PROVE  FALSE
      OBVIOUS
    <3>1. CASE j \in 1..k
      BY <2>2, <2>4, <3>1 DEF SdkRequestsTell
    <3>2. CASE j = k + 1
      BY <1>2, <2>2, <2>5, <3>2
    <3> QED
      BY <2>3, <3>1, <3>2
  <2>12. \A y \in sdkRequests' : y < sdkNext'
    BY DEF SdkRequestsTell
  <2> QED
    BY <2>2, <2>5, <2>8, <2>9, <2>10, <2>11, <2>12 DEF SdkRequestsTell
<1> QED
  BY <1>5, <1>6

(* HostReads: the greeting, a request of the provider or a response *)
LEMMA HostReadsKeeps ==
  ASSUME LinkInv, linkOpen, UNCHANGED linkOpen, HostReads
  PROVE  LinkInv'
<1> DEFINE m == Head(toHost)
<1>1. LinkTyped'
  BY HostStepTyped DEF LinkInv
<1>2. /\ toHost \in Seq(Messages) /\ toProvider \in Seq(Messages) /\ SdkRequestsTell
      /\ hostOutstanding \subseteq HostIds /\ HandshakeTells
  BY DEF LinkInv, LinkTyped, WireTyped, HostTyped
<1>3. toHost # <<>> /\ toHost' = Tail(toHost)
      /\ UNCHANGED <<hostNext, cancelledBy, overdue, sdkVars, refusals, strays>>
  BY DEF HostReads
<1>4. /\ m \in Messages /\ m \in InTransit(toHost)
      /\ IsLater(toHost', toHost) /\ \A k \in InTransit(toHost') : k \in InTransit(toHost)
  <2>1. PICK new : new = toHost'
    OBVIOUS
  <2>2. /\ m \in Messages /\ m \in InTransit(toHost)
        /\ InTransit(toHost) = InTransit(new) \cup {m}
    BY <1>2, <1>3, <2>1, FirstMessageRead
  <2>3. IsLater(new, toHost)
    BY <1>2, <1>3, <2>1, TailIsLater
  <2> HIDE DEF m
  <2> QED
    BY <2>1, <2>2, <2>3
<1>5. Carried(toHost', toHost, "request")
  <2>1. PICK new : new = toHost'
    OBVIOUS
  <2>2. Carried(new, toHost, "request")
    BY <1>4, <2>1, LaterCarries
  <2> QED
    BY <2>1, <2>2
<1>6. m.type \in {"hello", "request", "response"}
  BY <1>4 DEF Messages
<1>7. UNCHANGED <<sdkRequests, sdkNext>>
  BY <1>3 DEF sdkVars
<1>8. SlotsSuffice' /\ linkOpen'
  BY <1>3 DEF LinkInv, SlotsSuffice
<1>9. ASSUME NEW D, Takes(D), RequestsTell', AllExpected', HandshakeTells', SdkRequestsTell'
      PROVE  LinkInv'
  <2>1. IdsInOrder' /\ CancelsTell' /\ AllDue' /\ SlotsTell'
    BY <1>9, TakingKeeps
  <2> QED
    BY <1>1, <1>8, <1>9, <2>1 DEF LinkInv
<1> HIDE DEF m
<1>10. ASSUME m.type # "response", UNCHANGED hostOutstanding
       PROVE  AllExpected' /\ AnsweredIds' = AnsweredIds
  BY <1>3, <1>10, FirstTaken DEF m
<1>11. ASSUME m.type # "response", UNCHANGED hostOutstanding,
              SentIds' = SentIds, CallIds' = CallIds
       PROVE  Takes({})
  BY <1>3, <1>10, <1>11 DEF Takes
<1>12. CASE ~hostReady
  <2>1. hostReady' = TRUE /\ Write(Hello) /\ UNCHANGED hostOutstanding
    BY <1>12 DEF HostReads
  <2>2. toHost = <<Hello>>
    BY <1>2, <1>12 DEF HandshakeTells
  <2>3. m = Hello /\ toHost' = <<>>
    BY <1>3, <2>2 DEF m
  <2>4. Hello \in Messages /\ Hello.type = "hello" /\ Hello.method = ""
    BY MessagesTyped DEF Hello
  <2>5. RequestsTell' /\ SentIds' = SentIds /\ CallIds' = CallIds
    BY <1>3, <2>1, <2>4, ReplyWritten
  <2>6. Takes({}) /\ AllExpected'
    BY <1>10, <1>11, <2>1, <2>3, <2>4, <2>5
  <2>7. HandshakeTells'
    BY <2>1, <2>3 DEF HandshakeTells, InTransit
  <2>8. Carried(toProvider', toProvider, "response")
    BY <1>2, <2>1, <2>4, WriteCarries
  <2>9. SdkRequestsTell'
    BY <1>2, <1>5, <1>7, <2>8, CarriedTells
  <2> QED
    BY <1>9, <2>5, <2>6, <2>7, <2>9
<1>13. CASE hostReady /\ m.type = "request"
  <2>1. hostReady' = hostReady /\ Write(Response(m.id)) /\ UNCHANGED hostOutstanding
    BY <1>13 DEF HostReads, m
  <2>2. Response(m.id) \in Messages /\ Response(m.id).type = "response" /\ Response(m.id).method = ""
    BY <1>4, MessagesTyped DEF Response
  <2>3. RequestsTell' /\ SentIds' = SentIds /\ CallIds' = CallIds
    BY <1>3, <2>1, <2>2, ReplyWritten
  <2>4. Takes({}) /\ AllExpected'
    BY <1>10, <1>11, <1>13, <2>1, <2>3
  <2>5. HandshakeTells'
    BY <1>2, <1>4, <1>13, <2>1, HandshakeStays
  <2>6. SdkRequestsTell'
    BY <1>2, <1>3, <1>7, <1>13, <2>1, ProviderAnswered DEF m
  <2> QED
    BY <1>9, <2>3, <2>4, <2>5, <2>6
<1>14. CASE hostReady /\ m.type = "response"
  <2>1. /\ hostReady' = hostReady /\ toProvider' = toProvider
        /\ hostOutstanding' = hostOutstanding \ {m.id}
    BY <1>14 DEF HostReads, m
  <2>2. AllExpected' /\ m.id \in AnsweredIds /\ AnsweredIds' = AnsweredIds \ {m.id}
    BY <1>3, <1>14, <2>1, FirstTaken DEF m
  <2>3. SentIds' = SentIds /\ CallIds' = CallIds
    BY <2>1, SentTheSame
  <2>4. Takes({m.id})
    BY <1>3, <2>1, <2>2, <2>3 DEF Takes
  <2>5. RequestsTell'
    BY <1>3, <2>1 DEF LinkInv, RequestsTell, InRequestOrder, InTransit
  <2>6. HandshakeTells'
    BY <1>2, <1>4, <1>14, <2>1, HandshakeStays
  <2>7. Carried(toProvider', toProvider, "response")
    BY <1>2, <2>1, UnwrittenCarries
  <2>8. SdkRequestsTell'
    BY <1>2, <1>5, <1>7, <2>7, CarriedTells
  <2> QED
    BY <1>9, <2>2, <2>4, <2>5, <2>6, <2>8
<1>15. hostReady => m.type # "hello"
  BY <1>2, <1>4 DEF HandshakeTells
<1> QED
  BY <1>6, <1>12, <1>13, <1>14, <1>15

-----------------------------------------------------------------------------
(* The provider handles a request, or completes one *)
LEMMA SetsTyped ==
  ASSUME LinkInv, linkOpen
  PROVE  /\ SentIds \subseteq HostIds /\ CallIds \subseteq SentIds /\ WastedIds \subseteq SentIds
         /\ AnsweredIds \subseteq HostIds
         /\ sdkOutstanding \subseteq HostIds /\ hostOutstanding \subseteq HostIds
         /\ \A x \in SentIds : x \notin sdkOutstanding /\ x \notin AnsweredIds
<1>1. SentIds \subseteq HostIds /\ CallIds \subseteq SentIds /\ WastedIds \subseteq SentIds
      /\ AnsweredIds \subseteq HostIds
  BY DEF SentIds, CallIds, WastedIds, AnsweredIds
<1>2. sdkOutstanding \subseteq HostIds /\ hostOutstanding \subseteq HostIds
  BY DEF LinkInv, LinkTyped, HostTyped, SdkTyped
<1>3. ASSUME NEW x \in SentIds, x \in sdkOutstanding \cup AnsweredIds PROVE FALSE
  <2>1. x < x /\ x \in Nat
    BY <1>1, <1>3 DEF LinkInv, IdsInOrder, HostIds
  <2> QED
    BY <2>1
<1> QED
  BY <1>1, <1>2, <1>3

Progress(id) ==
  /\ SentIds' \subseteq SentIds /\ \A x \in SentIds' : id < x
  /\ SentIds' \cup sdkOutstanding' \subseteq SentIds \cup sdkOutstanding
  /\ sdkOutstanding' \cup AnsweredIds' \subseteq sdkOutstanding \cup AnsweredIds \cup {id}
  /\ sdkOutstanding' \cap AnsweredIds' = {}
  /\ AnsweredIds' \subseteq AnsweredIds \cup {id}
  /\ \A x \in SentIds' \cup sdkOutstanding' : cancelledBy[id] # x
  /\ \A x \in sdkOutstanding' : cancelledBy[x] = 0

(* The provider deals with a request: the IDs stay in order, the cancels are what *)
(* they were, and the supervisor still waits for what is left.                    *)
LEMMA ProgressKeeps ==
  ASSUME LinkInv, linkOpen, NEW id \in SentIds \cup sdkOutstanding, UNCHANGED hostVars, Progress(id)
  PROVE  IdsInOrder' /\ CancelsTell' /\ AllDue'
<1>1. /\ hostNext' = hostNext /\ cancelledBy' = cancelledBy /\ hostOutstanding' = hostOutstanding
      /\ overdue' = overdue /\ WaitedIds' = WaitedIds
  BY DEF hostVars, WaitedIds
<1>2. IdsInOrder'
  <2>1. \A x \in SentIds \cup sdkOutstanding \cup AnsweredIds \cup hostOutstanding \cup overdue :
          x < hostNext
    BY DEF LinkInv, IdsInOrder
  <2>2. \A x \in SentIds' \cup sdkOutstanding' \cup AnsweredIds' \cup hostOutstanding' \cup overdue' :
          x < hostNext'
    BY <1>1, <2>1 DEF Progress
  <2>3. \A x \in sdkOutstanding' \cup AnsweredIds', y \in SentIds' : x < y
    <3>1. \A x \in sdkOutstanding \cup AnsweredIds, y \in SentIds : x < y
      BY DEF LinkInv, IdsInOrder
    <3> QED
      BY <3>1 DEF Progress
  <2> QED
    BY <2>2, <2>3 DEF IdsInOrder, Progress
<1>3. CancelsTell'
  BY <1>1 DEF LinkInv, CancelsTell, Progress
<1>4. AllDue'
  <2>1. ASSUME NEW x \in SentIds' \cup sdkOutstanding' PROVE LinkDue(x)'
    <3>1. LinkDue(x) /\ cancelledBy[id] # x
      BY <2>1 DEF LinkInv, AllDue, Progress
    <3>2. \A c : c \notin AnsweredIds /\ c # id => c \notin AnsweredIds'
      BY DEF Progress
    <3>3. \A c \in WaitedIds \ AnsweredIds : cancelledBy[c] = x =>
            c \in WaitedIds' \ AnsweredIds' /\ cancelledBy'[c] = x
      BY <1>1, <3>1, <3>2
    <3> QED
      BY <1>1, <3>1, <3>3 DEF LinkDue
  <2> QED
    BY <2>1 DEF AllDue
<1> QED
  BY <1>2, <1>3, <1>4

(* The provider never has more to do than it may. *)
LEMMA CallsFit ==
  ASSUME LinkInv, linkOpen
  PROVE  Cardinality(CallIds \cup sdkOutstanding) <= MaxInFlight
<1> DEFINE X == CallIds \cup sdkOutstanding
           Y == hostOutstanding \ AnsweredIds
<1>1. X \in SUBSET HostIds /\ Y \in SUBSET HostIds /\ X \subseteq OwedIds /\ OwedIds \in SUBSET HostIds
      /\ hostOutstanding \in SUBSET HostIds /\ Y \subseteq hostOutstanding
  BY SlotSets
<1>2. SlotsTell
  BY DEF LinkInv
<1>3. CASE quitting
  BY <1>2, <1>3 DEF SlotsTell
<1>4. CASE ~quitting
  <2>1. Cardinality(OwedIds) <= Cardinality(Y) /\ Cardinality(hostOutstanding) <= MaxInFlight
    BY <1>2, <1>4 DEF SlotsTell
  <2> HIDE DEF X, Y
  <2>2. Cardinality(X) <= Cardinality(OwedIds) /\ Cardinality(X) \in Nat /\ Cardinality(OwedIds) \in Nat
    BY <1>1, Fewer
  <2>3. Cardinality(Y) <= Cardinality(hostOutstanding) /\ Cardinality(Y) \in Nat
        /\ Cardinality(hostOutstanding) \in Nat
    BY <1>1, Fewer
  <2>4. Cardinality(X) <= MaxInFlight
    BY <2>1, <2>2, <2>3, LinkBounds
  <2> QED
    BY <2>4 DEF X
<1> QED
  BY <1>3, <1>4

(* What is owed does not grow, and what is expected does not shrink, by more. *)
LEMMA SlotsStay ==
  ASSUME LinkInv, linkOpen, UNCHANGED hostOutstanding,
         CallIds' \cup sdkOutstanding' \subseteq CallIds \cup sdkOutstanding,
         quitting' = quitting \/ quitting',
         ~quitting' => /\ ~quitting
                       /\ hostOutstanding \subseteq SentIds' \cup sdkOutstanding' \cup AnsweredIds'
                       /\ NoMore(OwedIds', hostOutstanding' \ AnsweredIds')
  PROVE  SlotsTell'
<1>1. Cardinality(hostOutstanding') <= MaxInFlight
  BY DEF LinkInv, SlotsTell
<1>2. Cardinality(CallIds' \cup sdkOutstanding') <= MaxInFlight
  <2> DEFINE X == CallIds \cup sdkOutstanding
             X2 == CallIds' \cup sdkOutstanding'
  <2>1. X \in SUBSET HostIds /\ X2 \in SUBSET HostIds /\ X2 \subseteq X
    BY SlotSets
  <2>2. Cardinality(X) <= MaxInFlight
    BY CallsFit
  <2> HIDE DEF X, X2
  <2>3. Cardinality(X2) <= Cardinality(X) /\ Cardinality(X2) \in Nat /\ Cardinality(X) \in Nat
    BY <2>1, Fewer
  <2>4. Cardinality(X2) <= MaxInFlight
    BY <2>2, <2>3, LinkBounds
  <2> QED
    BY <2>4 DEF X2
<1> QED
  BY <1>1, <1>2 DEF SlotsTell, NoMore

(* The message that the provider reads *)
LEMMA MessageRead ==
  ASSUME LinkInv, linkOpen, toProvider # <<>>, NEW m, m = Head(toProvider)
  PROVE  /\ m \in Messages /\ m \in InTransit(toProvider) /\ hostReady
         /\ m.method # "" => m.type = "request"
         /\ m.type = "request" => /\ m.id \in SentIds /\ m.id \in HostIds /\ m.target = cancelledBy[m.id]
                                  /\ m.method = "cancel" <=> cancelledBy[m.id] # 0
         /\ m.method = "call" => m.id \in CallIds
<1>1. m \in Messages /\ m \in InTransit(toProvider)
  BY FirstMessageRead DEF LinkInv, LinkTyped, WireTyped
<1>2. RequestsTell /\ HandshakeTells
  BY DEF LinkInv
<1>3. hostReady
  BY <1>2 DEF HandshakeTells
<1>4. m.method # "" => m.type = "request"
  BY <1>1, <1>2 DEF RequestsTell
<1>5. m.type = "request" => /\ m.id \in HostIds /\ m.target = cancelledBy[m.id]
                            /\ m.method = "cancel" <=> cancelledBy[m.id] # 0
  BY <1>1, <1>2 DEF RequestsTell
<1>6. m.type = "request" => m.id \in SentIds
  BY <1>1, <1>5 DEF SentIds, IsRequest
<1>7. m.method = "call" => m.id \in CallIds
  BY <1>1, <1>4, <1>5 DEF CallIds, IsRequest
<1> QED
  BY <1>1, <1>3, <1>4, <1>5, <1>6, <1>7

(* What the provider writes is a response, or nothing. *)
LEMMA ResponseCarries ==
  ASSUME LinkInv, linkOpen, NEW id \in HostIds, Respond(id)
  PROVE  /\ Carried(toHost', toHost, "request")
         /\ \A m \in InTransit(toHost') : m \in InTransit(toHost) \/ m.type # "hello"
<1>1. PICK new : new = toHost'
  OBVIOUS
<1>2. new = Append(toHost, Response(id)) /\ toHost \in Seq(Messages)
  BY <1>1 DEF Respond, LinkInv, LinkTyped, WireTyped
<1>3. PICK m : m = Response(id)
  OBVIOUS
<1>4. m \in Messages /\ m.type = "response"
  BY <1>3, MessagesTyped DEF Response
<1>5. Carried(new, toHost, "request")
  BY <1>2, <1>3, <1>4, WrittenCarries
<1>6. IsLonger(new, toHost, m)
  BY <1>2, <1>3, <1>4, OneMessageMore
<1>7. InTransit(new) = InTransit(toHost) \cup {m}
  BY <1>6 DEF IsLonger
<1> QED
  BY <1>1, <1>4, <1>5, <1>7

(* Reading brings nothing new. *)
LEMMA ReadCarries ==
  ASSUME LinkInv, linkOpen, toProvider # <<>>, toProvider' = Tail(toProvider)
  PROVE  IsLater(toProvider', toProvider) /\ Carried(toProvider', toProvider, "response")
<1>1. PICK new : new = toProvider'
  OBVIOUS
<1>2. IsLater(new, toProvider)
  BY <1>1, TailIsLater DEF LinkInv, LinkTyped, WireTyped
<1>3. Carried(new, toProvider, "response")
  BY <1>2, LaterCarries
<1> QED
  BY <1>1, <1>2, <1>3

(* A response of the provider, to what was due *)
LEMMA RespondKeeps ==
  ASSUME LinkInv, linkOpen, UNCHANGED linkOpen, LinkTyped', UNCHANGED hostVars, hostReady,
         NEW id \in SentIds \cup sdkOutstanding, Respond(id), RequestsTell', SlotsTell',
         AnsweredIds' = AnsweredIds \cup {id} => Progress(id),
         Carried(toProvider', toProvider, "response"),
         UNCHANGED <<sdkRequests, sdkNext, refusals, strays>>
  PROVE  LinkInv'
<1>1. id \in HostIds /\ id \notin AnsweredIds /\ LinkDue(id)
  BY SetsTyped DEF LinkInv, IdsInOrder, AllDue
<1>2. AnsweredIds' = AnsweredIds \cup {id} /\ AllExpected'
  BY <1>1, ResponseWritten
<1>3. IdsInOrder' /\ CancelsTell' /\ AllDue'
  BY <1>2, ProgressKeeps
<1>4. SdkRequestsTell'
  BY <1>1, ResponseCarries, CarriedTells DEF LinkInv
<1>5. HandshakeTells'
  <2>1. HandshakeTells /\ hostReady'
    BY DEF LinkInv, hostVars
  <2>2. \A m \in InTransit(toHost') : m \in InTransit(toHost) \/ m.type # "hello"
    BY <1>1, ResponseCarries
  <2> QED
    BY <2>1, <2>2, HandshakeStays
<1>6. SlotsSuffice' /\ linkOpen'
  BY DEF LinkInv, SlotsSuffice
<1> QED
  BY <1>2, <1>3, <1>4, <1>5, <1>6 DEF LinkInv

(* A cancel frees the slot of what it cancels, or was owed for nothing: it is *)
(* answered, and one is owed less.                                            *)
LEMMA CancelKeepsSlots ==
  ASSUME LinkInv, linkOpen, UNCHANGED hostVars, quitting' = quitting,
         NEW id \in SentIds, cancelledBy[id] # 0,
         \A x \in SentIds' : id < x, SentIds' = SentIds \ {id}, CallIds' = CallIds \ {id},
         sdkOutstanding' = sdkOutstanding \ {cancelledBy[id]},
         AnsweredIds' = AnsweredIds \cup {id}
  PROVE  SlotsTell' /\ Progress(id)
<1> DEFINE t == cancelledBy[id]
           B == cancelledBy
<1>1. /\ SentIds \subseteq HostIds /\ CallIds \subseteq SentIds /\ WastedIds \subseteq SentIds
      /\ sdkOutstanding \subseteq HostIds /\ hostOutstanding \subseteq HostIds
      /\ \A x \in SentIds : x \notin sdkOutstanding
      /\ AnsweredIds \subseteq HostIds
  BY SetsTyped
<1>2. CancelsTell /\ IdsInOrder
  BY DEF LinkInv
<1>3. t \in HostIds /\ t < id /\ t \notin hostOutstanding /\ id \in HostIds
  BY <1>1, <1>2 DEF CancelsTell
<1>4. t \notin SentIds'
  <2>1. t \in Nat /\ id \in Nat /\ ~(id < t)
    BY <1>3 DEF HostIds
  <2> QED
    BY <2>1
<1>5. t # id /\ t \notin SentIds
  <2>1. t \in Nat /\ id \in Nat
    BY <1>3 DEF HostIds
  <2>2. t # id
    BY <1>3, <2>1
  <2> QED
    BY <1>4, <2>2
<1>6. Progress(id)
  <2>1. \A x \in SentIds' \cup sdkOutstanding' : x # t
    BY <1>4
  <2>2. \A x \in sdkOutstanding' : cancelledBy[x] = 0
    BY <1>2 DEF CancelsTell
  <2>3. sdkOutstanding' \cap AnsweredIds' = {}
    BY <1>1, <1>2 DEF IdsInOrder
  <2> QED
    BY <2>1, <2>2, <2>3 DEF Progress
<1>7. CallIds' = CallIds
  BY CallsCancelNothing
<1>8. WastedIds' \subseteq WastedIds \ {id}
  <2> SUFFICES ASSUME NEW c \in WastedIds' PROVE c \in WastedIds /\ c # id
    OBVIOUS
  <2>1. /\ c \in SentIds' /\ B[c] # 0 /\ B[c] \notin SentIds' /\ B[c] \notin sdkOutstanding'
    BY DEF WastedIds, hostVars
  <2>2. c \in SentIds /\ c # id /\ c \in HostIds
    BY <1>1, <2>1
  <2>3. B[c] # t
    BY <1>2, <1>3, <2>1, <2>2 DEF CancelsTell
  <2>4. B[c] # id
    BY <1>2, <2>1, <2>2 DEF CancelsTell
  <2> HIDE DEF t, B
  <2>5. B[c] \notin SentIds \cup sdkOutstanding
    BY <2>1, <2>3, <2>4 DEF t
  <2> QED
    BY <2>1, <2>2, <2>5 DEF WastedIds, B
<1>9. CallIds' \cup sdkOutstanding' \subseteq CallIds \cup sdkOutstanding
  BY <1>7
<1>10. ASSUME ~quitting
       PROVE  /\ hostOutstanding \subseteq SentIds' \cup sdkOutstanding' \cup AnsweredIds'
              /\ NoMore(OwedIds', hostOutstanding' \ AnsweredIds')
  <2> DEFINE Y == hostOutstanding \ AnsweredIds
             Y2 == hostOutstanding' \ AnsweredIds'
             X == OwedIds
             X2 == OwedIds'
  <2>1. hostOutstanding \subseteq SentIds \cup sdkOutstanding \cup AnsweredIds /\ NoMore(X, Y)
    BY <1>10 DEF LinkInv, SlotsTell, NoMore
  <2>2. hostOutstanding \subseteq SentIds' \cup sdkOutstanding' \cup AnsweredIds'
    BY <1>3, <2>1
  <2>3. X \in SUBSET HostIds /\ Y \in SUBSET HostIds /\ X2 \subseteq X /\ Y2 \in SUBSET HostIds
    <3>1. X \in SUBSET HostIds /\ Y \in SUBSET HostIds
      BY SlotSets
    <3>2. X2 \subseteq X
      BY <1>7, <1>8 DEF OwedIds
    <3>3. Y2 \in SUBSET HostIds
      BY <1>1 DEF hostVars
    <3> QED
      BY <3>1, <3>2, <3>3
  <2>4. Left(Y2, Y, id)
    BY DEF Left, hostVars
  <2>5. CASE t \in sdkOutstanding
    <3>1. t \in X /\ t \notin X2
      BY <1>1, <1>4, <1>5, <1>7, <1>8, <2>5 DEF OwedIds
    <3>2. Gone(X2, X, t)
      BY <2>3, <3>1 DEF Gone
    <3> HIDE DEF X, X2, Y, Y2, t
    <3>3. X2 \in SUBSET HostIds
      BY <2>3
    <3>4. NoMore(X2, Y2)
      BY <1>3, <2>1, <2>3, <2>4, <3>2, <3>3, BothShrink
    <3> QED
      BY <2>2, <3>4 DEF X2, Y2
  <2>6. CASE t \notin sdkOutstanding
    <3>1. id \in WastedIds
      BY <1>5, <2>6 DEF WastedIds
    <3>2. id \in X /\ id \notin X2
      BY <1>1, <1>8, <3>1 DEF OwedIds
    <3>3. Gone(X2, X, id)
      BY <2>3, <3>2 DEF Gone
    <3> HIDE DEF X, X2, Y, Y2, t
    <3>4. X2 \in SUBSET HostIds
      BY <2>3
    <3>5. NoMore(X2, Y2)
      BY <1>3, <2>1, <2>3, <2>4, <3>3, <3>4, BothShrink
    <3> QED
      BY <2>2, <3>5 DEF X2, Y2
  <2> QED
    BY <2>5, <2>6
<1>11. hostOutstanding' = hostOutstanding
  BY DEF hostVars
<1>12. SlotsTell'
  BY <1>9, <1>10, <1>11, SlotsStay
<1> QED
  BY <1>6, <1>12

(* SdkReads: a cancel request *)
LEMMA SdkCancelsRequest ==
  ASSUME LinkInv, linkOpen, UNCHANGED linkOpen, LinkTyped', SdkReads,
         Head(toProvider).method = "cancel",
         SdkCancels(Head(toProvider).id, Head(toProvider).target)
  PROVE  LinkInv'
<1> DEFINE m == Head(toProvider)
<1>1. /\ toProvider # <<>> /\ toProvider' = Tail(toProvider)
      /\ UNCHANGED <<hostVars, sdkNext, sdkRequests, quitting, refusals, strays>>
      /\ Respond(m.id) /\ sdkOutstanding' = sdkOutstanding \ {m.target}
  BY DEF SdkReads, SdkCancels
<1>2. /\ hostReady /\ m.type = "request" /\ m.id \in SentIds /\ m.target = cancelledBy[m.id]
      /\ cancelledBy[m.id] # 0
  BY <1>1, MessageRead
<1>3. UNCHANGED cancelledBy /\ quitting' = quitting
  BY <1>1 DEF hostVars
<1>4. /\ RequestsTell' /\ SentIds' = SentIds \ {m.id} /\ CallIds' = CallIds \ {m.id}
      /\ \A x \in SentIds' : m.id < x
  BY <1>1, <1>2, <1>3, FirstRead
<1>5. Carried(toProvider', toProvider, "response")
  BY <1>1, ReadCarries
<1>6. m.id \in HostIds /\ m.id \notin AnsweredIds /\ LinkDue(m.id)
  BY <1>2, SetsTyped DEF LinkInv, AllDue
<1> HIDE DEF m
<1>7. AnsweredIds' = AnsweredIds \cup {m.id}
  BY <1>1, <1>6, ResponseWritten
<1>8. SlotsTell' /\ Progress(m.id)
  BY <1>1, <1>2, <1>3, <1>4, <1>7, CancelKeepsSlots
<1>9. m.id \in SentIds \cup sdkOutstanding
  BY <1>2
<1> QED
  BY <1>1, <1>2, <1>4, <1>5, <1>8, <1>9, RespondKeeps

(* SdkReads: the request to shut down, after which only one chunk is read *)
LEMMA SdkShutsDownKeeps ==
  ASSUME LinkInv, linkOpen, UNCHANGED linkOpen, LinkTyped', SdkReads,
         Head(toProvider).method = "shutdown", SdkShutsDown(Head(toProvider).id)
  PROVE  LinkInv'
<1> DEFINE m == Head(toProvider)
<1>1. /\ toProvider # <<>> /\ Respond(m.id) /\ quitting' = TRUE
      /\ UNCHANGED <<hostVars, sdkNext, sdkRequests, sdkOutstanding, refusals, strays>>
  BY DEF SdkReads, SdkShutsDown
<1>2. /\ hostReady /\ m.type = "request" /\ m.id \in SentIds /\ cancelledBy[m.id] = 0
  BY <1>1, MessageRead
<1>3. UNCHANGED cancelledBy
  BY <1>1 DEF hostVars
<1>4. PICK n \in 1..Len(toProvider) : toProvider' = SubSeq(toProvider, 2, n)
  BY DEF SdkShutsDown
<1>5. IsLater(toProvider', toProvider) /\ Carried(toProvider', toProvider, "response")
  <2>1. PICK new : new = toProvider'
    OBVIOUS
  <2>2. \A i \in 1..Len(new) : i + 1 \in 1..Len(toProvider) /\ new[i] = toProvider[i + 1]
    BY <1>1, <1>4, <2>1, SomeMessagesRead DEF LinkInv, LinkTyped, WireTyped
  <2>3. IsLater(new, toProvider)
    BY <2>2 DEF IsLater
  <2>4. Carried(new, toProvider, "response")
    BY <2>3, LaterCarries
  <2> QED
    BY <2>1, <2>3, <2>4
<1>6. /\ RequestsTell' /\ SentIds' \subseteq SentIds /\ CallIds' \subseteq CallIds
      /\ \A x \in SentIds' : m.id < x
  BY <1>1, <1>2, <1>3, <1>5, LaterTell
<1>7. m.id \in HostIds /\ m.id \notin AnsweredIds /\ LinkDue(m.id) /\ SentIds \subseteq HostIds
      /\ m.id \notin sdkOutstanding /\ sdkOutstanding \subseteq HostIds
  BY <1>2, SetsTyped DEF LinkInv, AllDue
<1> HIDE DEF m
<1>8. AnsweredIds' = AnsweredIds \cup {m.id}
  BY <1>1, <1>7, ResponseWritten
<1>9. Progress(m.id)
  <2>1. \A x \in SentIds' \cup sdkOutstanding' : x # 0
    BY <1>1, <1>6, <1>7, LinkBounds DEF HostIds
  <2>2. \A x \in sdkOutstanding' : cancelledBy[x] = 0
    BY <1>1 DEF LinkInv, CancelsTell
  <2>3. sdkOutstanding' \cap AnsweredIds' = {}
    BY <1>1, <1>7, <1>8 DEF LinkInv, IdsInOrder
  <2> QED
    BY <1>1, <1>2, <1>6, <1>8, <2>1, <2>2, <2>3 DEF Progress
<1>10. SlotsTell'
  <2>1. hostOutstanding' = hostOutstanding
    BY <1>1 DEF hostVars
  <2>2. CallIds' \cup sdkOutstanding' \subseteq CallIds \cup sdkOutstanding
    BY <1>1, <1>6
  <2> QED
    BY <1>1, <2>1, <2>2, SlotsStay
<1>11. m.id \in SentIds \cup sdkOutstanding
  BY <1>2
<1> QED
  BY <1>1, <1>2, <1>5, <1>6, <1>9, <1>10, <1>11, RespondKeeps

(* There is a slot for a request to be invoked: it is not refused. *)
LEMMA InvokeKeepsSlots ==
  ASSUME LinkInv, linkOpen, UNCHANGED hostVars, quitting' = quitting,
         NEW id \in CallIds, \A x \in SentIds' : id < x,
         SentIds' = SentIds \ {id}, CallIds' = CallIds \ {id},
         sdkOutstanding' = sdkOutstanding \cup {id}, AnsweredIds' = AnsweredIds
  PROVE  SlotsTell' /\ Progress(id)
<1> DEFINE B == cancelledBy
<1>1. /\ SentIds \subseteq HostIds /\ CallIds \subseteq SentIds /\ WastedIds \subseteq SentIds
      /\ sdkOutstanding \subseteq HostIds /\ hostOutstanding \subseteq HostIds
      /\ AnsweredIds \subseteq HostIds /\ id \notin AnsweredIds /\ id \in SentIds
  BY SetsTyped
<1>2. cancelledBy[id] = 0
  BY CallsCancelNothing
<1>3. Progress(id)
  <2>1. \A x \in SentIds' \cup sdkOutstanding' : x # 0
    BY <1>1, LinkBounds DEF HostIds
  <2>2. \A x \in sdkOutstanding' : cancelledBy[x] = 0
    BY <1>2 DEF LinkInv, CancelsTell
  <2>3. sdkOutstanding' \cap AnsweredIds' = {}
    BY <1>1 DEF LinkInv, IdsInOrder
  <2> QED
    BY <1>1, <1>2, <2>1, <2>2, <2>3 DEF Progress
<1>4. WastedIds' \subseteq WastedIds
  BY DEF WastedIds, hostVars
<1>5. CallIds' \cup sdkOutstanding' = CallIds \cup sdkOutstanding
  OBVIOUS
<1>6. OwedIds' \subseteq OwedIds
  BY <1>4, <1>5 DEF OwedIds
<1>7. hostOutstanding' = hostOutstanding
  BY DEF hostVars
<1>8. ASSUME ~quitting
      PROVE  /\ hostOutstanding \subseteq SentIds' \cup sdkOutstanding' \cup AnsweredIds'
             /\ NoMore(OwedIds', hostOutstanding' \ AnsweredIds')
  <2>1. hostOutstanding \subseteq SentIds \cup sdkOutstanding \cup AnsweredIds
        /\ Cardinality(OwedIds) <= Cardinality(hostOutstanding \ AnsweredIds)
    BY <1>8 DEF LinkInv, SlotsTell
  <2> DEFINE X == OwedIds
             X2 == OwedIds'
             Y == hostOutstanding \ AnsweredIds
  <2>2. X \in SUBSET HostIds /\ X2 \in SUBSET HostIds /\ X2 \subseteq X /\ Y \in SUBSET HostIds
    BY <1>6, SlotSets
  <2>3. hostOutstanding' \ AnsweredIds' = Y
    BY <1>7
  <2> HIDE DEF X, X2, Y
  <2>4. /\ Cardinality(X2) <= Cardinality(X) /\ Cardinality(X2) \in Nat /\ Cardinality(X) \in Nat
        /\ Cardinality(Y) \in Nat
    BY <2>2, Fewer, Counted
  <2>5. Cardinality(X2) <= Cardinality(Y)
    BY <2>1, <2>4 DEF X, Y
  <2>6. NoMore(OwedIds', hostOutstanding' \ AnsweredIds')
    BY <2>3, <2>5 DEF NoMore, X2
  <2> QED
    BY <2>1, <2>6
<1>9. SlotsTell'
  BY <1>5, <1>7, <1>8, SlotsStay
<1> QED
  BY <1>3, <1>9

(* The SDK has fewer requests than it may when it reads another, *)
LEMMA InvokeFits ==
  ASSUME LinkInv, linkOpen, NEW id \in CallIds
  PROVE  Cardinality(sdkOutstanding) < MaxInFlight
<1> DEFINE S2 == sdkOutstanding \cup {id}
           X == CallIds \cup sdkOutstanding
<1>1. /\ id \notin sdkOutstanding /\ sdkOutstanding \in SUBSET HostIds /\ X \in SUBSET HostIds
      /\ S2 \in SUBSET HostIds /\ S2 \subseteq X
  BY SetsTyped
<1>2. Cardinality(S2) = Cardinality(sdkOutstanding) + 1 /\ Cardinality(sdkOutstanding) \in Nat
  BY <1>1, Counted
<1>3. Cardinality(X) <= MaxInFlight
  BY CallsFit
<1> HIDE DEF S2, X
<1>4. Cardinality(S2) <= Cardinality(X) /\ Cardinality(S2) \in Nat /\ Cardinality(X) \in Nat
  BY <1>1, Fewer
<1> QED
  BY <1>2, <1>3, <1>4, LinkBounds

(* (nothing is written to the supervisor) *)
LEMMA UnansweredExpected ==
  ASSUME LinkInv, linkOpen, UNCHANGED <<hostVars, toHost>>
  PROVE  AllExpected'
<1>1. WaitsKept
  BY DEF WaitsKept, WaitedIds, hostVars
<1> QED
  BY <1>1, StillExpected

(* SdkReads: a call is invoked, never refused. *)
LEMMA SdkInvokesRequest ==
  ASSUME LinkInv, linkOpen, UNCHANGED linkOpen, LinkTyped', SdkReads,
         Head(toProvider).method = "call", SdkInvokes(Head(toProvider).id)
  PROVE  LinkInv'
<1> DEFINE m == Head(toProvider)
<1>1. /\ toProvider # <<>> /\ toProvider' = Tail(toProvider)
      /\ UNCHANGED <<hostVars, sdkNext, sdkRequests, quitting, strays>>
  BY DEF SdkReads, SdkInvokes
<1>2. /\ hostReady /\ m.type = "request" /\ m.id \in CallIds /\ m.id \in SentIds
  BY <1>1, MessageRead
<1>3. UNCHANGED cancelledBy /\ quitting' = quitting /\ hostReady'
  BY <1>1, <1>2 DEF hostVars
<1>4. /\ RequestsTell' /\ SentIds' = SentIds \ {m.id} /\ CallIds' = CallIds \ {m.id}
      /\ \A x \in SentIds' : m.id < x
  BY <1>1, <1>2, <1>3, FirstRead
<1>5. sdkOutstanding \in SUBSET HostIds /\ Cardinality(sdkOutstanding) < MaxInFlight
  BY <1>2, InvokeFits, SetsTyped
<1>6. ~(Cardinality(sdkOutstanding) >= MaxInFlight)
  BY <1>5, Counted, LinkBounds
<1>7. sdkOutstanding' = sdkOutstanding \cup {m.id} /\ UNCHANGED <<toHost, refusals>>
  BY <1>6 DEF SdkInvokes
<1>8. AnsweredIds' = AnsweredIds
  BY <1>7, AnsweredTheSame
<1> HIDE DEF m
<1>9. SlotsTell' /\ Progress(m.id)
  BY <1>1, <1>2, <1>3, <1>4, <1>7, <1>8, InvokeKeepsSlots
<1>10. m.id \in SentIds \cup sdkOutstanding
  BY <1>2
<1>11. IdsInOrder' /\ CancelsTell' /\ AllDue'
  BY <1>1, <1>9, <1>10, ProgressKeeps
<1>12. AllExpected'
  BY <1>1, <1>7, UnansweredExpected
<1>13. HandshakeTells'
  BY <1>2, <1>3, <1>7, HandshakeStays DEF LinkInv
<1>14. SdkRequestsTell'
  <2>1. Carried(toProvider', toProvider, "response") /\ Carried(toHost', toHost, "request")
    BY <1>1, <1>7, ReadCarries, UnreadCarries DEF LinkInv, LinkTyped, WireTyped
  <2> QED
    BY <1>1, <2>1, CarriedTells DEF LinkInv
<1>15. SlotsSuffice' /\ linkOpen'
  BY <1>1, <1>7 DEF LinkInv, SlotsSuffice
<1> QED
  BY <1>4, <1>9, <1>11, <1>12, <1>13, <1>14, <1>15 DEF LinkInv

(* The sets of requests are the same: so is what is counted. *)
LEMMA SameSetsKeep ==
  ASSUME LinkInv, linkOpen, UNCHANGED <<hostVars, quitting, sdkOutstanding>>,
         SentIds' = SentIds, CallIds' = CallIds, AnsweredIds' = AnsweredIds
  PROVE  IdsInOrder' /\ CancelsTell' /\ AllDue' /\ SlotsTell'
<1>1. /\ hostNext' = hostNext /\ cancelledBy' = cancelledBy /\ hostOutstanding' = hostOutstanding
      /\ overdue' = overdue /\ WaitedIds' = WaitedIds /\ quitting' = quitting
      /\ sdkOutstanding' = sdkOutstanding
  BY DEF hostVars, WaitedIds
<1>2. IdsInOrder' /\ CancelsTell'
  BY <1>1 DEF LinkInv, IdsInOrder, CancelsTell
<1>3. AllDue'
  BY <1>1 DEF LinkInv, AllDue, LinkDue
<1>4. OwedIds' = OwedIds
  BY <1>1 DEF OwedIds, WastedIds
<1>5. SlotsTell'
  BY <1>1, <1>4 DEF LinkInv, SlotsTell
<1> QED
  BY <1>2, <1>3, <1>5

(* SdkReads: the greeting of the supervisor *)
LEMMA SdkReadsHelloKeeps ==
  ASSUME LinkInv, linkOpen, UNCHANGED linkOpen, LinkTyped', SdkReads,
         Head(toProvider).type = "hello", SdkReadsHello
  PROVE  LinkInv'
<1>1. /\ toProvider # <<>> /\ toProvider' = Tail(toProvider)
      /\ UNCHANGED <<hostVars, toHost, sdkNext, sdkRequests, quitting, sdkOutstanding, refusals, strays>>
  BY DEF SdkReads, SdkReadsHello
<1>2. UNCHANGED cancelledBy /\ hostReady /\ hostReady'
  BY <1>1, MessageRead DEF hostVars
<1>3. RequestsTell' /\ SentIds' = SentIds /\ CallIds' = CallIds
  BY <1>1, <1>2, FirstRead
<1>4. AnsweredIds' = AnsweredIds
  BY <1>1, AnsweredTheSame
<1>5. IdsInOrder' /\ CancelsTell' /\ AllDue' /\ SlotsTell'
  BY <1>1, <1>3, <1>4, SameSetsKeep
<1>6. AllExpected'
  BY <1>1, UnansweredExpected
<1>7. HandshakeTells'
  BY <1>1, <1>2, HandshakeStays DEF LinkInv
<1>8. SdkRequestsTell'
  <2>1. Carried(toProvider', toProvider, "response") /\ Carried(toHost', toHost, "request")
    BY <1>1, ReadCarries, UnreadCarries DEF LinkInv, LinkTyped, WireTyped
  <2> QED
    BY <1>1, <2>1, CarriedTells DEF LinkInv
<1>9. SlotsSuffice' /\ linkOpen'
  BY <1>1 DEF LinkInv, SlotsSuffice
<1> QED
  BY <1>3, <1>5, <1>6, <1>7, <1>8, <1>9 DEF LinkInv

(* The request that is answered is one the provider waits for, and the only one. *)
LEMMA AnswerRead ==
  ASSUME SdkRequestsTell, IsLater(toProvider', toProvider), UNCHANGED <<toHost, sdkNext>>,
         1 \in 1..Len(toProvider), toProvider[1].type = "response",
         sdkRequests' = sdkRequests \ {toProvider[1].id}
  PROVE  SdkRequestsTell' /\ toProvider[1].id \in sdkRequests
<1> DEFINE x == toProvider[1].id
<1>1. x \in sdkRequests
  BY DEF SdkRequestsTell
<1>2. \A i \in 1..Len(toProvider') : /\ i + 1 \in 1..Len(toProvider) /\ i + 1 # 1
                                     /\ toProvider'[i] = toProvider[i + 1]
  BY DEF IsLater
<1>3. \A i \in 1..Len(toProvider') : toProvider'[i].type = "response" => toProvider'[i].id \in sdkRequests'
  <2> SUFFICES ASSUME NEW i \in 1..Len(toProvider'), toProvider'[i].type = "response"
               PROVE  toProvider'[i].id \in sdkRequests \ {x}
    OBVIOUS
  <2> QED
    BY <1>2 DEF SdkRequestsTell
<1>4. \A i \in 1..Len(toHost) : toHost[i].type = "request" => toHost[i].id \in sdkRequests'
  <2> SUFFICES ASSUME NEW i \in 1..Len(toHost), toHost[i].type = "request"
               PROVE  toHost[i].id \in sdkRequests \ {x}
    OBVIOUS
  <2> QED
    BY DEF SdkRequestsTell
<1>5. ASSUME NEW i \in 1..Len(toProvider'), NEW j \in 1..Len(toProvider'),
             toProvider'[i].type = "response", toProvider'[j].type = "response",
             toProvider'[i].id = toProvider'[j].id
      PROVE  i = j
  <2>1. i + 1 = j + 1
    BY <1>2, <1>5 DEF SdkRequestsTell
  <2> QED
    BY <2>1
<1>6. ASSUME NEW i \in 1..Len(toHost), NEW j \in 1..Len(toProvider'),
             toHost[i].type = "request", toProvider'[j].type = "response",
             toHost[i].id = toProvider'[j].id
      PROVE  FALSE
  BY <1>2, <1>6 DEF SdkRequestsTell
<1>7. \A i, j \in 1..Len(toHost) :
        toHost[i].type = "request" /\ toHost[j].type = "request" /\ toHost[i].id = toHost[j].id => i = j
  BY DEF SdkRequestsTell
<1>8. \A y \in sdkRequests' : y < sdkNext
  BY DEF SdkRequestsTell
<1> QED
  BY <1>1, <1>3, <1>4, <1>5, <1>6, <1>7, <1>8 DEF SdkRequestsTell

(* SdkReads: a response to a request the provider knows of *)
LEMMA SdkReadsResponseKeeps ==
  ASSUME LinkInv, linkOpen, UNCHANGED linkOpen, LinkTyped', SdkReads,
         Head(toProvider).type = "response", SdkReadsResponse(Head(toProvider).id)
  PROVE  LinkInv'
<1> DEFINE x == Head(toProvider).id
<1>1. /\ toProvider # <<>> /\ toProvider' = Tail(toProvider)
      /\ sdkRequests' = sdkRequests \ {x} /\ strays' = IF x \in sdkRequests THEN strays ELSE 1
      /\ UNCHANGED <<hostVars, toHost, sdkNext, quitting, sdkOutstanding, refusals>>
  BY DEF SdkReads, SdkReadsResponse
<1>2. UNCHANGED cancelledBy /\ hostReady /\ hostReady'
  BY <1>1, MessageRead DEF hostVars
<1>3. RequestsTell' /\ SentIds' = SentIds /\ CallIds' = CallIds
  BY <1>1, <1>2, FirstRead
<1>4. AnsweredIds' = AnsweredIds
  BY <1>1, AnsweredTheSame
<1>5. IdsInOrder' /\ CancelsTell' /\ AllDue' /\ SlotsTell'
  BY <1>1, <1>3, <1>4, SameSetsKeep
<1>6. AllExpected'
  BY <1>1, UnansweredExpected
<1>7. HandshakeTells'
  BY <1>1, <1>2, HandshakeStays DEF LinkInv
<1>8. Head(toProvider) = toProvider[1] /\ 1 \in 1..Len(toProvider)
  BY <1>1, FirstMessageRead DEF LinkInv, LinkTyped, WireTyped
<1>9. SdkRequestsTell' /\ x \in sdkRequests
  <2>1. IsLater(toProvider', toProvider)
    BY <1>1, ReadCarries
  <2> QED
    BY <1>1, <1>8, <2>1, AnswerRead DEF LinkInv
<1>10. SlotsSuffice' /\ linkOpen'
  BY <1>1, <1>9 DEF LinkInv, SlotsSuffice
<1> QED
  BY <1>3, <1>5, <1>6, <1>7, <1>9, <1>10 DEF LinkInv

(* SdkReads: any message *)
LEMMA SdkReadsKeeps ==
  ASSUME LinkInv, linkOpen, UNCHANGED linkOpen, SdkReads
  PROVE  LinkInv'
<1>1. LinkTyped'
  BY SdkReadTyped
<1> DEFINE m == Head(toProvider)
<1>2. CASE m.type = "hello" /\ SdkReadsHello
  BY <1>1, <1>2, SdkReadsHelloKeeps
<1>3. CASE m.type = "response" /\ SdkReadsResponse(m.id)
  BY <1>1, <1>3, SdkReadsResponseKeeps
<1>4. CASE m.method = "cancel" /\ SdkCancels(m.id, m.target)
  BY <1>1, <1>4, SdkCancelsRequest
<1>5. CASE m.method = "shutdown" /\ SdkShutsDown(m.id)
  BY <1>1, <1>5, SdkShutsDownKeeps
<1>6. CASE m.method = "call" /\ SdkInvokes(m.id)
  BY <1>1, <1>6, SdkInvokesRequest
<1> QED
  BY <1>2, <1>3, <1>4, <1>5, <1>6 DEF SdkReads

(* ServiceCompletes: the completion is queued. *)
LEMMA ServiceCompletesKeeps ==
  ASSUME LinkInv, linkOpen, UNCHANGED linkOpen, NEW id \in HostIds, ServiceCompletes(id)
  PROVE  LinkInv'
<1>1. /\ UNCHANGED <<hostVars, toProvider, toHost, accepted, sdkOutstanding, quitting, sdkRequests, sdkNext>>
      /\ UNCHANGED <<refusals, strays>>
  BY DEF ServiceCompletes, blame
<1>2. LinkTyped'
  BY SdkStepTyped
<1>3. SentIds' = SentIds /\ CallIds' = CallIds /\ AnsweredIds' = AnsweredIds
  BY <1>1, SentTheSame, AnsweredTheSame
<1>4. IdsInOrder' /\ CancelsTell' /\ AllDue' /\ SlotsTell'
  BY <1>1, <1>3, SameSetsKeep
<1>5. AllExpected'
  BY <1>1, UnansweredExpected
<1>6. RequestsTell'
  BY <1>1 DEF LinkInv, RequestsTell, InRequestOrder, InTransit, hostVars
<1>7. HandshakeTells'
  BY <1>1 DEF LinkInv, HandshakeTells, InTransit, hostVars
<1>8. SdkRequestsTell'
  BY <1>1 DEF LinkInv, SdkRequestsTell
<1>9. SlotsSuffice' /\ linkOpen'
  BY <1>1 DEF LinkInv, SlotsSuffice
<1> QED
  BY <1>2, <1>4, <1>5, <1>6, <1>7, <1>8, <1>9 DEF LinkInv

(* A completion that answers a request the supervisor has given up makes the provider  *)
(* read a cancel request for nothing, later.                                      *)
LEMMA CompletionKeepsSlots ==
  ASSUME LinkInv, linkOpen, UNCHANGED hostVars, ~quitting, quitting' = quitting,
         NEW id \in sdkOutstanding, SentIds' = SentIds, CallIds' = CallIds,
         sdkOutstanding' = sdkOutstanding \ {id}, AnsweredIds' = AnsweredIds \cup {id}
  PROVE  SlotsTell'
<1> DEFINE B == cancelledBy
           Y == hostOutstanding \ AnsweredIds
           Y2 == hostOutstanding' \ AnsweredIds'
           X == OwedIds
           X2 == OwedIds'
<1>1. /\ SentIds \subseteq HostIds /\ CallIds \subseteq SentIds /\ WastedIds \subseteq SentIds
      /\ sdkOutstanding \subseteq HostIds /\ hostOutstanding \subseteq HostIds
      /\ AnsweredIds \subseteq HostIds /\ id \notin SentIds /\ id \in HostIds
  BY SetsTyped
<1>2. hostOutstanding' = hostOutstanding /\ cancelledBy' = cancelledBy
  BY DEF hostVars
<1>3. hostOutstanding \subseteq SentIds \cup sdkOutstanding \cup AnsweredIds /\ NoMore(X, Y)
  BY DEF LinkInv, SlotsTell, NoMore
<1>4. hostOutstanding \subseteq SentIds' \cup sdkOutstanding' \cup AnsweredIds'
  BY <1>3
<1>5. X \in SUBSET HostIds /\ Y \in SUBSET HostIds /\ Y2 \in SUBSET HostIds /\ id \in X
  BY <1>1, <1>2, SlotSets DEF OwedIds
<1>6. ASSUME NEW c \in WastedIds' PROVE c \in SentIds /\ (c \in WastedIds \/ B[c] = id)
  <2>1. c \in SentIds /\ B[c] # 0 /\ B[c] \notin SentIds /\ B[c] \notin sdkOutstanding \ {id}
    BY <1>2, <1>6 DEF WastedIds
  <2> HIDE DEF B
  <2>2. B[c] # id => B[c] \notin SentIds \cup sdkOutstanding
    BY <2>1
  <2> QED
    BY <2>1, <2>2 DEF WastedIds, B
<1>7. id \notin X2
  BY <1>1, <1>6 DEF OwedIds
<1>8. X2 \in SUBSET HostIds
  BY <1>1, <1>6 DEF OwedIds
<1>9. \A x \in X2 : x \in X \/ (x \in WastedIds' /\ x \in HostIds /\ B[x] = id)
  BY <1>1, <1>6 DEF OwedIds
<1>10. CancelsTell /\ id # 0
  BY <1>1, LinkBounds DEF LinkInv, HostIds
<1>11. \A c, d \in HostIds : B[c] = id /\ B[d] = id => c = d
  BY <1>10 DEF CancelsTell
<1>12. id \in hostOutstanding => \A c \in HostIds : B[c] # id
  BY <1>10 DEF CancelsTell
<1>13. Left(Y2, Y, id) /\ (id \notin hostOutstanding => Y \subseteq Y2)
  BY <1>2 DEF Left
<1>14. CallIds' \cup sdkOutstanding' \subseteq CallIds \cup sdkOutstanding
  OBVIOUS
<1> HIDE DEF X, X2, Y, Y2, B
<1>15. CASE id \in hostOutstanding
  <2>1. Gone(X2, X, id)
    BY <1>5, <1>7, <1>9, <1>12, <1>15 DEF Gone
  <2>2. NoMore(X2, Y2)
    BY <1>1, <1>3, <1>5, <1>8, <1>13, <2>1, BothShrink
  <2> QED
    BY <1>2, <1>4, <1>14, <2>2, SlotsStay DEF X2, Y2
<1>16. CASE id \notin hostOutstanding
  <2>1. ASSUME NEW c \in HostIds, B[c] = id PROVE NoMore(X2, Y2)
    <3>1. MovedOn(X2, X, id, c)
      BY <1>5, <1>7, <1>9, <1>11, <2>1 DEF MovedOn
    <3> QED
      BY <1>1, <1>3, <1>5, <1>8, <1>13, <1>16, <3>1, OneMoves
  <2>2. ASSUME \A c \in HostIds : B[c] # id PROVE NoMore(X2, Y2)
    <3>1. MovedOn(X2, X, id, id)
      BY <1>5, <1>7, <1>9, <2>2 DEF MovedOn
    <3> QED
      BY <1>1, <1>3, <1>5, <1>8, <1>13, <1>16, <3>1, OneMoves
  <2>3. NoMore(X2, Y2)
    BY <2>1, <2>2
  <2> QED
    BY <1>2, <1>4, <1>14, <2>3, SlotsStay DEF X2, Y2
<1> QED
  BY <1>15, <1>16

(* CompletionRuns: the request is answered, unless it was cancelled. *)
LEMMA CompletionRunsKeeps ==
  ASSUME LinkInv, linkOpen, UNCHANGED linkOpen, NEW id \in HostIds, CompletionRuns(id)
  PROVE  LinkInv'
<1>1. /\ UNCHANGED <<hostVars, toProvider, accepted, quitting, sdkRequests, sdkNext, refusals, strays>>
      /\ ~quitting /\ sdkOutstanding' = sdkOutstanding \ {id}
  BY DEF CompletionRuns, blame
<1>2. LinkTyped'
  BY SdkStepTyped
<1>3. SentIds' = SentIds /\ CallIds' = CallIds
  BY <1>1, SentTheSame
<1>4. RequestsTell'
  BY <1>1 DEF LinkInv, RequestsTell, InRequestOrder, InTransit, hostVars
<1>5. CASE id \notin sdkOutstanding
  <2>1. toHost' = toHost /\ sdkOutstanding' = sdkOutstanding
    BY <1>1, <1>5 DEF CompletionRuns
  <2>2. AnsweredIds' = AnsweredIds
    BY <2>1, AnsweredTheSame
  <2>3. IdsInOrder' /\ CancelsTell' /\ AllDue' /\ SlotsTell'
    BY <1>1, <1>3, <2>1, <2>2, SameSetsKeep
  <2>4. AllExpected'
    BY <1>1, <2>1, UnansweredExpected
  <2>5. HandshakeTells'
    BY <1>1, <2>1 DEF LinkInv, HandshakeTells, InTransit, hostVars
  <2>6. SdkRequestsTell'
    BY <1>1, <2>1 DEF LinkInv, SdkRequestsTell
  <2>7. SlotsSuffice' /\ linkOpen'
    BY <1>1 DEF LinkInv, SlotsSuffice
  <2> QED
    BY <1>2, <1>4, <2>3, <2>4, <2>5, <2>6, <2>7 DEF LinkInv
<1>6. CASE id \in sdkOutstanding
  <2>1. Respond(id)
    BY <1>6 DEF CompletionRuns
  <2>2. hostReady
    BY <1>6 DEF LinkInv, HandshakeTells
  <2>3. id \notin SentIds /\ id \notin AnsweredIds /\ LinkDue(id) /\ cancelledBy[id] = 0
        /\ SentIds \subseteq HostIds /\ sdkOutstanding \subseteq HostIds
    BY <1>6, SetsTyped DEF LinkInv, IdsInOrder, AllDue, CancelsTell
  <2>4. AnsweredIds' = AnsweredIds \cup {id}
    BY <1>1, <2>1, <2>3, ResponseWritten
  <2>5. Progress(id)
    <3>1. \A x \in SentIds' \cup sdkOutstanding' : x # 0
      BY <1>1, <1>3, <2>3, LinkBounds DEF HostIds
    <3>2. \A x \in sdkOutstanding' : cancelledBy[x] = 0
      BY <1>1 DEF LinkInv, CancelsTell
    <3>3. \A x \in SentIds' : id < x
      BY <1>3, <1>6 DEF LinkInv, IdsInOrder
    <3>4. sdkOutstanding' \cap AnsweredIds' = {}
      BY <1>1, <2>4 DEF LinkInv, IdsInOrder
    <3> QED
      BY <1>1, <1>3, <1>6, <2>3, <2>4, <3>1, <3>2, <3>3, <3>4 DEF Progress
  <2>6. SlotsTell'
    BY <1>1, <1>3, <1>6, <2>4, CompletionKeepsSlots
  <2>7. Carried(toProvider', toProvider, "response")
    BY <1>1, UnwrittenCarries DEF LinkInv, LinkTyped, WireTyped
  <2>8. id \in SentIds \cup sdkOutstanding
    BY <1>6
  <2> QED
    BY <1>1, <1>2, <1>4, <2>1, <2>2, <2>5, <2>6, <2>7, <2>8, RespondKeeps
<1> QED
  BY <1>5, <1>6

(* A request of the provider has an ID of its own. *)
LEMMA RequestTells ==
  ASSUME SdkRequestsTell, UNCHANGED toProvider, NEW m, m.type = "request", m.id = sdkNext,
         sdkNext \in Nat, sdkRequests \subseteq Nat, IsLonger(toHost', toHost, m),
         sdkRequests' = sdkRequests \cup {sdkNext}, sdkNext' = sdkNext + 1
  PROVE  SdkRequestsTell'
<1> DEFINE k == Len(toHost)
<1>1. /\ Len(toHost') = k + 1 /\ k \in Nat /\ toHost'[k + 1] = m
      /\ \A i \in 1..k : toHost'[i] = toHost[i]
  BY DEF IsLonger
<1>2. \A i \in 1..k + 1 : i \in 1..k \/ i = k + 1
  BY <1>1
<1>3. \A x \in sdkRequests : x < sdkNext /\ x # sdkNext /\ x \in Nat
  BY DEF SdkRequestsTell
<1>4. \A x \in sdkRequests' : x < sdkNext'
  BY <1>3
<1>5. \A i \in 1..k : toHost[i].type = "request" => toHost[i].id \in sdkRequests /\ toHost[i].id # sdkNext
  BY <1>3 DEF SdkRequestsTell
<1>6. \A i \in 1..Len(toProvider) : toProvider[i].type = "response" =>
        toProvider[i].id \in sdkRequests /\ toProvider[i].id # sdkNext
  BY <1>3 DEF SdkRequestsTell
<1>7. \A i \in 1..k + 1 : toHost'[i].type = "request" => toHost'[i].id \in sdkRequests'
  BY <1>1, <1>2, <1>5
<1>8. \A i, j \in 1..k + 1 :
        toHost'[i].type = "request" /\ toHost'[j].type = "request" /\ toHost'[i].id = toHost'[j].id => i = j
  <2>1. \A i, j \in 1..k :
          toHost[i].type = "request" /\ toHost[j].type = "request" /\ toHost[i].id = toHost[j].id => i = j
    BY DEF SdkRequestsTell
  <2> QED
    BY <1>1, <1>2, <1>5, <2>1
<1>9. \A i \in 1..k + 1, j \in 1..Len(toProvider) :
        ~(toHost'[i].type = "request" /\ toProvider[j].type = "response" /\ toHost'[i].id = toProvider[j].id)
  <2>1. \A i \in 1..k, j \in 1..Len(toProvider) :
          ~(toHost[i].type = "request" /\ toProvider[j].type = "response" /\ toHost[i].id = toProvider[j].id)
    BY DEF SdkRequestsTell
  <2> QED
    BY <1>1, <1>2, <1>6, <2>1
<1>10. \A i \in 1..Len(toProvider) : toProvider[i].type = "response" => toProvider[i].id \in sdkRequests'
  BY <1>6
<1>11. \A i, j \in 1..Len(toProvider) :
         toProvider[i].type = "response" /\ toProvider[j].type = "response"
           /\ toProvider[i].id = toProvider[j].id => i = j
  BY DEF SdkRequestsTell
<1> QED
  BY <1>1, <1>4, <1>7, <1>8, <1>9, <1>10, <1>11 DEF SdkRequestsTell

(* SdkRequestsHost: the provider asks the supervisor. *)
LEMMA SdkRequestsHostKeeps ==
  ASSUME LinkInv, linkOpen, UNCHANGED linkOpen, SdkRequestsHost
  PROVE  LinkInv'
<1>1. /\ UNCHANGED <<hostVars, toProvider, accepted, sdkOutstanding, quitting, refusals, strays>>
      /\ accepted /\ sdkNext <= MaxSdkIds
      /\ toHost' = Append(toHost, Request(sdkNext, "call", 0))
      /\ sdkRequests' = sdkRequests \cup {sdkNext} /\ sdkNext' = sdkNext + 1
  BY DEF SdkRequestsHost, blame
<1>2. LinkTyped'
  BY SdkStepTyped
<1>3. sdkNext \in 1..MaxSdkIds /\ sdkNext \in Nat /\ sdkRequests \subseteq Nat
  BY <1>1, LinkBounds DEF LinkInv, LinkTyped, SdkTyped
<1>4. PICK m : m = Request(sdkNext, "call", 0)
  OBVIOUS
<1>5. m \in Messages /\ m.type = "request" /\ m.id = sdkNext
  BY <1>3, <1>4, MessagesTyped DEF Request
<1>6. toHost' = Append(toHost, m) /\ toHost \in Seq(Messages)
  BY <1>1, <1>4 DEF LinkInv, LinkTyped, WireTyped
<1>7. AnsweredIds' = AnsweredIds /\ AllExpected'
  BY <1>1, <1>5, <1>6, RequestWritten
<1>8. SentIds' = SentIds /\ CallIds' = CallIds
  BY <1>1, SentTheSame
<1>9. IdsInOrder' /\ CancelsTell' /\ AllDue' /\ SlotsTell'
  BY <1>1, <1>7, <1>8, SameSetsKeep
<1>10. RequestsTell'
  BY <1>1 DEF LinkInv, RequestsTell, InRequestOrder, InTransit, hostVars
<1>11. IsLonger(toHost', toHost, m)
  <2>1. PICK new : new = toHost'
    OBVIOUS
  <2>2. IsLonger(new, toHost, m)
    BY <1>5, <1>6, <2>1, OneMessageMore
  <2> QED
    BY <2>1, <2>2
<1>12. SdkRequestsTell'
  BY <1>1, <1>3, <1>5, <1>11, RequestTells DEF LinkInv
<1>13. HandshakeTells'
  <2>1. HandshakeTells /\ hostReady /\ hostReady'
    BY <1>1 DEF LinkInv, HandshakeTells, hostVars
  <2>2. \A k \in InTransit(toHost') : k \in InTransit(toHost) \/ k.type # "hello"
    BY <1>5, <1>11 DEF IsLonger
  <2> QED
    BY <2>1, <2>2, HandshakeStays
<1>14. SlotsSuffice' /\ linkOpen'
  BY <1>1 DEF LinkInv, SlotsSuffice
<1> QED
  BY <1>2, <1>7, <1>9, <1>10, <1>12, <1>13, <1>14 DEF LinkInv

-----------------------------------------------------------------------------
(* The invariant holds when the provider has connected, *)
LEMMA LinkStarts == LinkInit => LinkInv
<1> SUFFICES ASSUME LinkInit PROVE LinkInv
  OBVIOUS
<1>1. toProvider = <<>> /\ toHost = <<Hello>> /\ Len(toProvider) = 0 /\ Len(toHost) = 1
      /\ toHost[1] = Hello
  BY DEF LinkInit
<1>2. Hello \in Messages /\ Hello.type = "hello"
  BY MessagesTyped DEF Hello
<1>3. toHost \in Seq(Messages) /\ toProvider \in Seq(Messages)
  BY <1>1, <1>2
<1>4. LinkTyped
  <2>z. 1 \in 1..MaxHostIds + 1 /\ 1 \in 1..MaxSdkIds + 1 /\ 0 \in 0..MaxHostIds
    BY LinkBounds
  <2>1. HostTyped
    <3>1. cancelledBy \in [HostIds -> 0..MaxHostIds]
      BY <2>z DEF LinkInit
    <3> QED
      BY <2>z, <3>1 DEF LinkInit, HostTyped
  <2>2. SdkTyped
    BY <2>z DEF LinkInit, SdkTyped
  <2> QED
    BY <1>3, <2>1, <2>2 DEF LinkInit, LinkTyped, WireTyped
<1>5. InTransit(toProvider) = {} /\ InTransit(toHost) = {Hello}
  BY <1>1 DEF InTransit
<1>6. SentIds = {} /\ CallIds = {} /\ AnsweredIds = {} /\ WastedIds = {} /\ WaitedIds = {}
  <2>1. SentIds = {} /\ CallIds = {}
    BY <1>5 DEF SentIds, CallIds
  <2>2. AnsweredIds = {}
    BY <1>2, <1>5 DEF AnsweredIds, IsResponse
  <2> QED
    BY <2>1, <2>2 DEF WastedIds, WaitedIds, LinkInit
<1>7. RequestsTell /\ IdsInOrder
  <2>1. InRequestOrder(toProvider)
    BY <1>1 DEF InRequestOrder
  <2>2. RequestsTell
    BY <1>5, <2>1 DEF RequestsTell
  <2>3. IdsInOrder
    BY <1>6 DEF LinkInit, IdsInOrder
  <2> QED
    BY <2>2, <2>3
<1>8. CancelsTell
  BY DEF LinkInit, CancelsTell
<1>9. AllDue
  BY <1>6 DEF LinkInit, AllDue
<1>10. \A i \in 1..Len(toHost) : toHost[i].type = "hello" /\ i = 1
  BY <1>1, <1>2
<1>11. AllExpected
  BY <1>10 DEF AllExpected
<1>12. SlotsTell
  <2>1. OwedIds = {} /\ hostOutstanding = {} /\ hostOutstanding \ AnsweredIds = {} /\ ~quitting
    BY <1>6 DEF LinkInit, OwedIds
  <2>2. Cardinality({}) = 0
    BY FS_EmptySet
  <2> QED
    BY <1>6, <2>1, <2>2, LinkBounds DEF SlotsTell
<1>13. HandshakeTells
  BY <1>1 DEF LinkInit, HandshakeTells
<1>14. SdkRequestsTell
  BY <1>1, <1>10 DEF LinkInit, SdkRequestsTell
<1> QED
  BY <1>4, <1>7, <1>8, <1>9, <1>11, <1>12, <1>13, <1>14 DEF LinkInit, LinkInv, SlotsSuffice

(* every step of either side keeps it, *)
LEMMA LinkSteps == LinkInv /\ [LinkNext]_linkVars => LinkInv'
<1> SUFFICES ASSUME LinkInv, [LinkNext]_linkVars PROVE LinkInv'
  OBVIOUS
<1>1. ASSUME linkOpen, UNCHANGED linkOpen,
             \/ HostRequests \/ HostStops \/ HostReads \/ SdkReads \/ SdkRequestsHost
             \/ \E r \in HostIds : \/ HostCancels(r) \/ HostTimesOut(r)
                                   \/ ServiceCompletes(r) \/ CompletionRuns(r)
      PROVE  LinkInv'
  BY <1>1, HostRequestsKeeps, HostStopsKeeps, HostReadsKeeps, SdkReadsKeeps, SdkRequestsHostKeeps,
     HostCancelsKeeps, HostTimesOutKeeps, ServiceCompletesKeeps, CompletionRunsKeeps
<1>2. CASE LinkCloses
  BY <1>2, CloseTyped
<1>3. CASE UNCHANGED linkVars
  <2>1. UNCHANGED <<linkOpen, hostVars, toProvider, toHost, sdkVars, blame>>
    BY <1>3 DEF linkVars
  <2>2. LinkTyped' /\ SlotsSuffice' /\ (~linkOpen' => toHost' = <<>>)
    BY <2>1 DEF LinkInv, LinkTyped, HostTyped, SdkTyped, WireTyped, SlotsSuffice, hostVars, sdkVars, blame
  <2>3. CASE linkOpen
    <3>1. SentIds' = SentIds /\ CallIds' = CallIds /\ AnsweredIds' = AnsweredIds
      BY <2>1, SentTheSame, AnsweredTheSame
    <3>2. UNCHANGED <<hostVars, quitting, sdkOutstanding>>
      BY <2>1 DEF sdkVars
    <3>3. IdsInOrder' /\ CancelsTell' /\ AllDue' /\ SlotsTell' /\ AllExpected'
      BY <2>1, <2>3, <3>1, <3>2, SameSetsKeep, UnansweredExpected
    <3>4. RequestsTell'
      BY <2>1, <2>3 DEF LinkInv, RequestsTell, InRequestOrder, InTransit, hostVars
    <3>5. HandshakeTells'
      BY <2>1, <2>3 DEF LinkInv, HandshakeTells, InTransit, hostVars, sdkVars
    <3>6. SdkRequestsTell'
      BY <2>1, <2>3 DEF LinkInv, SdkRequestsTell, sdkVars
    <3> QED
      BY <2>2, <3>3, <3>4, <3>5, <3>6 DEF LinkInv
  <2> QED
    BY <2>1, <2>2, <2>3 DEF LinkInv
<1> QED
  BY <1>1, <1>2, <1>3 DEF LinkNext

(* so it always holds, *)
LEMMA LinkInvHolds == LinkSpec => []LinkInv
  BY LinkStarts, LinkSteps, PTL DEF LinkSpec

(* and it says what each side expects of the other. *)
LEMMA LinkInvTells == LinkInv => LinkTypeOK /\ ResponsesAreExpected /\ SlotsSuffice
<1> SUFFICES ASSUME LinkInv PROVE LinkTypeOK /\ ResponsesAreExpected /\ SlotsSuffice
  OBVIOUS
<1>1. LinkTypeOK
  BY DEF LinkInv, LinkTyped, HostTyped, SdkTyped, WireTyped, LinkTypeOK, SlotsSuffice
<1>2. toHost \in Seq(Messages) /\ DOMAIN toHost = 1..Len(toHost)
  BY DEF LinkInv, LinkTyped, WireTyped
<1>3. CASE ~linkOpen
  <2>1. toHost = <<>>
    BY <1>3 DEF LinkInv
  <2>2. DOMAIN toHost = {}
    BY <2>1
  <2> QED
    BY <1>1, <2>2 DEF LinkInv, ResponsesAreExpected
<1>4. CASE linkOpen
  <2>1. AllExpected /\ hostOutstanding \cup overdue \subseteq HostIds
    BY <1>4 DEF LinkInv, LinkTyped, HostTyped
  <2>2. ASSUME NEW i \in DOMAIN toHost, toHost[i].type = "response"
        PROVE  LET r == toHost[i].id IN
               \/ r \in hostOutstanding \/ r \in overdue
               \/ \E c \in HostIds : cancelledBy[c] = r /\ c \in hostOutstanding \cup overdue
    <3>1. Expected(i)
      BY <1>2, <2>1, <2>2 DEF AllExpected
    <3> QED
      BY <2>1, <3>1 DEF Expected, WaitedIds
  <2>3. ASSUME NEW i \in DOMAIN toHost, NEW j \in DOMAIN toHost, toHost[i].type = "response",
               toHost[j].type = "response", toHost[i] = toHost[j]
        PROVE  i = j
    BY <1>2, <2>1, <2>3 DEF AllExpected
  <2> QED
    BY <1>1, <2>2, <2>3 DEF LinkInv, ResponsesAreExpected
<1> QED
  BY <1>3, <1>4

(* Every variable of the link stays in its domain, for any number of slots *)
(* (requestHost() and sendRequest() of either side).                       *)
THEOREM LinkIsTyped == LinkSpec => []LinkTypeOK
  BY LinkInvHolds, LinkInvTells, PTL

(* A response on its way to the supervisor answers a request it waits for,            *)
(* one that timed out, or one whose cancellation the provider has yet to acknowledge: *)
(* handleMessage() calls nothing else an unknown response.                            *)
THEOREM AnswersAreExpected == LinkSpec => []ResponsesAreExpected
  BY LinkInvHolds, LinkInvTells, PTL

(* The SDK never refuses a request of the supervisor for having too many              *)
(* outstanding, and never reads a response to a request it does not know of: the sets *)
(* m_outstandingRequests of the two sides differ, but both stay within the cap.       *)
THEOREM BothCountTheSameSlots == LinkSpec => []SlotsSuffice
  BY LinkInvHolds, LinkInvTells, PTL

-----------------------------------------------------------------------------
(* ProtocolCodec: frames are taken out of the bytes as they were put in *)

(* A byte *)
Byte == 0..(Base - 1)

(* The bytes after place at are a frame of the payload. *)
FrameAt(bytes, at, payload) ==
  /\ \A k \in 1..HeaderBytes : bytes[at + k] = Header(Len(payload))[k]
  /\ \A k \in 1..Len(payload) : bytes[at + HeaderBytes + k] = payload[k]

(* Where the frames of payloads[from + 1], payloads[from + 2] ... begin in the bytes *)
Begins(starts, bytes, payloads, from) ==
  /\ starts \in [from..Len(payloads) -> 0..Len(bytes)]
  /\ starts[from] = 0 /\ starts[Len(payloads)] = Len(bytes)
  /\ \A i, j \in from..Len(payloads) : i <= j => starts[i] <= starts[j]
  /\ \A i \in (from + 1)..Len(payloads) :
       /\ starts[i] = starts[i - 1] + HeaderBytes + Len(payloads[i])
       /\ FrameAt(bytes, starts[i - 1], payloads[i])

(* The bytes are the frames of the payloads after the first ones, and no more. *)
Spells(bytes, payloads, from) == \E starts : Begins(starts, bytes, payloads, from)

(* Four digits are those of any length a payload has. *)
LEMMA FourDigits ==
  ASSUME NEW b \in Nat \ {0}, NEW n \in Nat, n < b * b * b * b
  PROVE  LET h == n \div b
             i == h \div b
             j == i \div b
         IN  ((((j % b) * b) + (i % b)) * b + (h % b)) * b + (n % b) = n
<1> DEFINE h == n \div b
           i == h \div b
           j == i \div b
<1>1. h \in Nat /\ (n % b) \in Nat /\ n = b * h + (n % b)
  BY Division
<1>2. b * b \in Nat /\ b * b * b \in Nat
  OBVIOUS
<1>3. n < b * (b * b * b)
  BY <1>2
<1>4. h < b * b * b
  BY <1>2, <1>3, QuotientBelow
<1> HIDE DEF h
<1>5. i \in Nat /\ (h % b) \in Nat /\ h = b * i + (h % b)
  BY <1>1, Division, Zenon
<1>6. h < b * (b * b)
  BY <1>1, <1>2, <1>4
<1>7. i < b * b
  BY <1>1, <1>2, <1>6, QuotientBelow
<1> HIDE DEF i
<1>8. j \in Nat /\ (i % b) \in Nat /\ i = b * j + (i % b)
  BY <1>5, Division, Zenon
<1>9. j < b
  BY <1>5, <1>7, QuotientBelow
<1> HIDE DEF j
<1>10. j % b = j
  BY <1>8, <1>9, OneDigit
<1> DEFINE ri == i % b
           rh == h % b
           rn == n % b
<1>11. (j % b) * b + ri = i
  BY <1>8, <1>10
<1>12. i * b + rh = h
  BY <1>5
<1>13. h * b + rn = n
  BY <1>1
<1> HIDE DEF ri, rh, rn
<1>14. ((((j % b) * b) + ri) * b + rh) * b + rn = n
  BY <1>11, <1>12, <1>13
<1> QED
  BY <1>14 DEF ri, rh, rn, h, i, j

(* A header is four bytes, from which the length is read. *)
LEMMA HeaderIsRead ==
  ASSUME NEW n \in Nat
  PROVE  /\ Header(n) \in Seq(Byte) /\ Len(Header(n)) = HeaderBytes
         /\ \A bytes : n < Base * Base * Base * Base
                       /\ (\A k \in 1..HeaderBytes : bytes[k] = Header(n)[k])
                       => Size(bytes) = n
<1>0. Base \in Nat \ {0}
  BY CodecAssumption
<1> DEFINE h == n \div Base
           i == h \div Base
           j == i \div Base
<1>1. h \in Nat /\ (n % Base) \in Byte
  BY <1>0, Division DEF Byte
<1> HIDE DEF h
<1>2. i \in Nat /\ (h % Base) \in Byte
  BY <1>0, <1>1, Division DEF Byte
<1> HIDE DEF i
<1>3. j \in Nat /\ (i % Base) \in Byte
  BY <1>0, <1>2, Division DEF Byte
<1> HIDE DEF j
<1>4. (j % Base) \in Byte
  BY <1>0, <1>3, Division DEF Byte
<1>5. Header(n) = <<j % Base, i % Base, h % Base, n % Base>>
  BY DEF Header, h, i, j
<1> DEFINE dj == j % Base
           di == i % Base
           dh == h % Base
           dn == n % Base
<1>6. n < Base * Base * Base * Base => ((((dj) * Base) + (di)) * Base + (dh)) * Base + (dn) = n
  BY <1>0, FourDigits DEF h, i, j
<1>7. dj \in Byte /\ di \in Byte /\ dh \in Byte /\ dn \in Byte
  BY <1>1, <1>2, <1>3, <1>4
<1>8. Header(n) = <<dj, di, dh, dn>>
  BY <1>5
<1> HIDE DEF dj, di, dh, dn
<1>9. Header(n) \in Seq(Byte) /\ Len(Header(n)) = 4
  BY <1>7, <1>8
<1>10. Header(n)[1] = dj /\ Header(n)[2] = di /\ Header(n)[3] = dh /\ Header(n)[4] = dn
  BY <1>8
<1>11. ASSUME NEW bytes, \A k \in 1..HeaderBytes : bytes[k] = Header(n)[k],
              n < Base * Base * Base * Base
       PROVE  Size(bytes) = n
  <2>1. bytes[1] = dj /\ bytes[2] = di /\ bytes[3] = dh /\ bytes[4] = dn
    BY <1>10, <1>11 DEF HeaderBytes
  <2> QED
    BY <1>6, <1>11, <2>1 DEF Size
<1> QED
  BY <1>9, <1>11 DEF HeaderBytes

(* A payload is bytes, fewer than four digits count. *)
LEMMA PayloadIsBytes ==
  ASSUME NEW payload \in Written
  PROVE  /\ payload \in Seq(Byte) /\ Len(payload) \in Nat
         /\ Len(payload) < Base * Base * Base * Base
<1>1. payload \in Seq(Byte) /\ Len(payload) < Base * Base * Base * Base
  BY CodecAssumption, Zenon DEF Byte
<1> QED
  BY <1>1, LenProperties, Zenon

(* The bytes of no payload are none, and those of a payload are some. *)
LEMMA AllSpelled ==
  ASSUME NEW bytes \in Seq(Byte), NEW payloads \in Seq(Written),
         NEW from \in 0..Len(payloads), Spells(bytes, payloads, from)
  PROVE  Len(bytes) = 0 <=> from = Len(payloads)
<1> PICK starts : Begins(starts, bytes, payloads, from)
  BY DEF Spells
<1>1. Len(payloads) \in Nat /\ Len(bytes) \in Nat
  BY LenProperties
<1>2. ASSUME from = Len(payloads) PROVE Len(bytes) = 0
  BY <1>2 DEF Begins
<1>3. ASSUME from # Len(payloads) PROVE Len(bytes) # 0
  <2>1. from + 1 \in (from + 1)..Len(payloads) /\ (from + 1) - 1 = from
        /\ from + 1 \in from..Len(payloads) /\ from + 1 \in 1..Len(payloads)
    BY <1>1, <1>3
  <2>2. payloads[from + 1] \in Written
    BY <2>1, ElementOfSeq
  <2>3. Len(payloads[from + 1]) \in Nat
    BY <2>2, PayloadIsBytes
  <2>4. starts[from + 1] = 4 + Len(payloads[from + 1]) /\ starts[from + 1] \in 0..Len(bytes)
    BY <2>1, <2>3 DEF Begins, HeaderBytes
  <2> QED
    BY <1>1, <2>3, <2>4
<1> QED
  BY <1>2, <1>3

(* The first frame is read off the bytes, and leaves the others. *)
LEMMA FrameTaken ==
  ASSUME NEW bytes \in Seq(Byte), NEW payloads \in Seq(Written),
         NEW from \in 0..Len(payloads), from # Len(payloads),
         Spells(bytes, payloads, from)
  PROVE  LET payload == payloads[from + 1]
             frame == HeaderBytes + Len(payload)
         IN  /\ payload \in Written /\ Len(payload) \in Nat /\ frame <= Len(bytes)
             /\ Size(bytes) = Len(payload)
             /\ SubSeq(bytes, HeaderBytes + 1, frame) = payload
             /\ SubSeq(bytes, frame + 1, Len(bytes)) \in Seq(Byte)
             /\ Spells(SubSeq(bytes, frame + 1, Len(bytes)), payloads, from + 1)
<1> DEFINE payload == payloads[from + 1]
           size == Len(payload)
           frame == 4 + size
           rest == SubSeq(bytes, frame + 1, Len(bytes))
           N == Len(payloads)
<1> PICK starts : Begins(starts, bytes, payloads, from)
  BY DEF Spells
<1>1. N \in Nat /\ Len(bytes) \in Nat /\ from \in Nat
  BY LenProperties
<1>2. from + 1 \in (from + 1)..N /\ (from + 1) - 1 = from
      /\ from + 1 \in from..N /\ from + 1 \in 1..N /\ from \in from..N
  BY <1>1
<1>3. payload \in Written
  BY <1>2, ElementOfSeq
<1>4. payload \in Seq(Byte) /\ size \in Nat /\ size < Base * Base * Base * Base
  BY <1>3, PayloadIsBytes
<1> HIDE DEF payload, size
<1>5. starts[from] = 0 /\ starts[from + 1] = frame /\ frame \in 0..Len(bytes)
      /\ FrameAt(bytes, 0, payload)
  <2>1. starts[from] = 0 /\ starts[from + 1] = starts[from] + 4 + Len(payload)
        /\ starts[from + 1] \in 0..Len(bytes) /\ FrameAt(bytes, starts[from], payload)
    BY <1>2 DEF Begins, HeaderBytes, payload
  <2> QED
    BY <2>1, <1>4 DEF size
<1>6. \A k \in 1..HeaderBytes : bytes[k] = Header(size)[k]
  BY <1>5 DEF FrameAt, HeaderBytes, size
<1>7. Size(bytes) = size
  BY <1>4, <1>6, HeaderIsRead
<1>8. \A i \in 1..Len(bytes) : bytes[i] \in Byte
  BY ElementOfSeq
<1>9. SubSeq(bytes, 5, frame) = payload
  <2>1. \A i \in 5..frame : bytes[i] \in Byte
    BY <1>1, <1>5, <1>8, <1>4
  <2>2. SubSeq(bytes, 5, frame) \in Seq(Byte) /\ Len(SubSeq(bytes, 5, frame)) = size
        /\ \A i \in 1..size : SubSeq(bytes, 5, frame)[i] = bytes[4 + i]
    <3>1. 5 \in Int /\ frame \in Int /\ frame - 5 + 1 = size
          /\ (IF 5 <= frame THEN frame - 5 + 1 ELSE 0) = size
          /\ \A i \in 1..size : 5 + i - 1 = 4 + i
      BY <1>4
    <3>2. /\ SubSeq(bytes, 5, frame) \in Seq(Byte)
          /\ Len(SubSeq(bytes, 5, frame)) = IF 5 <= frame THEN frame - 5 + 1 ELSE 0
          /\ \A i \in 1..frame - 5 + 1 : SubSeq(bytes, 5, frame)[i] = bytes[5 + i - 1]
      BY <2>1, <3>1, SubSeqProperties
    <3> QED
      BY <3>1, <3>2
  <2>3. \A i \in 1..size : bytes[4 + i] = payload[i]
    BY <1>4, <1>5 DEF FrameAt, HeaderBytes, size
  <2> QED
    BY <1>4, <2>2, <2>3, SeqEqual DEF size
<1>10. rest \in Seq(Byte) /\ Len(rest) = Len(bytes) - frame
       /\ \A i \in 1..Len(rest) : rest[i] = bytes[frame + i]
  <2>1. \A i \in (frame + 1)..Len(bytes) : bytes[i] \in Byte
    BY <1>1, <1>4, <1>5, <1>8
  <2>2. frame + 1 \in Int /\ Len(bytes) \in Int
        /\ Len(bytes) - (frame + 1) + 1 = Len(bytes) - frame
        /\ (IF frame + 1 <= Len(bytes) THEN Len(bytes) - (frame + 1) + 1 ELSE 0)
             = Len(bytes) - frame
        /\ \A i \in 1..(Len(bytes) - frame) : frame + 1 + i - 1 = frame + i
    BY <1>1, <1>4, <1>5
  <2>3. /\ rest \in Seq(Byte)
        /\ Len(rest) = IF frame + 1 <= Len(bytes) THEN Len(bytes) - (frame + 1) + 1 ELSE 0
        /\ \A i \in 1..Len(bytes) - (frame + 1) + 1 : rest[i] = bytes[frame + 1 + i - 1]
    BY <2>1, <2>2, SubSeqProperties
  <2> HIDE DEF rest
  <2> QED
    BY <2>2, <2>3
<1> HIDE DEF rest
<1> DEFINE later == [i \in (from + 1)..N |-> starts[i] - frame]
<1>11. ASSUME NEW i \in (from + 1)..N
       PROVE  /\ i \in from..N /\ starts[i] \in frame..Len(bytes) /\ later[i] = starts[i] - frame
  <2>1. i \in from..N /\ from + 1 <= i
    BY <1>1
  <2>2. frame <= starts[i] /\ starts[i] \in 0..Len(bytes)
    BY <1>2, <1>5, <2>1 DEF Begins
  <2> QED
    BY <1>1, <1>4, <2>1, <2>2
<1>12. Begins(later, rest, payloads, from + 1)
  <2>1. later \in [(from + 1)..N -> 0..Len(rest)]
    <3>1. ASSUME NEW i \in (from + 1)..N PROVE starts[i] - frame \in 0..Len(rest)
      <4> DEFINE at == starts[i]
                 n == Len(bytes)
                 m == Len(rest)
      <4>1. at \in frame..n
        BY <1>11
      <4>2. n \in Nat /\ frame \in Nat /\ m = n - frame
        BY <1>1, <1>4, <1>10
      <4> HIDE DEF at, n, m, frame
      <4>3. at - frame \in 0..m
        BY <4>1, <4>2
      <4> QED
        BY <4>3 DEF at, m
    <3> QED
      BY <3>1
  <2>2. later[from + 1] = 0 /\ later[N] = Len(rest)
    <3>1. N \in (from + 1)..N /\ starts[N] = Len(bytes)
      BY <1>1 DEF Begins
    <3>2. later[from + 1] = frame - frame
      BY <1>2, <1>5, <1>11
    <3>3. later[N] = Len(bytes) - frame
      BY <1>11, <3>1
    <3> QED
      BY <1>4, <1>10, <3>2, <3>3
  <2> HIDE DEF later
  <2>3. ASSUME NEW i \in (from + 1)..N, NEW j \in (from + 1)..N, i <= j
        PROVE  later[i] <= later[j]
    <3>1. starts[i] <= starts[j]
      BY <1>11, <2>3 DEF Begins
    <3>2. starts[i] \in Nat /\ starts[j] \in Nat /\ frame \in Nat
      BY <1>1, <1>4, <1>11
    <3> QED
      BY <1>11, <3>1, <3>2
  <2>4. ASSUME NEW i \in (from + 1 + 1)..N
        PROVE  /\ later[i] = later[i - 1] + HeaderBytes + Len(payloads[i])
               /\ FrameAt(rest, later[i - 1], payloads[i])
    <3>1. i \in (from + 1)..N /\ i - 1 \in (from + 1)..N /\ i \in 1..N
      BY <1>1
    <3>2. payloads[i] \in Written
      BY <3>1, ElementOfSeq
    <3>3. Len(payloads[i]) \in Nat
      BY <3>2, PayloadIsBytes
    <3> DEFINE at == starts[i - 1]
               len == Len(payloads[i])
    <3>4. starts[i] = at + 4 + len /\ FrameAt(bytes, at, payloads[i])
      BY <3>1 DEF Begins, HeaderBytes
    <3>5. at \in Nat /\ frame <= at /\ later[i - 1] = at - frame
          /\ starts[i] \in Nat /\ starts[i] <= Len(bytes) /\ later[i] = starts[i] - frame
      BY <1>1, <1>4, <1>11, <3>1
    <3>6. frame \in Nat /\ len \in Nat
      BY <1>4, <3>3
    <3> HIDE DEF frame, at
    <3>7. \A k \in 1..(4 + len) : rest[later[i - 1] + k] = bytes[at + k]
      <4>1. ASSUME NEW k \in 1..(4 + len) PROVE rest[later[i - 1] + k] = bytes[at + k]
        <5>1. at + 4 + len <= Len(bytes)
          BY <3>4, <3>5
        <5>2. (at - frame) + k \in 1..Len(rest) /\ frame + ((at - frame) + k) = at + k
          <6> DEFINE lr == Len(rest)
                     lb == Len(bytes)
          <6>1. lr = lb - frame /\ lb \in Nat
            BY <1>1, <1>10
          <6>2. at + 4 + len <= lb
            BY <5>1
          <6> HIDE DEF lr, lb, len
          <6>3. k \in Nat /\ k >= 1 /\ k <= 4 + len
            BY <3>6
          <6>4. (at - frame) + k \in 1..lr /\ frame + ((at - frame) + k) = at + k
            BY <3>5, <3>6, <6>1, <6>2, <6>3
          <6> QED
            BY <6>4 DEF lr
        <5> QED
          BY <1>10, <3>5, <5>2
      <4> QED
        BY <4>1
    <3>8. FrameAt(rest, later[i - 1], payloads[i])
      <4>0. \A k \in 1..4 : bytes[at + k] = Header(len)[k]
        BY <3>4 DEF FrameAt, HeaderBytes
      <4>1. ASSUME NEW k \in 1..4 PROVE rest[later[i - 1] + k] = Header(len)[k]
        <5>1. k \in 1..(4 + len)
          BY <3>6
        <5> QED
          BY <3>7, <4>0, <5>1
      <4>2. \A k \in 1..len : bytes[at + 4 + k] = payloads[i][k]
        BY <3>4 DEF FrameAt, HeaderBytes
      <4>3. ASSUME NEW k \in 1..len PROVE rest[later[i - 1] + 4 + k] = payloads[i][k]
        <5>1. 4 + k \in 1..(4 + len)
          BY <3>6
        <5>2. rest[later[i - 1] + (4 + k)] = bytes[at + (4 + k)]
          BY <3>7, <5>1
        <5>3. at + (4 + k) = at + 4 + k /\ later[i - 1] + (4 + k) = later[i - 1] + 4 + k
          BY <3>5, <3>6
        <5> QED
          BY <4>2, <5>2, <5>3
      <4> QED
        BY <4>1, <4>3 DEF FrameAt, HeaderBytes
    <3>9. later[i] = later[i - 1] + 4 + len
      BY <3>4, <3>5, <3>6
    <3> QED
      BY <3>8, <3>9 DEF HeaderBytes
  <2> QED
    BY <2>1, <2>2, <2>3, <2>4 DEF Begins
<1>13. Spells(rest, payloads, from + 1)
  BY <1>12 DEF Spells
<1>14. HeaderBytes + Len(payload) = frame /\ HeaderBytes + 1 = 5
  BY DEF HeaderBytes, size
<1>15. frame <= Len(bytes)
  BY <1>5, <1>1
<1> QED
  BY <1>3, <1>4, <1>7, <1>9, <1>10, <1>13, <1>14, <1>15 DEF rest, size, payload

(* A frame that is written comes last. *)
LEMMA FrameAppended ==
  ASSUME NEW bytes \in Seq(Byte), NEW payloads \in Seq(Written), NEW payload \in Written,
         NEW from \in 0..Len(payloads), Spells(bytes, payloads, from)
  PROVE  /\ bytes \o Header(Len(payload)) \o payload \in Seq(Byte)
         /\ Spells(bytes \o Header(Len(payload)) \o payload, Append(payloads, payload), from)
<1> DEFINE N == Len(payloads)
           B == Len(bytes)
           size == Len(payload)
           head == Header(size)
           longer == bytes \o head \o payload
           more == Append(payloads, payload)
<1> PICK starts : Begins(starts, bytes, payloads, from)
  BY DEF Spells
<1>1. N \in Nat /\ B \in Nat /\ from \in Nat /\ from <= N
  BY LenProperties
<1>2. payload \in Seq(Byte) /\ size \in Nat
  BY PayloadIsBytes
<1> HIDE DEF size
<1>3. head \in Seq(Byte) /\ Len(head) = 4
  BY <1>2, HeaderIsRead DEF HeaderBytes
<1> HIDE DEF head
<1>4. bytes \o head \in Seq(Byte) /\ Len(bytes \o head) = B + 4
      /\ \A i \in 1..(B + 4) : (bytes \o head)[i] = IF i <= B THEN bytes[i] ELSE head[i - B]
  <2>1. bytes \o head \in Seq(Byte) /\ Len(bytes \o head) = Len(bytes) + Len(head)
        /\ \A i \in 1..Len(bytes) + Len(head) :
             (bytes \o head)[i] = IF i <= Len(bytes) THEN bytes[i] ELSE head[i - Len(bytes)]
    BY <1>3, ConcatProperties
  <2> QED
    BY <1>3, <2>1
<1>5. longer \in Seq(Byte) /\ Len(longer) = B + 4 + size
      /\ \A i \in 1..(B + 4 + size) :
           longer[i] = IF i <= B + 4 THEN (bytes \o head)[i] ELSE payload[i - (B + 4)]
  <2> DEFINE front == bytes \o head
  <2> HIDE DEF front
  <2>0. front \in Seq(Byte) /\ Len(front) = B + 4 /\ Len(payload) = size
    BY <1>4 DEF front, size
  <2>1. front \o payload \in Seq(Byte) /\ Len(front \o payload) = Len(front) + Len(payload)
        /\ \A i \in 1..Len(front) + Len(payload) :
             (front \o payload)[i] = IF i <= Len(front) THEN front[i] ELSE payload[i - Len(front)]
    BY <1>2, <2>0, ConcatProperties
  <2>2. longer = front \o payload
    BY DEF front
  <2> HIDE DEF longer
  <2>3. longer \in Seq(Byte) /\ Len(longer) = B + 4 + size
        /\ \A i \in 1..(B + 4 + size) :
             longer[i] = IF i <= B + 4 THEN front[i] ELSE payload[i - (B + 4)]
    BY <2>0, <2>1, <2>2
  <2> QED
    BY <2>3 DEF front
<1> HIDE DEF longer
<1>6. \A i \in 1..B : longer[i] = bytes[i]
  <2>1. ASSUME NEW i \in 1..B PROVE longer[i] = bytes[i]
    <3>1. i \in 1..(B + 4 + size) /\ i \in 1..(B + 4) /\ i <= B + 4 /\ i <= B
      BY <1>1, <1>2
    <3> QED
      BY <1>4, <1>5, <3>1
  <2> QED
    BY <2>1
<1>7. \A k \in 1..4 : longer[B + k] = head[k]
  <2>1. ASSUME NEW k \in 1..4 PROVE longer[B + k] = head[k]
    <3>1. B + k \in 1..(B + 4 + size) /\ B + k \in 1..(B + 4) /\ B + k <= B + 4
          /\ ~(B + k <= B) /\ (B + k) - B = k
      BY <1>1, <1>2
    <3> QED
      BY <1>4, <1>5, <3>1
  <2> QED
    BY <2>1
<1>8. \A k \in 1..size : longer[B + 4 + k] = payload[k]
  <2>1. ASSUME NEW k \in 1..size PROVE longer[B + 4 + k] = payload[k]
    <3>1. B + 4 + k \in 1..(B + 4 + size) /\ ~(B + 4 + k <= B + 4)
          /\ (B + 4 + k) - (B + 4) = k
      BY <1>1, <1>2
    <3> QED
      BY <1>5, <3>1
  <2> QED
    BY <2>1
<1>9. more \in Seq(Written) /\ Len(more) = N + 1 /\ more[N + 1] = payload
      /\ \A i \in 1..N : more[i] = payloads[i]
  BY AppendProperties
<1> HIDE DEF more
<1> DEFINE M == N + 1
           L == B + 4 + size
           after == [i \in from..M |-> IF i = M THEN L ELSE starts[i]]
<1>10. \A i \in from..N : i \in from..M /\ i # M /\ starts[i] \in 0..B /\ after[i] = starts[i]
  <2>1. ASSUME NEW i \in from..N PROVE i \in from..M /\ i # M /\ starts[i] \in 0..B
    BY <1>1 DEF Begins
  <2> QED
    BY <2>1
<1>11. M \in from..M /\ after[M] = L
  BY <1>1
<1>12. \A i \in from..M : i = M \/ i \in from..N
  BY <1>1
<1>13. B \in Nat /\ L \in Nat /\ B <= L /\ L = B + 4 + size
  BY <1>1, <1>2
<1> HIDE DEF L
<1>14. after \in [from..M -> 0..L]
  <2>1. ASSUME NEW i \in from..M PROVE (IF i = M THEN L ELSE starts[i]) \in 0..L
    <3>1. CASE i = M
      BY <1>13, <3>1
    <3>2. CASE i # M
      <4>1. starts[i] \in 0..B
        BY <1>10, <1>12, <3>2
      <4> QED
        BY <1>13, <3>2, <4>1
    <3> QED
      BY <3>1, <3>2
  <2> QED
    BY <2>1
<1> HIDE DEF after
<1>15. after[from] = 0
  BY <1>1, <1>10 DEF Begins
<1>16. ASSUME NEW i \in from..M, NEW j \in from..M, i <= j
       PROVE  after[i] <= after[j]
  <2>1. CASE j = M
    <3>1. after[i] \in 0..L
      BY <1>14
    <3> QED
      BY <1>11, <1>13, <2>1, <3>1
  <2>2. CASE j # M
    <3>1. j \in from..N
      BY <1>12, <2>2
    <3>2. i \in from..N
      BY <1>1, <1>16, <3>1
    <3>3. starts[i] <= starts[j]
      BY <1>16, <3>1, <3>2 DEF Begins
    <3> QED
      BY <1>10, <3>1, <3>2, <3>3
  <2> QED
    BY <2>1, <2>2
<1>17. ASSUME NEW i \in (from + 1)..M
       PROVE  /\ after[i] = after[i - 1] + HeaderBytes + Len(more[i])
              /\ FrameAt(longer, after[i - 1], more[i])
  <2>1. CASE i = M
    <3>1. i - 1 = N /\ N \in from..N
      BY <1>1, <2>1
    <3>2. after[i - 1] = B
      BY <1>10, <3>1 DEF Begins
    <3>3. more[i] = payload
      BY <1>9, <2>1
    <3>4. after[i] = B + 4 + size
      BY <1>11, <1>13, <2>1
    <3>5. FrameAt(longer, B, payload)
      BY <1>7, <1>8 DEF FrameAt, HeaderBytes, head, size
    <3> QED
      BY <3>2, <3>3, <3>4, <3>5 DEF HeaderBytes, size
  <2>2. CASE i # M
    <3>1. i \in (from + 1)..N /\ i - 1 \in from..N /\ i \in from..N /\ i \in 1..N
      BY <1>1, <2>2
    <3> DEFINE p == payloads[i]
               at == starts[i - 1]
    <3>2. more[i] = p
      BY <1>9, <3>1
    <3>3. p \in Written
      BY <3>1, ElementOfSeq
    <3>4. Len(p) \in Nat
      BY <3>3, PayloadIsBytes
    <3>5. starts[i] = at + 4 + Len(p) /\ FrameAt(bytes, at, p)
      BY <3>1 DEF Begins, HeaderBytes
    <3>6. at \in 0..B /\ starts[i] \in 0..B /\ after[i] = starts[i] /\ after[i - 1] = at
      BY <1>10, <3>1
    <3> DEFINE len == Len(p)
    <3> HIDE DEF at
    <3>7. ASSUME NEW k \in 1..(4 + len) PROVE longer[at + k] = bytes[at + k]
      <4>1. at + 4 + len <= B
        <5>1. starts[i] <= B
          BY <1>1, <3>6
        <5>2. starts[i] = at + 4 + len
          BY <3>5
        <5> QED
          BY <5>1, <5>2
      <4> HIDE DEF B, len
      <4>2. len \in Nat
        BY <3>4 DEF len
      <4>3. at + k \in 1..B
        BY <1>1, <3>6, <4>1, <4>2
      <4> QED
        BY <1>6, <4>3
    <3>8. FrameAt(longer, at, p)
      <4>0. \A k \in 1..4 : bytes[at + k] = Header(len)[k]
        BY <3>5 DEF FrameAt, HeaderBytes
      <4>1. ASSUME NEW k \in 1..4 PROVE longer[at + k] = Header(len)[k]
        <5>1. k \in 1..(4 + len)
          BY <3>4
        <5> QED
          BY <3>7, <4>0, <5>1
      <4>2. \A k \in 1..len : bytes[at + 4 + k] = p[k]
        BY <3>5 DEF FrameAt, HeaderBytes
      <4>3. ASSUME NEW k \in 1..len PROVE longer[at + 4 + k] = p[k]
        <5>1. 4 + k \in 1..(4 + len)
          BY <3>4
        <5>2. longer[at + (4 + k)] = bytes[at + (4 + k)]
          BY <3>7, <5>1
        <5>3. at + (4 + k) = at + 4 + k
          BY <3>6, <3>4
        <5> QED
          BY <4>2, <5>2, <5>3
      <4> QED
        BY <4>1, <4>3 DEF FrameAt, HeaderBytes
    <3> QED
      BY <3>2, <3>5, <3>6, <3>8 DEF HeaderBytes
  <2> QED
    BY <2>1, <2>2
<1>18. Begins(after, longer, more, from)
  <2>1. Len(more) = M /\ Len(longer) = L
    BY <1>5, <1>9, <1>13
  <2> QED
    BY <2>1, <1>11, <1>14, <1>15, <1>16, <1>17 DEF Begins
<1>19. Spells(longer, more, from)
  BY <1>18 DEF Spells
<1> QED
  BY <1>5, <1>19 DEF longer, more, head, size

(* What append() may have in hand *)
Results == [messages : Seq(Json), rest : Seq(Byte), error : BOOLEAN]

(* A frame that encode() would not have written is among them. *)
Foreign(payloads) ==
  \E i \in DOMAIN payloads : payloads[i] \notin Json \/ ~EncodableSize(Len(payloads[i]))

(* The messages are the next payloads, and the bytes to come are the frames of the   *)
(* others; or a frame was not one of encode().                                   *)
InProgress(result, later, payloads, from) ==
  IF result.error THEN result.messages = <<>> /\ Foreign(payloads)
  ELSE /\ from + Len(result.messages) <= Len(payloads)
       /\ \A i \in 1..Len(result.messages) : result.messages[i] = payloads[from + i]
       /\ Spells(result.rest \o later, payloads, from + Len(result.messages))

(* The loop of append() ends. *)
Ended(result) == DecodeStep(result) = result

(* Four bytes are a number. *)
LEMMA SizeIsNumber ==
  ASSUME NEW bytes \in Seq(Byte), Len(bytes) >= HeaderBytes
  PROVE  Size(bytes) \in Nat
<1>1. Base \in Nat /\ Len(bytes) \in Nat
  BY CodecAssumption, LenProperties
<1>2. 1 \in 1..Len(bytes) /\ 2 \in 1..Len(bytes) /\ 3 \in 1..Len(bytes) /\ 4 \in 1..Len(bytes)
  BY <1>1 DEF HeaderBytes
<1>3. \A i \in 1..Len(bytes) : bytes[i] \in Byte
  BY ElementOfSeq
<1>4. bytes[1] \in Nat /\ bytes[2] \in Nat /\ bytes[3] \in Nat /\ bytes[4] \in Nat
  BY <1>2, <1>3, <1>1 DEF Byte
<1> DEFINE a == bytes[1]
           b == bytes[2]
           c == bytes[3]
           d == bytes[4]
<1>5. a \in Nat /\ b \in Nat /\ c \in Nat /\ d \in Nat
  BY <1>4
<1> HIDE DEF a, b, c, d
<1>6. ((a * Base + b) * Base + c) * Base + d \in Nat
  BY <1>1, <1>5
<1> QED
  BY <1>6 DEF Size, a, b, c, d

(* What is decoded of some bytes does not depend on those that come later. *)
LEMMA LaterBytes ==
  ASSUME NEW rest \in Seq(Byte), NEW later \in Seq(Byte), Len(rest) >= HeaderBytes,
         NEW size \in Nat, HeaderBytes + size <= Len(rest)
  PROVE  LET frame == HeaderBytes + size IN
         /\ SubSeq(rest \o later, HeaderBytes + 1, frame) = SubSeq(rest, HeaderBytes + 1, frame)
         /\ SubSeq(rest \o later, frame + 1, Len(rest \o later))
              = SubSeq(rest, frame + 1, Len(rest)) \o later
<1> DEFINE frame == 4 + size
           all == rest \o later
           n == Len(rest)
           o == Len(later)
<1>1. n \in Nat /\ o \in Nat
  BY LenProperties
<1>2. all \in Seq(Byte) /\ Len(all) = n + o
      /\ \A i \in 1..n + o : all[i] = IF i <= n THEN rest[i] ELSE later[i - n]
  BY ConcatProperties
<1> HIDE DEF all
<1>3. frame \in Nat /\ frame <= n /\ 4 <= frame
  BY <1>1 DEF HeaderBytes
<1>4. \A i \in 1..n : rest[i] \in Byte /\ all[i] = rest[i]
  <2>1. ASSUME NEW i \in 1..n PROVE all[i] = rest[i]
    <3>1. i \in 1..n + o /\ i <= n
      BY <1>1
    <3> QED
      BY <1>2, <3>1
  <2> QED
    BY <2>1, ElementOfSeq
<1> HIDE DEF frame, n, o
<1>5. SubSeq(all, 5, frame) = SubSeq(rest, 5, frame)
  <2> DEFINE s == SubSeq(all, 5, frame)
             t == SubSeq(rest, 5, frame)
             m == IF 5 <= frame THEN frame - 5 + 1 ELSE 0
  <2>1. \A i \in 5..frame : rest[i] \in Byte /\ all[i] \in Byte /\ all[i] = rest[i]
    BY <1>1, <1>3, <1>4
  <2>2. s \in Seq(Byte) /\ Len(s) = m /\ \A i \in 1..frame - 5 + 1 : s[i] = all[5 + i - 1]
    BY <1>3, <2>1, SubSeqProperties
  <2>3. t \in Seq(Byte) /\ Len(t) = m /\ \A i \in 1..frame - 5 + 1 : t[i] = rest[5 + i - 1]
    BY <1>3, <2>1, SubSeqProperties
  <2> HIDE DEF s, t
  <2>4. ASSUME NEW i \in 1..Len(s) PROVE s[i] = t[i]
    <3>1. i \in 1..frame - 5 + 1 /\ 5 + i - 1 \in 5..frame
      BY <1>3, <2>2
    <3> QED
      BY <2>1, <2>2, <2>3, <3>1
  <2>5. s = t
    BY <2>2, <2>3, <2>4, SeqEqual
  <2> QED
    BY <2>5 DEF s, t
<1>6. SubSeq(all, frame + 1, Len(all)) = SubSeq(rest, frame + 1, n) \o later
  <2> DEFINE s == SubSeq(all, frame + 1, Len(all))
             t == SubSeq(rest, frame + 1, n)
             u == t \o later
  <2>1. s \in Seq(Byte) /\ Len(s) = n + o - frame
        /\ \A i \in 1..n + o - frame : s[i] = all[frame + i]
    <3>1. frame <= Len(all)
      BY <1>1, <1>2, <1>3
    <3>2. s \in Seq(Byte) /\ Len(s) = Len(all) - frame
          /\ \A i \in 1..Len(all) - frame : s[i] = all[frame + i]
      BY <1>2, <1>3, <3>1, Parts
    <3> HIDE DEF s
    <3>3. Len(all) - frame = n + o - frame
      BY <1>1, <1>2, <1>3
    <3> QED
      BY <3>2, <3>3
  <2>2. t \in Seq(Byte) /\ Len(t) = n - frame /\ \A i \in 1..n - frame : t[i] = rest[frame + i]
    BY <1>3, Parts DEF n
  <2> HIDE DEF s, t
  <2>3. u \in Seq(Byte) /\ Len(u) = Len(t) + o
        /\ \A i \in 1..Len(t) + o : u[i] = IF i <= Len(t) THEN t[i] ELSE later[i - Len(t)]
    BY <2>2, ConcatProperties DEF o
  <2> HIDE DEF u
  <2>4. Len(u) = n + o - frame
    BY <1>1, <1>3, <2>2, <2>3
  <2>5. ASSUME NEW i \in 1..n + o - frame PROVE s[i] = u[i]
    <3>0. i \in 1..Len(t) + o /\ frame + i \in 1..n + o
      BY <1>1, <1>3, <2>2
    <3>1. CASE i <= n - frame
      <4>1. i \in 1..n - frame /\ i <= Len(t) /\ frame + i <= n /\ frame + i \in 1..n
        BY <1>1, <1>3, <2>2, <3>1
      <4>2. u[i] = rest[frame + i]
        BY <2>2, <2>3, <3>0, <4>1
      <4>3. s[i] = rest[frame + i]
        BY <1>4, <2>1, <4>1
      <4> QED
        BY <4>2, <4>3
    <3>2. CASE ~(i <= n - frame)
      <4>1. ~(i <= Len(t)) /\ ~(frame + i <= n) /\ i - Len(t) = frame + i - n
        BY <1>1, <1>3, <2>2, <3>2
      <4>2. u[i] = later[frame + i - n]
        BY <2>3, <3>0, <4>1
      <4>3. s[i] = later[frame + i - n]
        <5>1. all[frame + i] = later[frame + i - n]
          BY <1>1, <1>2, <1>3, <3>0, <4>1
        <5> QED
          BY <2>1, <5>1
      <4> QED
        BY <4>2, <4>3
    <3> QED
      BY <3>1, <3>2
  <2>6. s = u
    BY <2>1, <2>3, <2>4, <2>5, SeqEqual
  <2> QED
    BY <2>6 DEF s, u, t
<1>7. HeaderBytes + 1 = 5 /\ HeaderBytes + size = frame
  BY DEF HeaderBytes, frame
<1> QED
  BY <1>5, <1>6, <1>7 DEF all, n

(* What becomes of the bytes in hand: nothing, an error, or a message and the rest *)
Unread(result) ==
  /\ DecodeStep(result) = result
  /\ \/ result.error \/ Len(result.rest) < HeaderBytes
     \/ EncodableSize(Size(result.rest)) /\ Len(result.rest) < HeaderBytes + Size(result.rest)
Refused(result) ==
  /\ DecodeStep(result) = DecodeResult(<<>>, <<>>, TRUE)
  /\ ~result.error /\ Len(result.rest) >= HeaderBytes
  /\ \/ ~EncodableSize(Size(result.rest))
     \/ /\ HeaderBytes + Size(result.rest) <= Len(result.rest)
        /\ SubSeq(result.rest, HeaderBytes + 1, HeaderBytes + Size(result.rest)) \notin Json
Taken(result, size, payload, rest) ==
  /\ DecodeStep(result) = DecodeResult(Append(result.messages, payload), rest, FALSE)
  /\ ~result.error /\ size = Size(result.rest) /\ EncodableSize(size)
  /\ HeaderBytes + size <= Len(result.rest) /\ payload \in Json
  /\ payload = SubSeq(result.rest, HeaderBytes + 1, HeaderBytes + size)
  /\ rest = SubSeq(result.rest, HeaderBytes + size + 1, Len(result.rest))

(* There is no other case. *)
LEMMA StepCases ==
  ASSUME NEW result \in Results
  PROVE  \/ Unread(result) \/ Refused(result)
         \/ \E size \in Nat, payload \in Json, rest \in Seq(Byte) :
              Taken(result, size, payload, rest)
<1> DEFINE bytes == result.rest
           n == Len(bytes)
           size == Size(bytes)
           frame == HeaderBytes + size
           payload == SubSeq(bytes, HeaderBytes + 1, frame)
           rest == SubSeq(bytes, frame + 1, n)
<1>1. bytes \in Seq(Byte) /\ n \in Nat /\ HeaderBytes \in Nat
  BY LenProperties DEF Results, HeaderBytes
<1>2. CASE result.error \/ n < HeaderBytes
  BY <1>2 DEF Unread, DecodeStep
<1>3. CASE ~(result.error \/ n < HeaderBytes)
  <2>1. n >= HeaderBytes /\ ~result.error
    BY <1>1, <1>3
  <2>2. size \in Nat
    BY <1>1, <2>1, SizeIsNumber
  <2>3. CASE ~EncodableSize(size)
    BY <1>3, <2>1, <2>3 DEF Refused, DecodeStep
  <2>4. CASE EncodableSize(size) /\ n < frame
    BY <1>3, <2>1, <2>4 DEF Unread, DecodeStep
  <2>5. CASE EncodableSize(size) /\ ~(n < frame)
    <3>1. frame <= n /\ frame \in Nat
      BY <1>1, <2>2, <2>5
    <3>2. CASE payload \notin Json
      BY <1>3, <2>1, <2>5, <3>1, <3>2 DEF Refused, DecodeStep
    <3>3. CASE payload \in Json
      <4>1. rest \in Seq(Byte)
        BY <1>1, <3>1, Parts
      <4>2. DecodeStep(result) = DecodeResult(Append(result.messages, payload), rest, FALSE)
        BY <1>3, <2>5, <3>3 DEF DecodeStep
      <4>3. Taken(result, size, payload, rest)
        BY <2>1, <2>5, <3>1, <3>3, <4>2 DEF Taken
      <4> QED
        BY <2>2, <3>3, <4>1, <4>3
    <3> QED
      BY <3>2, <3>3
  <2> QED
    BY <2>3, <2>4, <2>5
<1> QED
  BY <1>2, <1>3

(* append() has messages, bytes and a flag in hand. *)
LEMMA StepTyped ==
  ASSUME NEW result \in Results
  PROVE  DecodeStep(result) \in Results
<1>1. CASE Unread(result)
  BY <1>1 DEF Unread
<1>2. CASE Refused(result)
  BY <1>2 DEF Refused, DecodeResult, Results
<1>3. ASSUME NEW size \in Nat, NEW payload \in Json, NEW rest \in Seq(Byte),
             Taken(result, size, payload, rest)
      PROVE  DecodeStep(result) \in Results
  <2>1. Append(result.messages, payload) \in Seq(Json)
    BY AppendProperties DEF Results
  <2>2. DecodeStep(result) = DecodeResult(Append(result.messages, payload), rest, FALSE)
    BY <1>3 DEF Taken
  <2> QED
    BY <2>1, <2>2 DEF DecodeResult, Results
<1> QED
  BY <1>1, <1>2, <1>3, StepCases

(* The first length in hand is that of the next payload. *)
LEMMA NextPayload ==
  ASSUME NEW result \in Results, NEW later \in Seq(Byte), NEW payloads \in Seq(Written),
         NEW from \in 0..Len(payloads), InProgress(result, later, payloads, from),
         ~result.error, Len(result.rest \o later) # 0
  PROVE  LET next == from + Len(result.messages)
             all == result.rest \o later
             frame == HeaderBytes + Len(payloads[next + 1])
         IN  /\ next \in 0..Len(payloads) /\ next + 1 \in 1..Len(payloads)
             /\ payloads[next + 1] \in Written /\ Len(payloads[next + 1]) \in Nat
             /\ all \in Seq(Byte) /\ frame <= Len(all)
             /\ SubSeq(all, HeaderBytes + 1, frame) = payloads[next + 1]
             /\ Spells(SubSeq(all, frame + 1, Len(all)), payloads, next + 1)
             /\ Len(result.rest) >= HeaderBytes => Size(result.rest) = Len(payloads[next + 1])
<1> DEFINE next == from + Len(result.messages)
           all == result.rest \o later
           frame == HeaderBytes + Len(payloads[next + 1])
<1>1. result.rest \in Seq(Byte) /\ result.messages \in Seq(Json)
  BY DEF Results
<1>2. Len(result.messages) \in Nat /\ Len(payloads) \in Nat /\ Len(result.rest) \in Nat
      /\ Len(later) \in Nat
  BY <1>1, LenProperties
<1>3. next <= Len(payloads) /\ Spells(all, payloads, next)
  BY DEF InProgress
<1>4. all \in Seq(Byte) /\ Len(all) = Len(result.rest) + Len(later)
      /\ \A i \in 1..Len(result.rest) + Len(later) :
           all[i] = IF i <= Len(result.rest) THEN result.rest[i]
                    ELSE later[i - Len(result.rest)]
  BY <1>1, ConcatProperties
<1>5. next \in 0..Len(payloads)
  BY <1>2, <1>3
<1>6. next # Len(payloads)
  BY <1>3, <1>4, <1>5, AllSpelled
<1>7. next + 1 \in 1..Len(payloads)
  BY <1>2, <1>5, <1>6
<1> HIDE DEF next, all
<1>8. /\ payloads[next + 1] \in Written /\ Len(payloads[next + 1]) \in Nat
      /\ frame <= Len(all) /\ Size(all) = Len(payloads[next + 1])
      /\ SubSeq(all, HeaderBytes + 1, frame) = payloads[next + 1]
      /\ Spells(SubSeq(all, frame + 1, Len(all)), payloads, next + 1)
  BY <1>3, <1>4, <1>5, <1>6, FrameTaken
<1>9. ASSUME Len(result.rest) >= HeaderBytes PROVE Size(result.rest) = Size(all)
  <2>1. ASSUME NEW i \in 1..4 PROVE all[i] = result.rest[i]
    <3>1. i \in 1..Len(result.rest) + Len(later) /\ i <= Len(result.rest)
      BY <1>2, <1>9 DEF HeaderBytes
    <3> QED
      BY <1>4, <3>1
  <2>2. all[1] = result.rest[1] /\ all[2] = result.rest[2] /\ all[3] = result.rest[3]
        /\ all[4] = result.rest[4]
    BY <2>1
  <2> QED
    BY <2>2 DEF Size
<1> QED
  BY <1>4, <1>5, <1>7, <1>8, <1>9 DEF next, all

(* append() takes the next payload, or finds that encode() did not write it. *)
LEMMA StepKeeps ==
  ASSUME NEW result \in Results, NEW later \in Seq(Byte), NEW payloads \in Seq(Written),
         NEW from \in 0..Len(payloads), InProgress(result, later, payloads, from)
  PROVE  /\ InProgress(DecodeStep(result), later, payloads, from)
         /\ \/ Ended(result) \/ Ended(DecodeStep(result))
            \/ Len(DecodeStep(result).rest) < Len(result.rest)
<1> DEFINE next == from + Len(result.messages)
           all == result.rest \o later
           payload == payloads[next + 1]
<1>1. result.rest \in Seq(Byte) /\ result.messages \in Seq(Json) /\ result.error \in BOOLEAN
  BY DEF Results
<1>2. Len(result.messages) \in Nat /\ Len(payloads) \in Nat /\ Len(result.rest) \in Nat
      /\ Len(later) \in Nat /\ from \in Nat
  BY <1>1, LenProperties
<1>3. Len(all) = Len(result.rest) + Len(later)
  BY <1>1, ConcatProperties
<1>4. CASE Unread(result)
  BY <1>4 DEF Unread, Ended
<1>5. ASSUME ~result.error, Len(result.rest) >= HeaderBytes
      PROVE  /\ next + 1 \in 1..Len(payloads) /\ payload \in Written /\ Len(payload) \in Nat
             /\ all \in Seq(Byte) /\ HeaderBytes + Len(payload) <= Len(all)
             /\ SubSeq(all, HeaderBytes + 1, HeaderBytes + Len(payload)) = payload
             /\ Spells(SubSeq(all, HeaderBytes + Len(payload) + 1, Len(all)), payloads, next + 1)
             /\ Size(result.rest) = Len(payload)
  <2>1. Len(all) # 0
    BY <1>2, <1>3, <1>5 DEF HeaderBytes
  <2> QED
    BY <1>5, <2>1, NextPayload
<1>6. CASE Refused(result)
  <2>1. ~result.error /\ Len(result.rest) >= HeaderBytes
    BY <1>6 DEF Refused
  <2>2. payload \notin Json \/ ~EncodableSize(Len(payload))
    <3>1. CASE ~EncodableSize(Size(result.rest))
      BY <1>5, <2>1, <3>1
    <3>2. CASE /\ HeaderBytes + Size(result.rest) <= Len(result.rest)
               /\ SubSeq(result.rest, HeaderBytes + 1, HeaderBytes + Size(result.rest)) \notin Json
      <4>1. SubSeq(all, HeaderBytes + 1, HeaderBytes + Len(payload))
              = SubSeq(result.rest, HeaderBytes + 1, HeaderBytes + Len(payload))
        BY <1>1, <1>5, <2>1, <3>2, LaterBytes
      <4> QED
        BY <1>5, <2>1, <3>2, <4>1
    <3> QED
      BY <1>6, <3>1, <3>2 DEF Refused
  <2>3. Foreign(payloads)
    <3>1. next + 1 \in DOMAIN payloads
      BY <1>5, <2>1, LenProperties
    <3> QED
      BY <2>2, <3>1 DEF Foreign
  <2>4. DecodeStep(result) = DecodeResult(<<>>, <<>>, TRUE)
    BY <1>6 DEF Refused
  <2>5. InProgress(DecodeStep(result), later, payloads, from)
    BY <2>3, <2>4 DEF InProgress, DecodeResult
  <2>6. Ended(DecodeStep(result))
    BY <2>4 DEF Ended, DecodeStep, DecodeResult
  <2> QED
    BY <2>5, <2>6
<1>7. ASSUME NEW size \in Nat, NEW taken \in Json, NEW rest \in Seq(Byte),
             Taken(result, size, taken, rest)
      PROVE  /\ InProgress(DecodeStep(result), later, payloads, from)
             /\ Len(DecodeStep(result).rest) < Len(result.rest)
  <2>1. /\ ~result.error /\ size = Size(result.rest) /\ HeaderBytes + size <= Len(result.rest)
        /\ DecodeStep(result) = DecodeResult(Append(result.messages, taken), rest, FALSE)
        /\ taken = SubSeq(result.rest, HeaderBytes + 1, HeaderBytes + size)
        /\ rest = SubSeq(result.rest, HeaderBytes + size + 1, Len(result.rest))
    BY <1>7 DEF Taken
  <2>2. Len(result.rest) >= HeaderBytes
    BY <1>2, <2>1 DEF HeaderBytes
  <2>3. size = Len(payload) /\ next + 1 \in 1..Len(payloads)
    BY <1>5, <2>1, <2>2
  <2>4. taken = payload
    <3>1. SubSeq(all, HeaderBytes + 1, HeaderBytes + size)
            = SubSeq(result.rest, HeaderBytes + 1, HeaderBytes + size)
      BY <1>1, <2>1, <2>2, LaterBytes
    <3> QED
      BY <1>5, <2>1, <2>2, <2>3, <3>1
  <2>5. Spells(rest \o later, payloads, next + 1)
    <3>1. SubSeq(all, HeaderBytes + size + 1, Len(all)) = rest \o later
      BY <1>1, <2>1, <2>2, LaterBytes
    <3> QED
      BY <1>5, <2>1, <2>2, <2>3, <3>1
  <2> DEFINE messages == Append(result.messages, taken)
             count == Len(result.messages)
  <2>6. Len(messages) = count + 1 /\ messages[count + 1] = taken
        /\ \A i \in 1..count : messages[i] = result.messages[i]
    BY <1>1, AppendProperties
  <2>7. DecodeStep(result).messages = messages /\ DecodeStep(result).rest = rest
        /\ DecodeStep(result).error = FALSE
    <3> HIDE DEF messages
    <3>1. DecodeStep(result) = [messages |-> messages, rest |-> rest, error |-> FALSE]
      BY <2>1 DEF DecodeResult, messages
    <3> DEFINE stepped == DecodeStep(result)
    <3>2. stepped = [messages |-> messages, rest |-> rest, error |-> FALSE]
      BY <3>1
    <3> HIDE DEF stepped
    <3>3. stepped.messages = messages /\ stepped.rest = rest /\ stepped.error = FALSE
      BY <3>2
    <3> QED
      BY <3>3 DEF stepped
  <2> HIDE DEF messages
  <2>8. from + Len(messages) = next + 1 /\ from + Len(messages) <= Len(payloads)
    BY <1>2, <2>3, <2>6
  <2>9. ASSUME NEW i \in 1..Len(messages) PROVE messages[i] = payloads[from + i]
    <3>1. CASE i = count + 1
      <4>1. from + i = next + 1
        BY <1>2, <3>1
      <4> QED
        BY <2>4, <2>6, <3>1, <4>1
    <3>2. CASE i # count + 1
      <4>1. i \in 1..count
        BY <1>2, <2>6, <3>2
      <4>2. result.messages[i] = payloads[from + i]
        BY <2>1, <4>1 DEF InProgress
      <4> QED
        BY <2>6, <4>1, <4>2
    <3> QED
      BY <3>1, <3>2
  <2>10. InProgress(DecodeStep(result), later, payloads, from)
    BY <2>5, <2>7, <2>8, <2>9 DEF InProgress
  <2>11. Len(rest) < Len(result.rest)
    <3>1. HeaderBytes + size \in Nat
      BY DEF HeaderBytes
    <3>2. Len(rest) = Len(result.rest) - (HeaderBytes + size)
      BY <1>1, <2>1, <3>1, Parts
    <3> QED
      BY <1>2, <3>2 DEF HeaderBytes
  <2> QED
    BY <2>7, <2>10, <2>11
<1> QED
  BY <1>4, <1>6, <1>7, StepCases

(* When append() is done with the last bytes, it has had all payloads. *)
LEMMA NothingLeft ==
  ASSUME NEW result \in Results, NEW payloads \in Seq(Written), NEW from \in 0..Len(payloads),
         InProgress(result, <<>>, payloads, from), Ended(result), ~result.error
  PROVE  result.rest = <<>> /\ from + Len(result.messages) = Len(payloads)
<1> DEFINE next == from + Len(result.messages)
<1>1. result.rest \in Seq(Byte) /\ result.messages \in Seq(Json) /\ <<>> \in Seq(Byte)
  BY EmptySeq DEF Results
<1>2. Len(result.messages) \in Nat /\ Len(payloads) \in Nat /\ Len(result.rest) \in Nat
      /\ from \in Nat
  BY <1>1, LenProperties
<1>3. result.rest \o <<>> = result.rest
  BY <1>1, ConcatEmptySeq
<1>4. Spells(result.rest, payloads, next) /\ next \in 0..Len(payloads)
  BY <1>2, <1>3 DEF InProgress
<1>5. ASSUME Len(result.rest) # 0 PROVE FALSE
  <2> DEFINE payload == payloads[next + 1]
  <2>1. /\ Len(payload) \in Nat /\ HeaderBytes + Len(payload) <= Len(result.rest)
        /\ Len(result.rest) >= HeaderBytes => Size(result.rest) = Len(payload)
    <3>1. Len(result.rest \o <<>>) # 0
      BY <1>3, <1>5
    <3>2. /\ Len(payload) \in Nat /\ HeaderBytes + Len(payload) <= Len(result.rest \o <<>>)
          /\ Len(result.rest) >= HeaderBytes => Size(result.rest) = Len(payload)
      BY <1>1, <3>1, NextPayload
    <3> QED
      BY <1>3, <3>2
  <2>2. Size(result.rest) = Len(payload) /\ ~(Len(result.rest) < HeaderBytes)
        /\ ~(Len(result.rest) < HeaderBytes + Size(result.rest))
    BY <1>2, <2>1 DEF HeaderBytes
  <2>3. ~Unread(result)
    BY <2>2 DEF Unread
  <2>4. ~Refused(result)
    BY DEF Refused, DecodeResult, Ended
  <2>5. ASSUME NEW size \in Nat, NEW taken \in Json, NEW rest \in Seq(Byte),
               Taken(result, size, taken, rest)
        PROVE  FALSE
    <3>1. result = DecodeResult(Append(result.messages, taken), rest, FALSE)
      BY <2>5 DEF Taken, Ended
    <3>2. result.messages = Append(result.messages, taken)
      BY <3>1 DEF DecodeResult
    <3>3. Len(Append(result.messages, taken)) = Len(result.messages) + 1
      BY <1>1, AppendProperties
    <3> QED
      BY <1>2, <3>2, <3>3
  <2> QED
    BY <2>3, <2>4, <2>5, StepCases
<1>6. next = Len(payloads)
  BY <1>1, <1>4, <1>5, AllSpelled
<1> QED
  BY <1>1, <1>5, <1>6, EmptySeq

(* append() ends, with the payloads whose frames are complete. *)
LEMMA DecodeEnds ==
  ASSUME NEW bytes \in Seq(Byte), NEW later \in Seq(Byte), NEW payloads \in Seq(Written),
         NEW from \in 0..Len(payloads), Spells(bytes \o later, payloads, from)
  PROVE  /\ Decode(bytes) \in Results /\ Ended(Decode(bytes))
         /\ InProgress(Decode(bytes), later, payloads, from)
<1> DEFINE start == DecodeResult(<<>>, bytes, FALSE)
           step == [x \in Nat \X Results |-> DecodeStep(x[2])]
           Loop(a) == [n \in Nat |-> IF n = 0 THEN start ELSE DecodeStep(a[n - 1])]
           after == CHOOSE a : a = Loop(a)
           size == Len(bytes)
<1>1. size \in Nat /\ from \in Nat
  BY LenProperties
<1>2. start \in Results
  BY EmptySeq DEF DecodeResult, Results
<1>3. step \in [Nat \X Results -> Results]
  BY StepTyped
<1>4. start.messages = <<>> /\ start.rest = bytes /\ start.error = FALSE
  BY DEF DecodeResult
<1>5. Decode(bytes) = after[size]
  BY DEF Decode
<1> HIDE DEF start
<1>0. PICK f \in [Nat -> Results] : Iterated(f, step, start)
  <2> HIDE DEF step
  <2> QED
    <3> DEFINE R == Results
               g == step
               x == start
    <3>1. g \in [Nat \X R -> R] /\ x \in R
      BY <1>2, <1>3
    <3> HIDE DEF R, g, x
    <3>2. \E f \in [Nat -> R] : Iterated(f, g, x)
      BY <3>1, Iterable
    <3> QED
      BY <3>2 DEF R, g, x
<1>6. f[0] = start /\ \A n \in Nat \ {0} : f[n] = step[<<n, f[n - 1]>>]
  BY <1>0 DEF Iterated
<1>7. f = Loop(f)
  <2>1. ASSUME NEW n \in Nat PROVE f[n] = IF n = 0 THEN start ELSE DecodeStep(f[n - 1])
    <3>1. CASE n = 0
      BY <1>6, <3>1
    <3>2. CASE n # 0
      <4>1. n \in Nat \ {0} /\ n - 1 \in Nat
        BY <3>2
      <4>2. f[n] = step[<<n, f[n - 1]>>] /\ f[n - 1] \in Results
        BY <1>6, <4>1
      <4> QED
        BY <3>2, <4>2
    <3> QED
      BY <3>1, <3>2
  <2> QED
    BY <2>1
<1>8. after = Loop(after)
  BY <1>7
<1> HIDE DEF after
<1>9. after[0] = start /\ \A n \in Nat : after[n + 1] = DecodeStep(after[n])
  <2>1. after[0] = start
    BY <1>8
  <2>2. ASSUME NEW n \in Nat PROVE after[n + 1] = DecodeStep(after[n])
    <3>1. n + 1 \in Nat /\ n + 1 # 0 /\ (n + 1) - 1 = n
      OBVIOUS
    <3>2. after[n + 1] = DecodeStep(after[(n + 1) - 1])
      BY <1>8, <3>1
    <3> QED
      BY <3>1, <3>2
  <2> QED
    BY <2>1, <2>2
<1> DEFINE Holds(result, n) ==
             /\ result \in Results /\ InProgress(result, later, payloads, from)
             /\ Ended(result) \/ Len(result.rest) + n <= size
           T == {n \in Nat : Holds(after[n], n)}
<1>10. 0 \in T
  <2>1. InProgress(start, later, payloads, from)
    <3>1. Len(start.messages) = 0
      BY <1>4, EmptySeq
    <3>2. from + Len(start.messages) = from /\ 1..Len(start.messages) = {}
      BY <1>1, <3>1
    <3>3. Spells(start.rest \o later, payloads, from + Len(start.messages))
      BY <1>4, <3>2
    <3>4. from + Len(start.messages) <= Len(payloads)
      BY <1>1, <3>2, LenProperties
    <3> QED
      BY <1>4, <3>2, <3>3, <3>4 DEF InProgress
  <2>2. Len(start.rest) + 0 <= size
    BY <1>1, <1>4
  <2> QED
    BY <1>2, <1>9, <2>1, <2>2
<1>11. ASSUME NEW n \in T PROVE n + 1 \in T
  <2> DEFINE r == after[n]
             s == after[n + 1]
  <2>1. n \in Nat /\ r \in Results /\ InProgress(r, later, payloads, from)
        /\ (Ended(r) \/ Len(r.rest) + n <= size)
    OBVIOUS
  <2>2. s = DecodeStep(r)
    BY <1>9, <2>1
  <2> HIDE DEF r, s
  <2>3. s \in Results
    BY <2>1, <2>2, StepTyped
  <2>4. InProgress(s, later, payloads, from)
        /\ (Ended(r) \/ Ended(s) \/ Len(s.rest) < Len(r.rest))
    BY <2>1, <2>2, StepKeeps
  <2>5. Ended(s) \/ Len(s.rest) + (n + 1) <= size
    <3>1. CASE Ended(r)
      <4>1. s = r
        BY <2>2, <3>1 DEF Ended
      <4> QED
        BY <3>1, <4>1
    <3>2. CASE Len(s.rest) < Len(r.rest) /\ Len(r.rest) + n <= size
      <4>1. r.rest \in Seq(Byte) /\ s.rest \in Seq(Byte)
        BY <2>1, <2>3 DEF Results
      <4>2. Len(r.rest) \in Nat /\ Len(s.rest) \in Nat
        BY <4>1, LenProperties
      <4> QED
        <5> DEFINE a == Len(r.rest)
                   b == Len(s.rest)
        <5>1. a \in Nat /\ b \in Nat /\ n \in Nat /\ b < a /\ a + n <= size
          BY <2>1, <3>2, <4>2
        <5> HIDE DEF a, b, size
        <5>2. b + (n + 1) <= size
          BY <1>1, <5>1
        <5> QED
          BY <5>2 DEF b
    <3> QED
      BY <2>1, <2>4, <3>1, <3>2
  <2>6. Holds(s, n + 1)
    BY <2>3, <2>4, <2>5
  <2> HIDE DEF Holds
  <2>7. n + 1 \in Nat /\ Holds(after[n + 1], n + 1)
    BY <2>1, <2>6 DEF s
  <2> QED
    BY <2>7
<1>12. T = Nat
  <2>1. T \in SUBSET Nat
    OBVIOUS
  <2> HIDE DEF T
  <2> QED
    BY <1>10, <1>11, <2>1, AllNumbers
<1> DEFINE r == after[size]
<1>13. r \in Results /\ InProgress(r, later, payloads, from)
       /\ (Ended(r) \/ Len(r.rest) + size <= size)
  <2>1. size \in T
    BY <1>1, <1>12
  <2> QED
    BY <2>1
<1> HIDE DEF r
<1>14. Ended(r)
  <2>1. CASE Len(r.rest) + size <= size
    <3>1. r.rest \in Seq(Byte)
      BY <1>13 DEF Results
    <3>2. Len(r.rest) \in Nat
      BY <3>1, LenProperties
    <3>3. Len(r.rest) < HeaderBytes
      BY <1>1, <2>1, <3>2 DEF HeaderBytes
    <3> QED
      BY <3>3 DEF Ended, DecodeStep
  <2> QED
    BY <1>13, <2>1
<1> QED
  BY <1>5, <1>13, <1>14 DEF r

(* The bytes in the buffer and on the way are the frames not decoded yet. *)
CodecInv ==
  /\ CodecTypeOK /\ DecodedAsSent
  /\ ~codecError => Spells(codecBuffer \o sentBytes, sentPayloads, Len(decoded))

(* Nothing is sent at first. *)
LEMMA CodecStarts == CodecInit => CodecInv
<1> SUFFICES ASSUME CodecInit PROVE CodecInv
  OBVIOUS
<1> USE DEF CodecInit
<1>1. CodecTypeOK
  BY EmptySeq DEF CodecTypeOK
<1>2. Len(<<>>) = 0 /\ DOMAIN <<>> = {} /\ <<>> \o <<>> = <<>>
  BY EmptySeq, ConcatEmptySeq
<1>3. DecodedAsSent
  BY <1>2 DEF DecodedAsSent
<1>4. Spells(<<>>, <<>>, 0)
  <2> DEFINE starts == [i \in 0..0 |-> 0]
  <2>1. Begins(starts, <<>>, <<>>, 0)
    BY <1>2 DEF Begins
  <2> QED
    BY <2>1 DEF Spells
<1>5. Spells(codecBuffer \o sentBytes, sentPayloads, Len(decoded))
  BY <1>2, <1>4
<1> QED
  BY <1>1, <1>3, <1>5 DEF CodecInv

(* A writer adds a frame to the stream. *)
LEMMA FramePutKeeps ==
  ASSUME NEW payload \in Written, CodecInv, Put(payload)
  PROVE  CodecInv'
<1> DEFINE frame == Header(Len(payload)) \o payload
           head == Header(Len(payload))
<1>0. /\ sentPayloads \in Seq(Written) /\ decoded \in Seq(Json)
      /\ sentBytes \in Seq(Byte) /\ codecBuffer \in Seq(Byte) /\ codecError \in BOOLEAN
  BY DEF CodecInv, CodecTypeOK, Byte
<1>1. ~codecError /\ sentPayloads' = Append(sentPayloads, payload)
      /\ sentBytes' = sentBytes \o head \o payload
      /\ codecBuffer' = codecBuffer /\ decoded' = decoded /\ codecError' = codecError
  BY DEF Put
<1>2. payload \in Seq(Byte) /\ Len(payload) \in Nat /\ head \in Seq(Byte)
      /\ Len(head) = HeaderBytes
  BY PayloadIsBytes, HeaderIsRead
<1> HIDE DEF head
<1>3. Len(decoded) \in Nat /\ Len(sentPayloads) \in Nat /\ Len(sentBytes) \in Nat
  BY <1>0, LenProperties
<1>4. Len(decoded) <= Len(sentPayloads)
      /\ \A i \in DOMAIN decoded : decoded[i] = sentPayloads[i]
  BY DEF CodecInv, DecodedAsSent
<1>5. sentBytes \o head \in Seq(Byte) /\ Len(sentBytes \o head) = Len(sentBytes) + HeaderBytes
  BY <1>0, <1>2, ConcatProperties
<1>6. sentBytes' \in Seq(Byte)
      /\ Len(sentBytes') = Len(sentBytes) + HeaderBytes + Len(payload)
  BY <1>1, <1>2, <1>5, ConcatProperties
<1>7. sentBytes' # <<>>
  BY <1>2, <1>3, <1>6, EmptySeq DEF HeaderBytes
<1>8. sentPayloads' \in Seq(Written) /\ Len(sentPayloads') = Len(sentPayloads) + 1
      /\ \A i \in 1..Len(sentPayloads) : sentPayloads'[i] = sentPayloads[i]
  BY <1>0, <1>1, AppendProperties
<1>9. CodecTypeOK'
  BY <1>0, <1>1, <1>6, <1>8 DEF CodecTypeOK, Byte
<1>10. DecodedAsSent'
  <2>1. Len(decoded) <= Len(sentPayloads')
    BY <1>3, <1>4, <1>8
  <2>2. ASSUME NEW i \in DOMAIN decoded PROVE decoded[i] = sentPayloads'[i]
    <3>1. i \in 1..Len(decoded)
      BY <1>0, LenProperties
    <3>2. i \in 1..Len(sentPayloads)
      BY <1>3, <1>4, <3>1
    <3> QED
      BY <1>4, <1>8, <3>2
  <2> QED
    BY <1>1, <1>7, <2>1, <2>2 DEF DecodedAsSent
<1>11. Spells(codecBuffer' \o sentBytes', sentPayloads', Len(decoded'))
  <2> DEFINE all == codecBuffer \o sentBytes
  <2>1. all \in Seq(Byte)
    BY <1>0, ConcatProperties
  <2>2. Spells(all, sentPayloads, Len(decoded)) /\ Len(decoded) \in 0..Len(sentPayloads)
    BY <1>1, <1>3, <1>4 DEF CodecInv
  <2>3. all \o head \o payload = codecBuffer \o (sentBytes \o head \o payload)
    <3>0. codecBuffer \in Seq(Byte) /\ sentBytes \in Seq(Byte) /\ head \in Seq(Byte)
          /\ payload \in Seq(Byte) /\ sentBytes \o head \in Seq(Byte)
      BY <1>0, <1>2, <1>5
    <3>1. all \o head = codecBuffer \o (sentBytes \o head)
      BY <3>0, ConcatAssociative
    <3> DEFINE front == sentBytes \o head
    <3>3. front \in Seq(Byte)
      BY <3>0
    <3> HIDE DEF front
    <3>2. (codecBuffer \o front) \o payload = codecBuffer \o (front \o payload)
      BY <3>0, <3>3, ConcatAssociative
    <3> QED
      BY <3>1, <3>2 DEF front
  <2> HIDE DEF all
  <2>4. Spells(all \o head \o payload, Append(sentPayloads, payload), Len(decoded))
    BY <1>0, <2>1, <2>2, FrameAppended DEF head
  <2> QED
    BY <1>1, <2>3, <2>4
<1> QED
  BY <1>9, <1>10, <1>11 DEF CodecInv

(* The reader decodes the frames that are complete. *)
LEMMA AppendChunkKeeps ==
  ASSUME CodecInv, AppendChunk
  PROVE  CodecInv'
<1>0. /\ sentPayloads \in Seq(Written) /\ decoded \in Seq(Json)
      /\ sentBytes \in Seq(Byte) /\ codecBuffer \in Seq(Byte) /\ codecError \in BOOLEAN
  BY DEF CodecInv, CodecTypeOK, Byte
<1> PICK n \in 1..Len(sentBytes) :
      LET result == Decode(codecBuffer \o SubSeq(sentBytes, 1, n)) IN
      /\ ~codecError
      /\ sentBytes' = SubSeq(sentBytes, n + 1, Len(sentBytes))
      /\ codecBuffer' = result.rest
      /\ decoded' = decoded \o result.messages
      /\ codecError' = result.error
      /\ UNCHANGED sentPayloads
  BY DEF AppendChunk
<1> DEFINE chunk == SubSeq(sentBytes, 1, n)
           later == SubSeq(sentBytes, n + 1, Len(sentBytes))
           bytes == codecBuffer \o chunk
           result == Decode(bytes)
           from == Len(decoded)
           N == Len(sentPayloads)
<1>1. ~codecError /\ sentBytes' = later /\ codecBuffer' = result.rest
      /\ decoded' = decoded \o result.messages /\ codecError' = result.error
      /\ sentPayloads' = sentPayloads
  OBVIOUS
<1>2. from \in Nat /\ N \in Nat /\ n \in Nat /\ n <= Len(sentBytes)
  BY <1>0, LenProperties
<1>3. chunk \in Seq(Byte) /\ later \in Seq(Byte) /\ sentBytes = chunk \o later
  BY <1>0, <1>2, Parts
<1> HIDE DEF chunk, later
<1>4. bytes \in Seq(Byte) /\ codecBuffer \o sentBytes = bytes \o later
  <2>1. bytes \in Seq(Byte)
    BY <1>0, <1>3, ConcatProperties
  <2>2. (codecBuffer \o chunk) \o later = codecBuffer \o (chunk \o later)
    <3>1. codecBuffer \in Seq(Byte) /\ chunk \in Seq(Byte) /\ later \in Seq(Byte)
      BY <1>0, <1>3
    <3> QED
      BY <3>1, ConcatAssociative
  <2> QED
    BY <1>3, <2>1, <2>2
<1>5. from <= N /\ \A i \in DOMAIN decoded : decoded[i] = sentPayloads[i]
  BY DEF CodecInv, DecodedAsSent
<1>6. from \in 0..N /\ Spells(bytes \o later, sentPayloads, from)
  BY <1>1, <1>2, <1>4, <1>5 DEF CodecInv
<1> HIDE DEF bytes
<1>7. result \in Results /\ Ended(result) /\ InProgress(result, later, sentPayloads, from)
  BY <1>0, <1>3, <1>4, <1>6, DecodeEnds
<1> HIDE DEF result
<1>8. result.messages \in Seq(Json) /\ result.rest \in Seq(Byte) /\ result.error \in BOOLEAN
  BY <1>7 DEF Results
<1>9. Len(result.messages) \in Nat
  BY <1>8, LenProperties
<1>10. decoded' \in Seq(Json) /\ Len(decoded') = from + Len(result.messages)
       /\ \A i \in 1..from + Len(result.messages) :
            decoded'[i] = IF i <= from THEN decoded[i] ELSE result.messages[i - from]
  <2> DEFINE messages == result.messages
             longer == decoded \o messages
  <2>1. messages \in Seq(Json) /\ decoded' = longer
    BY <1>1, <1>8
  <2> HIDE DEF messages
  <2>2. longer \in Seq(Json) /\ Len(longer) = Len(decoded) + Len(messages)
        /\ \A i \in 1..Len(decoded) + Len(messages) :
             longer[i] = IF i <= Len(decoded) THEN decoded[i] ELSE messages[i - Len(decoded)]
    BY <1>0, <2>1, ConcatProperties
  <2> HIDE DEF longer
  <2> QED
    BY <2>1, <2>2 DEF messages
<1>11. CodecTypeOK'
  BY <1>0, <1>1, <1>3, <1>8, <1>10 DEF CodecTypeOK, Byte
<1>12. CASE result.error
  <2>1. result.messages = <<>> /\ Foreign(sentPayloads)
    BY <1>7, <1>12 DEF InProgress
  <2>2. decoded' = decoded
    BY <1>0, <1>1, <2>1, ConcatEmptySeq
  <2>3. DecodedAsSent'
    BY <1>1, <1>5, <1>12, <2>1, <2>2 DEF DecodedAsSent, Foreign
  <2> QED
    BY <1>1, <1>11, <1>12, <2>3 DEF CodecInv
<1>13. CASE ~result.error
  <2>1. from + Len(result.messages) <= N
        /\ (\A i \in 1..Len(result.messages) : result.messages[i] = sentPayloads[from + i])
        /\ Spells(result.rest \o later, sentPayloads, from + Len(result.messages))
    BY <1>7, <1>13 DEF InProgress
  <2>2. ASSUME NEW i \in DOMAIN decoded' PROVE decoded'[i] = sentPayloads[i]
    <3>1. i \in 1..from + Len(result.messages)
      BY <1>10, LenProperties
    <3>2. CASE i <= from
      <4>1. i \in DOMAIN decoded
        BY <1>0, <1>2, <3>1, <3>2, LenProperties
      <4> QED
        BY <1>5, <1>10, <3>1, <3>2, <4>1
    <3>3. CASE ~(i <= from)
      <4>1. i - from \in 1..Len(result.messages) /\ from + (i - from) = i
        BY <1>2, <1>9, <3>1, <3>3
      <4>2. decoded'[i] = result.messages[i - from]
        BY <1>10, <3>1, <3>3
      <4>3. result.messages[i - from] = sentPayloads[from + (i - from)]
        BY <2>1, <4>1
      <4> QED
        BY <4>1, <4>2, <4>3
    <3> QED
      BY <3>2, <3>3
  <2>3. ASSUME sentBytes' = <<>>
        PROVE  decoded' = sentPayloads /\ codecBuffer' = <<>>
    <3>1. later = <<>>
      BY <1>1, <2>3
    <3>2. result.rest = <<>> /\ from + Len(result.messages) = N
      BY <1>0, <1>6, <1>7, <1>13, <3>1, NothingLeft
    <3>3. decoded' \in Seq(Written) /\ Len(decoded') = N
      <4>1. Json \subseteq Written
        BY CodecAssumption
      <4> QED
        BY <1>10, <3>2, <4>1, SeqMonotonic
    <3>4. \A i \in 1..Len(decoded') : decoded'[i] = sentPayloads[i]
      BY <2>2, <3>3, LenProperties
    <3>5. decoded' = sentPayloads
      BY <1>0, <3>3, <3>4, SeqEqual
    <3> QED
      BY <1>1, <3>2, <3>5
  <2>4. DecodedAsSent'
    <3>1. Len(decoded') <= Len(sentPayloads') /\ codecError' = FALSE
      BY <1>1, <1>8, <1>10, <1>13, <2>1
    <3> QED
      BY <1>1, <2>2, <2>3, <3>1 DEF DecodedAsSent
  <2>5. Spells(codecBuffer' \o sentBytes', sentPayloads', Len(decoded'))
    BY <1>1, <1>10, <2>1
  <2> QED
    BY <1>11, <2>4, <2>5 DEF CodecInv
<1> QED
  BY <1>12, <1>13

(* Every step keeps the stream the frames of the payloads. *)
LEMMA CodecStepKeeps == CodecInv /\ [CodecNext]_codecVars => CodecInv'
<1> SUFFICES ASSUME CodecInv, [CodecNext]_codecVars PROVE CodecInv'
  OBVIOUS
<1>1. ASSUME NEW payload \in Written, Encode(payload) \/ ForeignFrame(payload)
      PROVE  CodecInv'
  BY <1>1, FramePutKeeps DEF Encode, ForeignFrame
<1>2. CASE AppendChunk
  BY <1>2, AppendChunkKeeps
<1>3. CASE UNCHANGED codecVars
  BY <1>3 DEF codecVars, CodecInv, CodecTypeOK, DecodedAsSent
<1> QED
  BY <1>1, <1>2, <1>3 DEF CodecNext

(* Whatever the chunks, the messages come out as they were put in (DecodedAsSent). *)
THEOREM MessagesAsSent == CodecSpec => []DecodedAsSent
<1>1. CodecInv => DecodedAsSent
  BY DEF CodecInv
<1> QED
  BY <1>1, CodecStarts, CodecStepKeeps, PTL DEF CodecSpec

(* The variables of the codec stay in their domains. *)
THEOREM CodecIsTyped == CodecSpec => []CodecTypeOK
<1>1. CodecInv => CodecTypeOK
  BY DEF CodecInv
<1> QED
  BY <1>1, CodecStarts, CodecStepKeeps, PTL DEF CodecSpec

-----------------------------------------------------------------------------
(* ProviderProtocol *)

(* A connection keeps its protocol: its messages and its bytes share no variable. *)
THEOREM ProtocolIsKept == LinkSpec /\ CodecSpec => []ProtocolKept
<1>1. DecodedAsSent /\ ResponsesAreExpected /\ SlotsSuffice => ProtocolKept
  BY DEF ProtocolKept
<1> QED
  BY <1>1, AnswersAreExpected, BothCountTheSameSlots, MessagesAsSent, PTL
=============================================================================
