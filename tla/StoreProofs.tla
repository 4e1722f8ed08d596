----------------------------- MODULE StoreProofs -----------------------------
(***************************************************************************)
(* Proofs about the two stores of the core package: the response cache,    *)
(* for any keys, requests and lifetimes, with Redis failing at will; and   *)
(* the rate limiter, for any limit, window, capacity and costs.            *)
(***************************************************************************)
EXTENDS ResponseCacheProps, RateLimitProps, WellFoundedInduction, TLAPS

-----------------------------------------------------------------------------
(* The response cache: type correctness *)

CacheEntry == [live : BOOLEAN, version : 0 .. MaxVersion, ttl : 0 .. TTL]
CacheRequest ==
    [phase : {"idle", "getting", "fetching", "storing"}, key : Keys,
     version : 0 .. MaxVersion, ttl : 0 .. TTL, age : 0 .. MaxDelay,
     outcome : {"none", "hit", "miss", "error"}]

CacheTypeOK ==
    /\ version \in 0 .. MaxVersion
    /\ entry \in [Keys -> CacheEntry]
    /\ request \in [Requests -> CacheRequest]
    /\ purge \in SUBSET Keys

LEMMA CacheTypes ==
    /\ NoEntry \in CacheEntry
    /\ \A o \in {"none", "hit", "miss", "error"} : NoRequest(o) \in CacheRequest
<1>1. 0 \in 0 .. MaxVersion /\ 0 \in 0 .. TTL /\ 0 \in 0 .. MaxDelay
  BY CacheAssumption
<1>2. (CHOOSE k \in Keys : TRUE) \in Keys
  BY CacheAssumption
<1> QED
  BY <1>1, <1>2 DEF NoEntry, NoRequest, CacheEntry, CacheRequest

\* max-age is a lifetime only up to the route's own.
LEMMA CacheLifetimeType == \A a \in Answer : CacheLifetime(a) \in 0 .. TTL
BY CacheAssumption DEF Answer, CacheLifetime

LEMMA InitCacheType == CacheInit => CacheTypeOK
BY CacheTypes, CacheAssumption DEF CacheInit, CacheTypeOK

LEMMA NextCacheType == CacheTypeOK /\ [CacheNext]_cacheVars => CacheTypeOK'
<1> SUFFICES ASSUME CacheTypeOK, [CacheNext]_cacheVars PROVE CacheTypeOK'
  OBVIOUS
<1> USE DEF CacheTypeOK
<1>1. ASSUME NEW r \in Requests, NEW q \in CacheRequest, Update(r, q)
      PROVE  request' \in [Requests -> CacheRequest]
  BY <1>1 DEF Update
<1>2. ASSUME NEW r \in Requests, NEW k \in Keys, Begin(r, k) PROVE CacheTypeOK'
  <2>1. [NoRequest("none") EXCEPT !.phase = "getting", !.key = k] \in CacheRequest
    BY CacheTypes DEF CacheRequest
  <2> QED
    BY <1>1, <1>2, <2>1 DEF Begin
<1>3. ASSUME NEW r \in Requests, Hit(r) PROVE CacheTypeOK'
  <2>1. [NoRequest("hit") EXCEPT !.key = request[r].key,
                                 !.version = entry[request[r].key].version] \in CacheRequest
    BY CacheTypes DEF CacheRequest, CacheEntry
  <2> QED
    BY <1>1, <1>3, <2>1 DEF Hit
<1>4. ASSUME NEW r \in Requests, Miss(r) \/ GetFails(r) PROVE CacheTypeOK'
  <2>1. [request[r] EXCEPT !.phase = "fetching"] \in CacheRequest
    BY DEF CacheRequest
  <2> QED
    BY <1>1, <1>4, <2>1, CacheTypes DEF Miss, GetFails
<1>5. ASSUME NEW r \in Requests, NEW a \in Answer, Answered(r, a) PROVE CacheTypeOK'
  <2>1. [request[r] EXCEPT !.phase = "storing", !.version = version,
                           !.ttl = CacheLifetime(a)] \in CacheRequest
    BY CacheLifetimeType DEF CacheRequest
  <2> QED
    BY <1>1, <1>5, <2>1, CacheTypes DEF Answered
<1>6. ASSUME NEW r \in Requests, Store(r) PROVE CacheTypeOK'
  <2>1. [live |-> TRUE, version |-> request[r].version, ttl |-> request[r].ttl] \in CacheEntry
    BY DEF CacheRequest, CacheEntry
  <2>2. entry' \in [Keys -> CacheEntry]
    BY <1>6, <2>1 DEF Store, CacheRequest
  <2> QED
    BY <1>1, <1>6, <2>2, CacheTypes DEF Store
<1>7. ASSUME StartPurge \/ PurgeFails PROVE CacheTypeOK'
  BY <1>7 DEF StartPurge, PurgeFails
<1>8. ASSUME PurgePage PROVE CacheTypeOK'
  BY <1>8, CacheTypes DEF PurgePage
<1>9. ASSUME Publish PROVE CacheTypeOK'
  BY <1>9, CacheAssumption DEF Publish
<1>10. ASSUME CacheTick PROVE CacheTypeOK'
  <2>1. ASSUME NEW k \in Keys, entry[k].ttl > 1
        PROVE  [entry[k] EXCEPT !.ttl = @ - 1] \in CacheEntry
    <3>1. entry[k].ttl - 1 \in 0 .. TTL
      BY <2>1, CacheAssumption DEF CacheEntry
    <3> QED
      BY <3>1 DEF CacheEntry
  <2>2. ASSUME NEW r \in Requests, request[r].phase = "storing"
        PROVE  [request[r] EXCEPT !.age = @ + 1] \in CacheRequest
    <3>1. request[r].age + 1 \in 0 .. MaxDelay
      BY <1>10, <2>2, CacheAssumption DEF CacheTick, CacheRequest
    <3> QED
      BY <3>1 DEF CacheRequest
  <2> QED
    BY <1>10, <2>1, <2>2, CacheTypes DEF CacheTick
<1>11. CASE UNCHANGED cacheVars
  BY <1>11 DEF cacheVars
<1> QED
  BY <1>2, <1>3, <1>4, <1>5, <1>6, <1>7, <1>8, <1>9, <1>10, <1>11 DEF CacheNext

\* Every variable keeps its type: in particular nothing is stored for longer
\* than the route's ttlSec.
THEOREM CacheTypeCorrect == HSpec => []CacheTypeOK
<1>1. HInit => CacheTypeOK
  BY InitCacheType DEF HInit
<1>2. CacheTypeOK /\ [HNext]_hvars => CacheTypeOK'
  BY NextCacheType DEF HNext, hvars
<1> QED
  BY <1>1, <1>2, PTL DEF HSpec

-----------------------------------------------------------------------------
(* The response cache: freshness *)

\* The inductive invariant.  What is being stored is younger than the write
\* may be delayed, and an entry has lost a tick of its lifetime for each tick
\* its content may have been outdated.
FreshInv ==
    /\ outdated \in [0 .. MaxVersion -> Nat]
    /\ \A v \in 0 .. MaxVersion : v >= version => outdated[v] = 0
    /\ \A k \in Keys : entry[k].live =>
          /\ entry[k].ttl > 0
          /\ outdated[entry[k].version] + entry[k].ttl <= TTL + MaxDelay
    /\ \A r \in Requests :
          IF request[r].phase = "storing"
          THEN request[r].ttl > 0 /\ outdated[request[r].version] <= request[r].age
          ELSE request[r].age = 0

\* What a step other than a tick does to an entry.
LEMMA EntryStep ==
    ASSUME CacheTypeOK, CacheNext, ~CacheTick, NEW k \in Keys
    PROVE  \/ entry'[k] = entry[k]
           \/ entry'[k] = NoEntry
           \/ \E r \in Requests :
                 /\ Store(r) /\ request[r].key = k
                 /\ entry'[k] = [live |-> TRUE, version |-> request[r].version,
                                 ttl |-> request[r].ttl]
<1> USE DEF CacheTypeOK
<1>1. ASSUME NEW r \in Requests, Store(r)
      PROVE  \/ entry'[k] = entry[k]
             \/ /\ request[r].key = k
                /\ entry'[k] = [live |-> TRUE, version |-> request[r].version,
                                ttl |-> request[r].ttl]
  BY <1>1 DEF Store
<1>2. ASSUME NEW r \in Requests,
             \/ \E j \in Keys : Begin(r, j)
             \/ Hit(r) \/ Miss(r) \/ GetFails(r)
             \/ \E a \in Answer : Answered(r, a)
      PROVE  entry' = entry
  BY <1>2 DEF Begin, Hit, Miss, GetFails, Answered
<1>3. ASSUME PurgePage PROVE entry'[k] = entry[k] \/ entry'[k] = NoEntry
  BY <1>3 DEF PurgePage
<1>4. ASSUME StartPurge \/ PurgeFails \/ Publish PROVE entry' = entry
  BY <1>4 DEF StartPurge, PurgeFails, Publish
<1> QED
  BY <1>1, <1>2, <1>3, <1>4 DEF CacheNext

\* A request that has nothing to store, now or any more.
NotStoring(r) ==
    /\ request'[r].phase # "storing"
    /\ \/ request'[r].age = 0
       \/ request[r].phase # "storing" /\ request'[r].age = request[r].age

\* A request that begins to store what the upstream answers now.
BeginsToStore(r) ==
    /\ request[r].phase = "fetching" /\ request'[r].phase = "storing"
    /\ request'[r].ttl > 0 /\ request'[r].version = version
    /\ request'[r].age = request[r].age

\* A step other than a tick leaves a request alone or is one of these two.
LEMMA RequestStep ==
    ASSUME CacheTypeOK, CacheNext, ~CacheTick, NEW r \in Requests
    PROVE  request'[r] = request[r] \/ NotStoring(r) \/ BeginsToStore(r)
<1>1. ASSUME NEW q \in Requests, NEW w \in CacheRequest, Update(q, w)
      PROVE  request'[r] = request[r] \/ (q = r /\ request'[r] = w)
  BY <1>1 DEF Update, CacheTypeOK
<1>2. request[r] \in CacheRequest
  BY DEF CacheTypeOK
<1>3. \A o \in {"none", "hit", "miss", "error"} :
          request'[r] = NoRequest(o) => NotStoring(r)
  BY DEF NoRequest, NotStoring
<1>4. ASSUME NEW q \in Requests, GetFails(q) \/ Store(q)
      PROVE  request'[r] = request[r] \/ NotStoring(r)
  BY <1>1, <1>3, <1>4, CacheTypes DEF GetFails, Store
<1>5. ASSUME NEW q \in Requests, NEW k \in Keys, Begin(q, k)
      PROVE  request'[r] = request[r] \/ NotStoring(r)
  <2> DEFINE w == [NoRequest("none") EXCEPT !.phase = "getting", !.key = k]
  <2>1. w \in CacheRequest /\ w.phase # "storing" /\ w.age = 0
    BY CacheTypes DEF CacheRequest, NoRequest
  <2>2. Update(q, w)
    BY <1>5 DEF Begin
  <2> QED
    BY <1>1, <2>1, <2>2 DEF NotStoring
<1>6. ASSUME NEW q \in Requests, Hit(q)
      PROVE  request'[r] = request[r] \/ NotStoring(r)
  <2> DEFINE w == [NoRequest("hit") EXCEPT !.key = request[q].key,
                                           !.version = entry[request[q].key].version]
  <2>1. w \in CacheRequest /\ w.phase # "storing" /\ w.age = 0
    BY CacheTypes DEF CacheRequest, CacheEntry, NoRequest, CacheTypeOK
  <2>2. Update(q, w)
    BY <1>6 DEF Hit
  <2> QED
    BY <1>1, <2>1, <2>2 DEF NotStoring
<1>7. ASSUME NEW q \in Requests, Miss(q)
      PROVE  request'[r] = request[r] \/ NotStoring(r)
  <2> DEFINE w == [request[q] EXCEPT !.phase = "fetching"]
  <2>1. w \in CacheRequest /\ w.phase # "storing" /\ w.age = request[q].age
    BY DEF CacheRequest, CacheTypeOK
  <2>2. Update(q, w) /\ request[q].phase # "storing"
    BY <1>7 DEF Miss
  <2> QED
    BY <1>1, <2>1, <2>2 DEF NotStoring
<1>8. ASSUME NEW q \in Requests, NEW a \in Answer, Answered(q, a)
      PROVE  request'[r] = request[r] \/ NotStoring(r) \/ BeginsToStore(r)
  <2>1. CASE Update(q, NoRequest("miss"))
    BY <1>1, <1>3, <2>1, CacheTypes
  <2> DEFINE w == [request[q] EXCEPT !.phase = "storing", !.version = version,
                                     !.ttl = CacheLifetime(a)]
  <2>2. CASE CacheLifetime(a) > 0 /\ Update(q, w)
    <3>1. /\ w \in CacheRequest /\ w.phase = "storing" /\ w.age = request[q].age
          /\ w.ttl = CacheLifetime(a) /\ w.version = version
      BY CacheLifetimeType DEF CacheRequest, CacheTypeOK
    <3>2. request[q].phase = "fetching"
      BY <1>8 DEF Answered
    <3> QED
      BY <1>1, <2>2, <3>1, <3>2 DEF BeginsToStore
  <2> QED
    BY <1>8, <2>1, <2>2 DEF Answered
<1>9. StartPurge \/ PurgePage \/ PurgeFails \/ Publish => request'[r] = request[r]
  BY DEF StartPurge, PurgePage, PurgeFails, Publish
<1> QED
  BY <1>4, <1>5, <1>6, <1>7, <1>8, <1>9 DEF CacheNext

\* The version only grows, and a new one is not outdated.
LEMMA VersionStep ==
    ASSUME CacheTypeOK, CacheNext
    PROVE  version' >= version
<1>1. \A r \in Requests :
         (\/ \E j \in Keys : Begin(r, j)
          \/ Hit(r) \/ Miss(r) \/ GetFails(r) \/ Store(r)
          \/ \E a \in Answer : Answered(r, a)) => version' = version
  BY DEF Begin, Hit, Miss, GetFails, Store, Answered
<1>2. StartPurge \/ PurgePage \/ PurgeFails \/ CacheTick => version' = version
  BY DEF StartPurge, PurgePage, PurgeFails, CacheTick
<1>3. Publish => version' = version + 1
  BY DEF Publish
<1>4. version \in Int
  BY DEF CacheTypeOK
<1> QED
  BY <1>1, <1>2, <1>3, <1>4 DEF CacheNext

LEMMA FreshInductive == CacheTypeOK /\ FreshInv /\ [HNext]_hvars => FreshInv'
<1> SUFFICES ASSUME CacheTypeOK, FreshInv, HNext PROVE FreshInv'
  BY DEF hvars, cacheVars, FreshInv
<1>1. CacheTypeOK'
  BY NextCacheType DEF HNext
<1>2. outdated' \in [0 .. MaxVersion -> Nat]
  BY CacheAssumption DEF HNext, FreshInv
<1>3. ASSUME NEW v \in 0 .. MaxVersion, v >= version' PROVE outdated'[v] = 0
  <2>1. version \in Int /\ version' \in Int /\ v >= version
    BY <1>1, <1>3, VersionStep DEF HNext, CacheTypeOK
  <2> QED
    BY <1>3, <2>1 DEF HNext, FreshInv
<1>4. CASE CacheTick
  <2>1. \A v \in 0 .. MaxVersion : outdated'[v] <= outdated[v] + 1
    BY <1>4 DEF HNext, FreshInv
  <2>2. ASSUME NEW k \in Keys, entry'[k].live
        PROVE  /\ entry'[k].ttl > 0
               /\ outdated'[entry'[k].version] + entry'[k].ttl <= TTL + MaxDelay
    <3>1. /\ entry[k].live /\ entry'[k].ttl = entry[k].ttl - 1
          /\ entry[k].ttl > 1 /\ entry'[k].version = entry[k].version
      BY <1>4, <2>2 DEF CacheTick, NoEntry, CacheTypeOK, CacheEntry
    <3>2. entry[k].ttl \in Nat /\ entry[k].version \in 0 .. MaxVersion
      BY CacheAssumption DEF CacheTypeOK, CacheEntry
    <3>3. outdated[entry[k].version] + entry[k].ttl <= TTL + MaxDelay
      BY <3>1 DEF FreshInv
    <3>4. /\ outdated[entry[k].version] \in Nat /\ outdated'[entry[k].version] \in Nat
          /\ outdated'[entry[k].version] <= outdated[entry[k].version] + 1
      BY <1>2, <2>1, <3>2 DEF FreshInv
    <3> QED
      BY <3>1, <3>2, <3>3, <3>4, CacheAssumption
  <2>3. ASSUME NEW r \in Requests
        PROVE  IF request'[r].phase = "storing"
               THEN /\ request'[r].ttl > 0
                    /\ outdated'[request'[r].version] <= request'[r].age
               ELSE request'[r].age = 0
    <3>1. request[r].age \in Nat /\ request[r].version \in 0 .. MaxVersion
      BY CacheAssumption DEF CacheTypeOK, CacheRequest
    <3>2. CASE request[r].phase = "storing"
      <4>1. request'[r] = [request[r] EXCEPT !.age = @ + 1]
        BY <1>4, <3>2 DEF CacheTick
      <4>2. /\ request'[r].phase = "storing" /\ request'[r].ttl = request[r].ttl
            /\ request'[r].version = request[r].version
            /\ request'[r].age = request[r].age + 1
        BY <3>2, <4>1 DEF CacheTypeOK, CacheRequest
      <4> QED
        BY <1>2, <2>1, <3>1, <3>2, <4>2 DEF FreshInv
    <3>3. CASE request[r].phase # "storing"
      <4>1. request'[r] = request[r]
        BY <1>4, <3>3 DEF CacheTick
      <4> QED
        BY <3>3, <4>1 DEF FreshInv
    <3> QED
      BY <3>2, <3>3
  <2> QED
    BY <1>2, <1>3, <2>2, <2>3 DEF FreshInv
<1>5. CASE ~CacheTick
  <2>1. outdated' = outdated
    BY <1>5 DEF HNext, FreshInv
  <2>2. ASSUME NEW k \in Keys, entry'[k].live
        PROVE  /\ entry'[k].ttl > 0
               /\ outdated'[entry'[k].version] + entry'[k].ttl <= TTL + MaxDelay
    <3>1. CASE entry'[k] = entry[k]
      BY <2>1, <2>2, <3>1 DEF FreshInv
    <3>2. CASE entry'[k] = NoEntry
      BY <2>2, <3>2 DEF NoEntry
    <3>3. ASSUME NEW r \in Requests, Store(r),
                 entry'[k] = [live |-> TRUE, version |-> request[r].version,
                              ttl |-> request[r].ttl]
          PROVE  /\ entry'[k].ttl > 0
                 /\ outdated'[entry'[k].version] + entry'[k].ttl <= TTL + MaxDelay
      <4>1. request[r].phase = "storing"
        BY <3>3 DEF Store
      <4>2. request[r].ttl > 0 /\ outdated[request[r].version] <= request[r].age
        BY <4>1 DEF FreshInv
      <4>3. /\ request[r].ttl \in 0 .. TTL /\ request[r].age \in 0 .. MaxDelay
            /\ outdated[request[r].version] \in Nat
        BY DEF CacheTypeOK, CacheRequest, FreshInv
      <4> QED
        BY <2>1, <3>3, <4>2, <4>3, CacheAssumption
    <3> QED
      BY <1>5, <3>1, <3>2, <3>3, EntryStep DEF HNext
  <2>3. ASSUME NEW r \in Requests
        PROVE  IF request'[r].phase = "storing"
               THEN /\ request'[r].ttl > 0
                    /\ outdated'[request'[r].version] <= request'[r].age
               ELSE request'[r].age = 0
    <3>1. version \in 0 .. MaxVersion /\ outdated[version] = 0
      BY DEF CacheTypeOK, FreshInv
    <3>2. CASE request'[r] = request[r]
      BY <2>1, <3>2 DEF FreshInv
    <3>3. CASE NotStoring(r)
      BY <3>3 DEF NotStoring, FreshInv
    <3>4. CASE BeginsToStore(r)
      <4>1. request'[r].age = 0
        BY <3>4 DEF BeginsToStore, FreshInv
      <4> QED
        BY <2>1, <3>1, <3>4, <4>1 DEF BeginsToStore
    <3> QED
      BY <1>5, <3>2, <3>3, <3>4, RequestStep DEF HNext
  <2> QED
    BY <1>2, <1>3, <2>2, <2>3 DEF FreshInv
<1> QED
  BY <1>4, <1>5

\* No entry, and nothing about to become one, is staler than its lifetime tells.
THEOREM CacheFreshInvariant == HSpec => []FreshInv
<1>1. HInit => FreshInv
  BY CacheAssumption DEF HInit, CacheInit, FreshInv, NoEntry, NoRequest
<1> QED
  BY <1>1, FreshInductive, CacheTypeCorrect, PTL DEF HSpec

\* A HIT never serves what the upstream replaced ttlSec and the delay of one
\* write ago.
THEOREM FreshHits == HSpec => HitsAreFresh
<1>1. CacheTypeOK /\ FreshInv /\ [HNext]_hvars =>
        [\A r \in Requests : Hit(r) =>
            outdated[entry[request[r].key].version] < TTL + MaxDelay]_hvars
  <2> SUFFICES ASSUME CacheTypeOK, FreshInv, NEW r \in Requests, Hit(r)
               PROVE  outdated[entry[request[r].key].version] < TTL + MaxDelay
    OBVIOUS
  <2> DEFINE e == entry[request[r].key]
  <2>1. request[r].key \in Keys /\ e.live
    BY DEF Hit, CacheTypeOK, CacheRequest
  <2>2. e.ttl \in Nat /\ outdated[e.version] \in Nat
    BY <2>1, CacheAssumption DEF CacheTypeOK, CacheEntry, FreshInv
  <2>3. e.ttl > 0 /\ outdated[e.version] + e.ttl <= TTL + MaxDelay
    BY <2>1 DEF FreshInv
  <2> QED
    BY <2>2, <2>3, CacheAssumption
<1> QED
  BY <1>1, CacheTypeCorrect, CacheFreshInvariant, PTL DEF HSpec, HitsAreFresh

-----------------------------------------------------------------------------
(* The response cache: the purge *)

\* The inductive invariant: the keys still to be visited hold every entry that
\* is older than the purge.
PurgeInv ==
    /\ purges \in {0, 1, 2}
    /\ purge # {} => purges = 1
    /\ purges # 1 => oldEntries = {}
    /\ purges = 1 /\ purge # {} => oldEntries \subseteq purge

\* Only the purge's own pages shorten the set of keys it has still to visit.
LEMMA PurgeStep ==
    ASSUME CacheNext, ~StartPurge, ~PurgePage
    PROVE  purge' = purge \/ purge' = {}
<1>1. ASSUME NEW r \in Requests,
             \/ \E j \in Keys : Begin(r, j)
             \/ Hit(r) \/ Miss(r) \/ GetFails(r) \/ Store(r)
             \/ \E a \in Answer : Answered(r, a)
      PROVE  purge' = purge
  BY <1>1 DEF Begin, Hit, Miss, GetFails, Store, Answered
<1>2. Publish \/ CacheTick => purge' = purge
  BY DEF Publish, CacheTick
<1>3. PurgeFails => purge' = {}
  BY DEF PurgeFails
<1> QED
  BY <1>1, <1>2, <1>3 DEF CacheNext

LEMMA PurgeInductive == CacheTypeOK /\ PurgeInv /\ [HNext]_hvars => PurgeInv'
<1> SUFFICES ASSUME CacheTypeOK, PurgeInv, HNext PROVE PurgeInv'
  BY DEF hvars, cacheVars, PurgeInv
<1>1. CASE StartPurge
  <2>1. purge' = Keys /\ purges' = 1 /\ oldEntries' \subseteq Keys
    BY <1>1 DEF HNext, StartPurge, Holds
  <2> QED
    BY <2>1 DEF PurgeInv
<1>2. CASE PurgePage /\ ~StartPurge
  <2>1. purges = 1 /\ oldEntries \subseteq purge
    BY <1>2 DEF PurgePage, PurgeInv
  <2>2. PICK page \in (SUBSET purge) \ {{}} :
            /\ entry' = [k \in Keys |-> IF k \in page THEN NoEntry ELSE entry[k]]
            /\ purge' = purge \ page
    BY <1>2 DEF PurgePage
  <2>3. oldEntries' \subseteq oldEntries \cap Holds(entry')
    BY <1>2 DEF HNext
  <2>4. \A k \in page : k \notin Holds(entry')
    BY <2>2 DEF Holds, NoEntry
  <2>5. oldEntries' \subseteq purge'
    BY <2>1, <2>2, <2>3, <2>4
  <2>6. purges' = IF purge' = {} THEN 2 ELSE purges
    BY <1>2 DEF HNext
  <2> QED
    BY <2>1, <2>5, <2>6 DEF PurgeInv
<1>3. CASE ~PurgePage /\ ~StartPurge
  <2>1. purge' = purge \/ purge' = {}
    BY <1>3, PurgeStep DEF HNext
  <2>2. purges' = purges /\ oldEntries' \subseteq oldEntries
    BY <1>3 DEF HNext
  <2> QED
    BY <2>1, <2>2 DEF PurgeInv
<1> QED
  BY <1>1, <1>2, <1>3

\* When a purge is complete nothing is left of what the cache held when it
\* began, whatever the order and the size of its pages.
THEOREM PurgeLeavesNothing == HSpec => []PurgeIsComplete
<1>1. HInit => PurgeInv
  BY DEF HInit, CacheInit, PurgeInv
<1>2. PurgeInv => PurgeIsComplete
  BY DEF PurgeInv, PurgeIsComplete
<1> QED
  BY <1>1, <1>2, PurgeInductive, CacheTypeCorrect, PTL DEF HSpec

-----------------------------------------------------------------------------
(* The rate limiter: arithmetic *)

LEMMA Parameters ==
    /\ Limit \in Nat /\ Limit >= 1
    /\ Window \in Nat /\ Window >= 1
    /\ Capacity \in Nat /\ Capacity >= 1
    /\ Capacity * Window \in Nat /\ Limit * Window \in Nat
BY RateAssumption

LEMMA ProductsGrow ==
    ASSUME NEW a \in Int, NEW b \in Int, NEW c \in Nat, a <= b
    PROVE  a * c <= b * c
OBVIOUS

\* A clock lies in the window that WindowStart names.
LEMMA WindowHolds ==
    ASSUME NEW t \in Int
    PROVE  /\ WindowStart(t) \in Int
           /\ WindowStart(t) <= t
           /\ t < WindowStart(t) + Window
<1>1. Window \in Nat \ {0}
  BY RateAssumption
<1>2. (t \div Window) * Window <= t
  BY <1>1
<1>3. t < (t \div Window) * Window + Window
  BY <1>1
<1>4. t \div Window \in Int
  BY <1>1
<1> QED
  BY <1>1, <1>2, <1>3, <1>4 DEF WindowStart

\* Two windows are the same, or one is over before the other begins.
LEMMA WindowsApart ==
    ASSUME NEW t \in Int, NEW u \in Int, WindowStart(t) < WindowStart(u)
    PROVE  WindowStart(t) + Window <= WindowStart(u)
<1> DEFINE i == t \div Window
           j == u \div Window
<1>1. Window \in Nat \ {0}
  BY RateAssumption
<1>2. i \in Int /\ j \in Int
  BY <1>1
<1> HIDE DEF i, j
<1>3. i * Window < j * Window
  BY DEF WindowStart, i, j
<1>4. i < j
  BY <1>1, <1>2, <1>3
<1>5. (i + 1) * Window <= j * Window
  BY <1>1, <1>2, <1>4, ProductsGrow
<1>6. (i + 1) * Window = i * Window + Window
  BY <1>1, <1>2
<1> QED
  BY <1>5, <1>6 DEF WindowStart, i, j

LEMMA WindowsBegin ==
    ASSUME NEW t \in Int
    PROVE  WindowStart(WindowStart(t)) = WindowStart(t)
<1> DEFINE w == WindowStart(t)
<1>1. w \in Int
  BY WindowHolds
<1> HIDE DEF w
<1>2. WindowStart(w) \in Int /\ WindowStart(w) <= w /\ w < WindowStart(w) + Window
  BY <1>1, WindowHolds
<1>3. WindowStart(w) < w => WindowStart(w) + Window <= w
  BY <1>1, WindowsApart DEF w
<1> QED
  BY <1>1, <1>2, <1>3, Parameters DEF w

LEMMA FirstWindow == WindowStart(0) = 0
<1>1. Window \in Nat \ {0}
  BY RateAssumption
<1>2. 0 \div Window = 0
  BY <1>1
<1>3. 0 * Window = 0
  BY <1>1
<1> QED
  BY <1>2, <1>3 DEF WindowStart

\* Between two windows that are not next to each other there is another one.
LEMMA WindowsFarApart ==
    ASSUME NEW t \in Int, NEW u \in Int, WindowStart(t) + Window < WindowStart(u)
    PROVE  WindowStart(t) + 2 * Window <= WindowStart(u)
<1> DEFINE i == t \div Window
           j == u \div Window
<1>1. Window \in Nat \ {0}
  BY RateAssumption
<1>2. i \in Int /\ j \in Int
  BY <1>1
<1> HIDE DEF i, j
<1>3. (i + 1) * Window = i * Window + Window
  BY <1>1, <1>2
<1>4. (i + 1) * Window < j * Window
  BY <1>3 DEF WindowStart, i, j
<1>5. i + 1 < j
  BY <1>1, <1>2, <1>4
<1>6. (i + 2) * Window <= j * Window
  BY <1>1, <1>2, <1>5, ProductsGrow
<1>7. (i + 2) * Window = i * Window + 2 * Window
  BY <1>1, <1>2
<1> QED
  BY <1>6, <1>7 DEF WindowStart, i, j

\* The waits and the lifetimes are rounded up.
LEMMA RoundsUp ==
    ASSUME NEW n \in Int, NEW d \in Nat \ {0}
    PROVE  CeilDiv(n, d) \in Int /\ CeilDiv(n, d) * d >= n
<1> DEFINE m == n + d - 1
<1>1. m \in Int /\ m \div d \in Int
  OBVIOUS
<1>2. m < (m \div d) * d + d
  BY <1>1
<1> QED
  BY <1>1, <1>2 DEF CeilDiv

-----------------------------------------------------------------------------
(* The rate limiter: logs *)

\* A set of naturals that is not empty has a least element.
LEMMA LeastNatural ==
    ASSUME NEW T \in SUBSET Nat, T # {}
    PROVE  \E n \in T : \A m \in T : n <= m
<1>1. IsWellFoundedOn(OpToRel(<, Nat), Nat)
  BY NatLessThanWellFounded
<1>2. PICK n \in T : \A m \in T : ~ (<<m, n>> \in OpToRel(<, Nat))
  BY <1>1, WFMin, Zenon
<1>3. ASSUME NEW m \in T PROVE n <= m
  <2>1. ~(<<m, n>> \in OpToRel(<, Nat))
    BY <1>2
  <2>2. m \in Nat /\ n \in Nat
    OBVIOUS
  <2>3. ~(m < n)
    BY <2>1, <2>2 DEF OpToRel
  <2> QED
    BY <2>2, <2>3
<1> QED
  BY <1>3

\* Induction over the naturals, for a set.
LEMMA Induct ==
    ASSUME NEW T, 0 \in T, \A n \in Nat : n \in T => n + 1 \in T
    PROVE  Nat \subseteq T
<1> SUFFICES ASSUME Nat \ T # {} PROVE FALSE
  OBVIOUS
<1>1. PICK n \in Nat \ T : \A m \in Nat \ T : n <= m
  BY LeastNatural
<1>2. n # 0
  OBVIOUS
<1>3. n - 1 \in Nat /\ n - 1 \in T
  BY <1>1, <1>2
<1> QED
  BY <1>3

\* Induction over the sequences of a set, an entry at the end at a time.
LEMMA InductSeq ==
    ASSUME NEW E, NEW T, << >> \in T,
           \A s \in Seq(E) : s \in T => \A e \in E : Append(s, e) \in T
    PROVE  Seq(E) \subseteq T
<1> DEFINE L == {n \in Nat : \A s \in Seq(E) : Len(s) = n => s \in T}
<1>1. 0 \in L
  <2>1. \A s \in Seq(E) : Len(s) = 0 => s = << >>
    OBVIOUS
  <2> QED
    BY <2>1
<1>2. ASSUME NEW n \in Nat, n \in L PROVE n + 1 \in L
  <2> SUFFICES ASSUME NEW s \in Seq(E), Len(s) = n + 1 PROVE s \in T
    OBVIOUS
  <2> DEFINE front == [i \in 1 .. n |-> s[i]]
  <2>1. front \in Seq(E) /\ Len(front) = n /\ s[n + 1] \in E
    OBVIOUS
  <2>2. s = Append(front, s[n + 1])
    BY <2>1
  <2> QED
    BY <1>2, <2>1, <2>2
<1>3. Nat \subseteq L
  <2> HIDE DEF L
  <2> QED
    BY <1>1, <1>2, Induct
<1> QED
  BY <1>3

\* The sums that CostOf chooses exist, and are sums.
SumTo(s) ==
    CHOOSE f : f = [i \in 0 .. Len(s) |-> IF i = 0 THEN 0 ELSE f[i - 1] + s[i][2]]

LEMMA SumExists ==
    ASSUME NEW s, Len(s) \in Nat
    PROVE  /\ SumTo(s)[0] = 0
           /\ \A i \in 1 .. Len(s) : SumTo(s)[i] = SumTo(s)[i - 1] + s[i][2]
<1> DEFINE Solves(f, n) == f = [i \in 0 .. n |-> IF i = 0 THEN 0 ELSE f[i - 1] + s[i][2]]
           L == {n \in Nat : \E f : Solves(f, n)}
<1>1. 0 \in L
  <2>1. Solves([i \in 0 .. 0 |-> 0], 0)
    OBVIOUS
  <2> QED
    BY <2>1
<1>2. ASSUME NEW n \in Nat, n \in L PROVE n + 1 \in L
  <2>1. PICK f : Solves(f, n)
    BY <1>2
  <2> DEFINE g == [i \in 0 .. n + 1 |-> IF i <= n THEN f[i] ELSE f[n] + s[n + 1][2]]
  <2>2. Solves(g, n + 1)
    BY <2>1
  <2> HIDE DEF g, Solves
  <2> QED
    BY <2>2
<1>3. Nat \subseteq L
  <2> HIDE DEF L
  <2> QED
    BY <1>1, <1>2, Induct
<1>4. Solves(SumTo(s), Len(s))
  <2>1. \E f : Solves(f, Len(s))
    BY <1>3
  <2> QED
    BY <2>1 DEF SumTo
<1> DEFINE f == SumTo(s)
<1>5. f = [i \in 0 .. Len(s) |-> IF i = 0 THEN 0 ELSE f[i - 1] + s[i][2]]
  BY <1>4
<1> HIDE DEF f
<1> QED
  BY <1>5 DEF f

LEMMA CostOfEmpty == CostOf(<< >>) = 0
<1>1. Len(<< >>) = 0
  OBVIOUS
<1>2. SumTo(<< >>)[0] = 0
  BY <1>1, SumExists
<1> QED
  BY <1>1, <1>2 DEF CostOf, SumTo

LEMMA CostOfAppend ==
    ASSUME NEW E, NEW s \in Seq(E), NEW e \in E
    PROVE  CostOf(Append(s, e)) = CostOf(s) + e[2]
<1> DEFINE t == Append(s, e)
           n == Len(s)
           f == SumTo(s)
           g == SumTo(t)
<1>1. n \in Nat /\ Len(t) = n + 1 /\ t[n + 1] = e /\ \A i \in 1 .. n : t[i] = s[i]
  OBVIOUS
<1> HIDE DEF t
<1>2. f[0] = 0 /\ \A i \in 1 .. n : f[i] = f[i - 1] + s[i][2]
  BY <1>1, SumExists
<1>3. g[0] = 0 /\ \A i \in 1 .. n + 1 : g[i] = g[i - 1] + t[i][2]
  BY <1>1, SumExists
<1>4. CostOf(s) = f[n] /\ CostOf(t) = g[n + 1]
  BY <1>1 DEF CostOf, SumTo
<1> DEFINE L == {i \in Nat : i <= n => f[i] = g[i]}
<1> HIDE DEF f, g, n
<1>5. 0 \in L
  BY <1>1, <1>2, <1>3
<1>6. ASSUME NEW i \in Nat, i \in L, i + 1 <= n PROVE f[i + 1] = g[i + 1]
  <2>1. i + 1 \in 1 .. n /\ i + 1 \in 1 .. n + 1 /\ (i + 1) - 1 = i /\ f[i] = g[i]
    BY <1>1, <1>6
  <2>2. f[i + 1] = f[i] + s[i + 1][2]
    BY <1>2, <2>1
  <2>3. g[i + 1] = g[i] + t[i + 1][2]
    BY <1>3, <2>1
  <2> QED
    BY <1>1, <2>1, <2>2, <2>3
<1>7. Nat \subseteq L
  <2>1. \A i \in Nat : i \in L => i + 1 \in L
    BY <1>6
  <2> HIDE DEF L
  <2> QED
    BY <1>5, <2>1, Induct
<1>8. f[n] = g[n]
  BY <1>1, <1>7
<1>9. g[n + 1] = g[n] + e[2]
  <2>1. n + 1 \in 1 .. n + 1 /\ (n + 1) - 1 = n
    BY <1>1
  <2> QED
    BY <1>1, <1>3, <2>1
<1> QED
  BY <1>4, <1>8, <1>9 DEF t

\* The filtered logs that Alive chooses exist, and are what it describes.
KeptTo(s, u) ==
    CHOOSE f : f = [i \in 0 .. Len(s) |->
                       IF i = 0 THEN << >>
                       ELSE IF s[i][1] > u THEN Append(f[i - 1], s[i])
                       ELSE f[i - 1]]

LEMMA KeptExists ==
    ASSUME NEW s, Len(s) \in Nat, NEW u
    PROVE  /\ KeptTo(s, u)[0] = << >>
           /\ \A i \in 1 .. Len(s) :
                 KeptTo(s, u)[i] = IF s[i][1] > u THEN Append(KeptTo(s, u)[i - 1], s[i])
                                   ELSE KeptTo(s, u)[i - 1]
<1> DEFINE Solves(f, n) == f = [i \in 0 .. n |->
                                   IF i = 0 THEN << >>
                                   ELSE IF s[i][1] > u THEN Append(f[i - 1], s[i])
                                   ELSE f[i - 1]]
           L == {n \in Nat : \E f : Solves(f, n)}
<1>1. 0 \in L
  <2>1. Solves([i \in 0 .. 0 |-> << >>], 0)
    OBVIOUS
  <2> QED
    BY <2>1
<1>2. ASSUME NEW n \in Nat, n \in L PROVE n + 1 \in L
  <2>1. PICK f : Solves(f, n)
    BY <1>2
  <2> DEFINE x == IF s[n + 1][1] > u THEN Append(f[n], s[n + 1]) ELSE f[n]
             g == [i \in 0 .. n + 1 |-> IF i <= n THEN f[i] ELSE x]
             h == [i \in 0 .. n + 1 |->
                      IF i = 0 THEN << >>
                      ELSE IF s[i][1] > u THEN Append(g[i - 1], s[i])
                      ELSE g[i - 1]]
  <2>2. ASSUME NEW i \in 0 .. n + 1 PROVE g[i] = h[i]
    <3>1. CASE i = 0
      BY <2>1, <3>1
    <3>2. CASE i \in 1 .. n
      <4>1. f[i] = IF s[i][1] > u THEN Append(f[i - 1], s[i]) ELSE f[i - 1]
        <5>1. i \in 0 .. n /\ i # 0
          BY <3>2
        <5> QED
          BY <2>1, <5>1
      <4>2. i \in 0 .. n + 1 /\ i - 1 \in 0 .. n + 1 /\ i # 0
        BY <3>2
      <4>3. g[i] = f[i] /\ g[i - 1] = f[i - 1]
        BY <3>2, <4>2
      <4> HIDE DEF g
      <4> QED
        BY <4>1, <4>2, <4>3
    <3>3. CASE i = n + 1
      <4>1. i \in 0 .. n + 1 /\ i - 1 \in 0 .. n + 1 /\ i # 0 /\ i - 1 = n
        BY <3>3
      <4>2. g[i] = x /\ g[n] = f[n]
        BY <3>3, <4>1
      <4> HIDE DEF g
      <4> QED
        BY <3>3, <4>1, <4>2
    <3> QED
      BY <3>1, <3>2, <3>3
  <2>3. g = h
    <3>1. g = [i \in 0 .. n + 1 |-> g[i]] /\ h = [i \in 0 .. n + 1 |-> h[i]]
      OBVIOUS
    <3> HIDE DEF g, h
    <3> QED
      BY <2>2, <3>1
  <2>4. Solves(g, n + 1)
    BY <2>3
  <2> HIDE DEF g, Solves
  <2> QED
    BY <2>4
<1>3. Nat \subseteq L
  <2> HIDE DEF L
  <2> QED
    BY <1>1, <1>2, Induct
<1>4. Solves(KeptTo(s, u), Len(s))
  <2>1. \E f : Solves(f, Len(s))
    BY <1>3
  <2> QED
    BY <2>1 DEF KeptTo
<1> DEFINE f == KeptTo(s, u)
<1>5. f = [i \in 0 .. Len(s) |->
              IF i = 0 THEN << >>
              ELSE IF s[i][1] > u THEN Append(f[i - 1], s[i])
              ELSE f[i - 1]]
  BY <1>4
<1> HIDE DEF f
<1>6. f[0] = << >>
  BY <1>5
<1>7. ASSUME NEW i \in 1 .. Len(s)
      PROVE  f[i] = IF s[i][1] > u THEN Append(f[i - 1], s[i]) ELSE f[i - 1]
  <2>1. i \in 0 .. Len(s) /\ i # 0
    OBVIOUS
  <2> QED
    BY <1>5, <2>1
<1> QED
  BY <1>6, <1>7 DEF f

LEMMA AliveEmpty == ASSUME NEW u PROVE Alive(<< >>, u) = << >>
<1>1. Len(<< >>) = 0
  OBVIOUS
<1>2. KeptTo(<< >>, u)[0] = << >>
  BY <1>1, KeptExists
<1> QED
  BY <1>1, <1>2 DEF Alive, KeptTo

LEMMA AliveAppend ==
    ASSUME NEW E, NEW s \in Seq(E), NEW e \in E, NEW u
    PROVE  Alive(Append(s, e), u) = IF e[1] > u THEN Append(Alive(s, u), e) ELSE Alive(s, u)
<1> DEFINE t == Append(s, e)
           n == Len(s)
           f == KeptTo(s, u)
           g == KeptTo(t, u)
           Step(h, x) == IF x[1] > u THEN Append(h, x) ELSE h
<1>1. n \in Nat /\ Len(t) = n + 1 /\ t[n + 1] = e /\ \A i \in 1 .. n : t[i] = s[i]
  OBVIOUS
<1> HIDE DEF t
<1>2. f[0] = << >> /\ \A i \in 1 .. n : f[i] = Step(f[i - 1], s[i])
  BY <1>1, KeptExists
<1>3. g[0] = << >> /\ \A i \in 1 .. n + 1 : g[i] = Step(g[i - 1], t[i])
  BY <1>1, KeptExists
<1>4. Alive(s, u) = f[n] /\ Alive(t, u) = g[n + 1]
  BY <1>1 DEF Alive, KeptTo
<1> DEFINE L == {i \in Nat : i <= n => f[i] = g[i]}
<1> HIDE DEF f, g, n, Step
<1>5. 0 \in L
  BY <1>1, <1>2, <1>3
<1>6. ASSUME NEW i \in Nat, i \in L, i + 1 <= n PROVE f[i + 1] = g[i + 1]
  <2>1. i + 1 \in 1 .. n /\ i + 1 \in 1 .. n + 1 /\ (i + 1) - 1 = i /\ f[i] = g[i]
    BY <1>1, <1>6
  <2>2. f[i + 1] = Step(f[i], s[i + 1])
    BY <1>2, <2>1
  <2>3. g[i + 1] = Step(g[i], t[i + 1])
    BY <1>3, <2>1
  <2> QED
    BY <1>1, <2>1, <2>2, <2>3
<1>7. Nat \subseteq L
  <2>1. \A i \in Nat : i \in L => i + 1 \in L
    BY <1>6
  <2> HIDE DEF L
  <2> QED
    BY <1>5, <2>1, Induct
<1>8. f[n] = g[n]
  BY <1>1, <1>7
<1>9. g[n + 1] = Step(g[n], e)
  <2>1. n + 1 \in 1 .. n + 1 /\ (n + 1) - 1 = n
    BY <1>1
  <2> QED
    BY <1>1, <1>3, <2>1
<1> QED
  BY <1>4, <1>8, <1>9 DEF t, Step

LogEntry == Int \X (Nat \ {0})

LEMMA SeqGrows ==
    ASSUME NEW E, NEW F, E \subseteq F, NEW s \in Seq(E)
    PROVE  s \in Seq(F)
<1>1. Len(s) \in Nat /\ s = [i \in 1 .. Len(s) |-> s[i]] /\ \A i \in 1 .. Len(s) : s[i] \in F
  OBVIOUS
<1> QED
  BY <1>1

\* What the filter leaves is a log of what it lets through, and costs no more.
LEMMA AliveCosts ==
    ASSUME NEW E, E \subseteq LogEntry, NEW s \in Seq(E), NEW u \in Int
    PROVE  /\ Alive(s, u) \in Seq({e \in E : e[1] > u})
           /\ Alive(s, u) \in Seq(E)
           /\ CostOf(s) \in Nat /\ CostOf(Alive(s, u)) \in Nat
           /\ CostOf(Alive(s, u)) <= CostOf(s)
<1> DEFINE F == {e \in E : e[1] > u}
           Good(w) == /\ Alive(w, u) \in Seq(F)
                      /\ CostOf(w) \in Nat /\ CostOf(Alive(w, u)) \in Nat
                      /\ CostOf(Alive(w, u)) <= CostOf(w)
           T == {w \in Seq(E) : Good(w)}
<1>1. << >> \in T
  <2>1. << >> \in Seq(E)
    OBVIOUS
  <2>2. Alive(<< >>, u) = << >> /\ CostOf(<< >>) = 0
    BY AliveEmpty, CostOfEmpty
  <2> HIDE DEF F
  <2>3. CostOf(Alive(<< >>, u)) = 0
    BY <2>2
  <2>4. CostOf(Alive(<< >>, u)) <= CostOf(<< >>)
    BY <2>2, <2>3
  <2>5. Good(<< >>)
    <3>1. Alive(<< >>, u) \in Seq(F)
      <4>1. << >> \in Seq(F)
        OBVIOUS
      <4> QED
        BY <2>2, <4>1, Zenon
    <3> QED
      BY <2>2, <2>3, <2>4, <3>1
  <2> QED
    BY <2>1, <2>5
<1>2. ASSUME NEW w \in Seq(E), w \in T, NEW e \in E PROVE Append(w, e) \in T
  <2>1. e[1] \in Int /\ e[2] \in Nat
    BY DEF LogEntry
  <2>2. Append(w, e) \in Seq(E)
    OBVIOUS
  <2>3. CostOf(Append(w, e)) = CostOf(w) + e[2]
    BY CostOfAppend
  <2>4. CASE e[1] > u
    <3>1. Alive(Append(w, e), u) = Append(Alive(w, u), e)
      BY <2>4, AliveAppend
    <3>2. Alive(w, u) \in Seq(F) /\ e \in F
      BY <1>2, <2>4
    <3>3. CostOf(Append(Alive(w, u), e)) = CostOf(Alive(w, u)) + e[2]
      BY <3>2, CostOfAppend
    <3>4. Append(Alive(w, u), e) \in Seq(F)
      BY <3>2
    <3>5. Good(w)
      BY <1>2
    <3> HIDE DEF F
    <3>6. Alive(Append(w, e), u) \in Seq(F)
      BY <3>1, <3>4
    <3>7. /\ CostOf(w) \in Nat /\ CostOf(Alive(w, u)) \in Nat
          /\ CostOf(Alive(w, u)) <= CostOf(w)
      BY <3>5
    <3>8. CostOf(Alive(Append(w, e), u)) = CostOf(Alive(w, u)) + e[2]
      BY <3>1, <3>3
    <3>9. /\ CostOf(Append(w, e)) \in Nat /\ CostOf(Alive(Append(w, e), u)) \in Nat
          /\ CostOf(Alive(Append(w, e), u)) <= CostOf(Append(w, e))
      BY <2>1, <2>3, <3>7, <3>8
    <3>10. Good(Append(w, e))
      BY <3>6, <3>9
    <3> QED
      BY <2>2, <3>10
  <2>5. CASE ~(e[1] > u)
    <3>1. Alive(Append(w, e), u) = Alive(w, u)
      BY <2>5, AliveAppend
    <3> QED
      BY <1>2, <2>1, <2>2, <2>3, <3>1
  <2> QED
    BY <2>4, <2>5
<1>3. Seq(E) \subseteq T
  <2> HIDE DEF T
  <2> QED
    BY <1>1, <1>2, InductSeq
<1>4. s \in T
  BY <1>3
<1>5. Alive(s, u) \in Seq(E)
  <2>1. F \subseteq E /\ Alive(s, u) \in Seq(F)
    BY <1>4
  <2> HIDE DEF F, T
  <2> QED
    BY <2>1, SeqGrows
<1> QED
  BY <1>4, <1>5

\* A log whose entries have all left its window is empty.
LEMMA AliveNothing ==
    ASSUME NEW E, E \subseteq LogEntry, NEW u \in Int, NEW s \in Seq({e \in E : e[1] <= u})
    PROVE  Alive(s, u) = << >>
<1> DEFINE F == {e \in E : e[1] <= u}
<1>1. F \subseteq LogEntry
  OBVIOUS
<1>2. {e \in F : e[1] > u} = {}
  BY DEF LogEntry
<1>3. Alive(s, u) \in Seq({e \in F : e[1] > u})
  BY <1>1, AliveCosts
<1> QED
  BY <1>2, <1>3

\* Filtering twice is filtering with the later of the two windows.
LEMMA AliveTwice ==
    ASSUME NEW s \in Seq(LogEntry), NEW u \in Int, NEW v \in Int, u <= v
    PROVE  Alive(Alive(s, u), v) = Alive(s, v)
<1> DEFINE T == {w \in Seq(LogEntry) : Alive(Alive(w, u), v) = Alive(w, v)}
<1>1. << >> \in T
  BY AliveEmpty
<1>2. ASSUME NEW w \in Seq(LogEntry), w \in T, NEW e \in LogEntry
      PROVE  Append(w, e) \in T
  <2>1. e[1] \in Int /\ Append(w, e) \in Seq(LogEntry)
    BY DEF LogEntry
  <2>2. Alive(w, u) \in Seq(LogEntry)
    BY AliveCosts
  <2>3. CASE e[1] > u
    <3>1. Alive(Append(w, e), u) = Append(Alive(w, u), e)
      BY <2>3, AliveAppend
    <3>2. Alive(Append(Alive(w, u), e), v) =
              IF e[1] > v THEN Append(Alive(Alive(w, u), v), e) ELSE Alive(Alive(w, u), v)
      BY <2>2, AliveAppend
    <3>3. Alive(Append(w, e), v) = IF e[1] > v THEN Append(Alive(w, v), e) ELSE Alive(w, v)
      BY AliveAppend
    <3> QED
      BY <1>2, <2>1, <3>1, <3>2, <3>3
  <2>4. CASE ~(e[1] > u)
    <3>1. Alive(Append(w, e), u) = Alive(w, u)
      BY <2>4, AliveAppend
    <3>2. ~(e[1] > v)
      BY <2>1, <2>4
    <3>3. Alive(Append(w, e), v) = Alive(w, v)
      BY <3>2, AliveAppend
    <3> QED
      BY <1>2, <2>1, <3>1, <3>3
  <2> QED
    BY <2>3, <2>4
<1>3. Seq(LogEntry) \subseteq T
  <2> HIDE DEF T
  <2> QED
    BY <1>1, <1>2, InductSeq
<1> QED
  BY <1>3

\* When any of its entries leaves, the log costs less.
LEMMA OneLeaves ==
    ASSUME NEW s \in Seq(LogEntry), NEW u \in Int, NEW k \in 1 .. Len(s), s[k][1] <= u
    PROVE  CostOf(Alive(s, u)) < CostOf(s)
<1> DEFINE Stays(w) == \A i \in 1 .. Len(w) : w[i][1] > u
           T == {w \in Seq(LogEntry) : Stays(w) \/ CostOf(Alive(w, u)) < CostOf(w)}
<1>1. << >> \in T
  OBVIOUS
<1>2. ASSUME NEW w \in Seq(LogEntry), w \in T, NEW e \in LogEntry
      PROVE  Append(w, e) \in T
  <2>1. e[1] \in Int /\ e[2] \in Nat /\ e[2] > 0 /\ Append(w, e) \in Seq(LogEntry)
    BY DEF LogEntry
  <2>2. CostOf(Append(w, e)) = CostOf(w) + e[2]
    BY CostOfAppend
  <2>3. /\ CostOf(w) \in Nat /\ CostOf(Alive(w, u)) \in Nat
        /\ Alive(w, u) \in Seq(LogEntry) /\ CostOf(Alive(w, u)) <= CostOf(w)
    BY AliveCosts
  <2>4. CASE e[1] > u
    <3>1. CASE Stays(w)
      <4>1. \A i \in 1 .. Len(w) + 1 :
                Append(w, e)[i] = IF i = Len(w) + 1 THEN e ELSE w[i]
        OBVIOUS
      <4>2. Len(Append(w, e)) = Len(w) + 1 /\ Len(w) \in Nat
        OBVIOUS
      <4>3. Stays(Append(w, e))
        BY <2>4, <3>1, <4>1, <4>2
      <4> QED
        BY <2>1, <4>3
    <3>2. CASE CostOf(Alive(w, u)) < CostOf(w)
      <4>1. Alive(Append(w, e), u) = Append(Alive(w, u), e)
        BY <2>4, AliveAppend
      <4>2. CostOf(Append(Alive(w, u), e)) = CostOf(Alive(w, u)) + e[2]
        BY <2>3, CostOfAppend
      <4>3. CostOf(Alive(Append(w, e), u)) < CostOf(Append(w, e))
        BY <2>1, <2>2, <2>3, <3>2, <4>1, <4>2
      <4> QED
        BY <2>1, <4>3
    <3> QED
      BY <1>2, <3>1, <3>2
  <2>5. CASE ~(e[1] > u)
    <3>1. Alive(Append(w, e), u) = Alive(w, u)
      BY <2>5, AliveAppend
    <3>2. CostOf(Alive(Append(w, e), u)) < CostOf(Append(w, e))
      BY <2>1, <2>2, <2>3, <3>1
    <3> QED
      BY <2>1, <3>2
  <2> QED
    BY <2>4, <2>5
<1>3. Seq(LogEntry) \subseteq T
  <2> HIDE DEF T
  <2> QED
    BY <1>1, <1>2, InductSeq
<1>4. \A w \in T : Stays(w) \/ CostOf(Alive(w, u)) < CostOf(w)
  OBVIOUS
<1>5. s[k][1] \in Int
  <2>1. s[k] \in LogEntry
    OBVIOUS
  <2> QED
    BY <2>1 DEF LogEntry
<1>6. ~Stays(s)
  BY <1>5
<1> HIDE DEF T, Stays
<1> QED
  BY <1>3, <1>4, <1>6

\* A log that is not empty has an earliest entry.
LEMMA EarliestIs ==
    ASSUME NEW s \in Seq(LogEntry), s # << >>
    PROVE  Earliest(s) \in Int /\ \E k \in 1 .. Len(s) : s[k][1] = Earliest(s)
<1> DEFINE First(w, k) == \A j \in 1 .. Len(w) : w[k][1] <= w[j][1]
           T == {w \in Seq(LogEntry) : w = << >> \/ \E k \in 1 .. Len(w) : First(w, k)}
<1>1. << >> \in T
  OBVIOUS
<1>2. ASSUME NEW w \in Seq(LogEntry), w \in T, NEW e \in LogEntry
      PROVE  Append(w, e) \in T
  <2>0. Append(w, e) \in Seq(LogEntry)
    OBVIOUS
  <2>1. PICK v \in Seq(LogEntry) : v = Append(w, e)
    BY <2>0, Zenon
  <2>2. /\ Len(w) \in Nat /\ Len(v) = Len(w) + 1 /\ v[Len(w) + 1] = e
        /\ \A j \in 1 .. Len(w) : v[j] = w[j]
    BY <2>1
  <2>3. e[1] \in Int /\ \A j \in 1 .. Len(w) : w[j][1] \in Int
    <3>1. \A j \in 1 .. Len(w) : w[j] \in LogEntry
      OBVIOUS
    <3> QED
      BY <3>1 DEF LogEntry
  <2>4. \E k \in 1 .. Len(v) : First(v, k)
    <3>1. CASE w = << >>
      <4>1. Len(w) = 0
        BY <3>1
      <4>2. First(v, 1) /\ 1 \in 1 .. Len(v)
        BY <2>2, <2>3, <4>1
      <4> QED
        BY <4>2
    <3>2. CASE w # << >>
      <4>1. PICK k \in 1 .. Len(w) : First(w, k)
        BY <1>2, <3>2
      <4>2. k \in 1 .. Len(v) /\ v[k] = w[k] /\ w[k][1] \in Int
        BY <2>2, <2>3
      <4>3. CASE w[k][1] <= e[1]
        <5>1. First(v, k)
          BY <2>2, <4>1, <4>2, <4>3
        <5> QED
          BY <4>2, <5>1
      <4>4. CASE ~(w[k][1] <= e[1])
        <5>1. \A j \in 1 .. Len(w) : e[1] <= w[j][1]
          BY <2>3, <4>1, <4>2, <4>4
        <5>2. Len(w) + 1 \in 1 .. Len(v)
          BY <2>2
        <5>3. ASSUME NEW j \in 1 .. Len(v) PROVE v[Len(w) + 1][1] <= v[j][1]
          <6>1. CASE j \in 1 .. Len(w)
            BY <2>2, <5>1, <6>1
          <6>2. CASE j = Len(w) + 1
            BY <2>2, <2>3, <6>2
          <6> QED
            BY <2>2, <6>1, <6>2
        <5> QED
          BY <5>2, <5>3
      <4> QED
        BY <4>3, <4>4
    <3> QED
      BY <3>1, <3>2
  <2> QED
    BY <2>1, <2>4
<1>3. Seq(LogEntry) \subseteq T
  <2> HIDE DEF T
  <2> QED
    BY <1>1, <1>2, InductSeq
<1>4. PICK k \in 1 .. Len(s) : First(s, k)
  <2>1. s \in T
    BY <1>3
  <2> QED
    BY <2>1
<1>5. DOMAIN s = 1 .. Len(s)
  OBVIOUS
<1> DEFINE times == {s[i][1] : i \in DOMAIN s}
<1>6. \E t \in times : \A u \in times : t <= u
  <2>1. s[k][1] \in times /\ \A u \in times : s[k][1] <= u
    BY <1>4, <1>5
  <2> QED
    BY <2>1
<1>7. Earliest(s) \in times
  <2>1. Earliest(s) = CHOOSE t \in times : \A u \in times : t <= u
    BY DEF Earliest
  <2> HIDE DEF times
  <2> QED
    BY <1>6, <2>1
<1>8. PICK i \in 1 .. Len(s) : s[i][1] = Earliest(s)
  BY <1>5, <1>7
<1>9. s[i] \in LogEntry
  OBVIOUS
<1> QED
  BY <1>8, <1>9 DEF LogEntry

-----------------------------------------------------------------------------
(* The rate limiter: what the algorithms keep *)

Parts == 0 .. Capacity * Window

FixedWindowState == [start : Int, count : 0 .. Limit]
TokenBucketState == [tokens : Parts, last : Int]
LeakyBucketState == [level : Parts, last : Int]
LogState == {s \in Seq(LogEntry) : CostOf(s) <= Limit}
CounterState ==
    {s \in [start : Int, previous : 0 .. Limit, current : 0 .. Limit] :
        s.previous > 0 => s.current < Limit}

StateOf(a) ==
    CASE a = "fixedWindow"          -> FixedWindowState
      [] a = "tokenBucket"          -> TokenBucketState
      [] a = "leakyBucket"          -> LeakyBucketState
      [] a = "slidingWindowLog"     -> LogState
      [] a = "slidingWindowCounter" -> CounterState

\* What a call at clock t finds in a state.
CountAt(s, t) == IF s.start = WindowStart(t) THEN s.count ELSE 0
TokensAt(s, t) == AtMost(Capacity * Window, s.tokens + AtLeast0(t - s.last) * Limit)
LevelAt(s, t) == AtLeast0(s.level - AtLeast0(t - s.last) * Limit)
LogAt(s, t) == Alive(s, t - Window)
CounterAt(s, t) == CarryForward(s, WindowStart(t))
Estimate(s, t) ==
    CounterAt(s, t).previous * (Window - (t - WindowStart(t)))
        + CounterAt(s, t).current * Window

LEMMA Decided ==
    ASSUME NEW st, NEW ok \in BOOLEAN, NEW wait
    PROVE  LET r == Decision(st, ok, wait)
           IN  /\ r.state = st /\ r.allowed = ok
               /\ ok => r.retryAfter = 0
               /\ ~ok => r.retryAfter = wait
BY DEF Decision

\* Each algorithm, in those terms.
LEMMA FixedWindowMeans ==
    ASSUME NEW s, NEW t, NEW c
    PROVE  LET r == FixedWindow(s, t, c)
               n == CountAt(s, t)
           IN  /\ r.allowed \in BOOLEAN
               /\ r.allowed <=> n + c <= Limit
               /\ r.allowed => /\ r.state = [start |-> WindowStart(t), count |-> n + c]
                               /\ r.retryAfter = 0
               /\ ~r.allowed => /\ r.state = [start |-> WindowStart(t), count |-> n]
                                /\ r.retryAfter = WindowStart(t) + Window - t
<1> DEFINE r == FixedWindow(s, t, c)
           n == CountAt(s, t)
           ok == n + c <= Limit
           st == [start |-> WindowStart(t), count |-> IF ok THEN n + c ELSE n]
           wait == WindowStart(t) + Window - t
<1>1. r = Decision(st, ok, wait)
  BY DEF FixedWindow, CountAt
<1>2. ok \in BOOLEAN
  OBVIOUS
<1>3. /\ ok => st = [start |-> WindowStart(t), count |-> n + c]
      /\ ~ok => st = [start |-> WindowStart(t), count |-> n]
  OBVIOUS
<1> HIDE DEF r, st, ok, wait
<1>4. /\ r.state = st /\ (r.allowed <=> ok) /\ r.allowed \in BOOLEAN
      /\ ok => r.retryAfter = 0
      /\ ~ok => r.retryAfter = wait
  BY <1>1, <1>2, Decided
<1> QED
  BY <1>3, <1>4 DEF r, ok, wait

LEMMA TokenBucketMeans ==
    ASSUME NEW s, NEW t, NEW c
    PROVE  LET r == TokenBucket(s, t, c)
               n == TokensAt(s, t)
           IN  /\ r.allowed \in BOOLEAN
               /\ r.allowed <=> n >= c * Window
               /\ r.allowed => /\ r.state = [tokens |-> n - c * Window, last |-> t]
                               /\ r.retryAfter = 0
               /\ ~r.allowed => /\ r.state = [tokens |-> n, last |-> t]
                                /\ r.retryAfter = CeilDiv(c * Window - n, Limit)
<1> DEFINE r == TokenBucket(s, t, c)
           n == TokensAt(s, t)
           ok == n >= c * Window
           st == [tokens |-> IF ok THEN n - c * Window ELSE n, last |-> t]
           wait == CeilDiv(c * Window - n, Limit)
<1>1. r = Decision(st, ok, wait)
  BY DEF TokenBucket, TokensAt
<1>2. ok \in BOOLEAN
  OBVIOUS
<1>3. /\ ok => st = [tokens |-> n - c * Window, last |-> t]
      /\ ~ok => st = [tokens |-> n, last |-> t]
  OBVIOUS
<1> HIDE DEF r, st, ok, wait
<1>4. /\ r.state = st /\ (r.allowed <=> ok) /\ r.allowed \in BOOLEAN
      /\ ok => r.retryAfter = 0
      /\ ~ok => r.retryAfter = wait
  BY <1>1, <1>2, Decided
<1> QED
  BY <1>3, <1>4 DEF r, ok, wait

LEMMA LeakyBucketMeans ==
    ASSUME NEW s, NEW t, NEW c
    PROVE  LET r == LeakyBucket(s, t, c)
               n == LevelAt(s, t)
           IN  /\ r.allowed \in BOOLEAN
               /\ r.allowed <=> n + c * Window <= Capacity * Window
               /\ r.allowed => /\ r.state = [level |-> n + c * Window, last |-> t]
                               /\ r.retryAfter = 0
               /\ ~r.allowed => /\ r.state = [level |-> n, last |-> t]
                                /\ r.retryAfter =
                                      CeilDiv(n + c * Window - Capacity * Window, Limit)
<1> DEFINE r == LeakyBucket(s, t, c)
           n == LevelAt(s, t)
           ok == n + c * Window <= Capacity * Window
           st == [level |-> IF ok THEN n + c * Window ELSE n, last |-> t]
           wait == CeilDiv(n + c * Window - Capacity * Window, Limit)
<1>1. r = Decision(st, ok, wait)
  BY DEF LeakyBucket, LevelAt
<1>2. ok \in BOOLEAN
  OBVIOUS
<1>3. /\ ok => st = [level |-> n + c * Window, last |-> t]
      /\ ~ok => st = [level |-> n, last |-> t]
  OBVIOUS
<1> HIDE DEF r, st, ok, wait
<1>4. /\ r.state = st /\ (r.allowed <=> ok) /\ r.allowed \in BOOLEAN
      /\ ok => r.retryAfter = 0
      /\ ~ok => r.retryAfter = wait
  BY <1>1, <1>2, Decided
<1> QED
  BY <1>3, <1>4 DEF r, ok, wait

LEMMA LogMeans ==
    ASSUME NEW s, NEW t, NEW c
    PROVE  LET r == SlidingWindowLog(s, t, c)
               n == LogAt(s, t)
           IN  /\ r.allowed \in BOOLEAN
               /\ r.allowed <=> CostOf(n) + c <= Limit
               /\ r.allowed => r.state = Append(n, <<t, c>>) /\ r.retryAfter = 0
               /\ ~r.allowed => /\ r.state = n
                                /\ r.retryAfter = (IF n = << >> THEN t ELSE n[1][1])
                                                      + Window - t
<1> DEFINE r == SlidingWindowLog(s, t, c)
           n == LogAt(s, t)
           ok == CostOf(n) + c <= Limit
           st == IF ok THEN Append(n, <<t, c>>) ELSE n
           wait == (IF n = << >> THEN t ELSE n[1][1]) + Window - t
<1>1. r = Decision(st, ok, wait)
  BY DEF SlidingWindowLog, LogDecision, LogAt
<1>2. ok \in BOOLEAN
  OBVIOUS
<1>3. /\ ok => st = Append(n, <<t, c>>)
      /\ ~ok => st = n
  OBVIOUS
<1> HIDE DEF r, st, ok, wait
<1>4. /\ r.state = st /\ (r.allowed <=> ok) /\ r.allowed \in BOOLEAN
      /\ ok => r.retryAfter = 0
      /\ ~ok => r.retryAfter = wait
  BY <1>1, <1>2, Decided
<1> QED
  BY <1>3, <1>4 DEF r, ok, wait

\* The script of the log differs in the hint only.
LEMMA ScriptLogMeans ==
    ASSUME NEW s, NEW t, NEW c
    PROVE  LET r == SlidingWindowLogScript(s, t, c)
               q == SlidingWindowLog(s, t, c)
               n == LogAt(s, t)
           IN  /\ r.state = q.state /\ r.allowed = q.allowed
               /\ r.allowed => r.retryAfter = 0
               /\ ~r.allowed => r.retryAfter = (IF n = << >> THEN t ELSE Earliest(n))
                                                   + Window - t
<1> DEFINE r == SlidingWindowLogScript(s, t, c)
           q == SlidingWindowLog(s, t, c)
           n == LogAt(s, t)
           ok == CostOf(n) + c <= Limit
           st == IF ok THEN Append(n, <<t, c>>) ELSE n
           wait == (IF n = << >> THEN t ELSE n[1][1]) + Window - t
           early == (IF n = << >> THEN t ELSE Earliest(n)) + Window - t
<1>1. r = Decision(st, ok, early) /\ q = Decision(st, ok, wait)
  BY DEF SlidingWindowLog, SlidingWindowLogScript, LogDecision, LogAt
<1>2. ok \in BOOLEAN
  OBVIOUS
<1> HIDE DEF r, q, st, ok, wait, early
<1>3. /\ r.state = st /\ r.allowed = ok /\ q.state = st /\ q.allowed = ok
      /\ ok => r.retryAfter = 0
      /\ ~ok => r.retryAfter = early
  BY <1>1, <1>2, Decided
<1> QED
  BY <1>3 DEF r, q, early

Counted(n, current) == [n EXCEPT !.current = current]

LEMMA CounterMeans ==
    ASSUME NEW s, NEW t, NEW c
    PROVE  LET r == SlidingWindowCounter(s, t, c)
               n == CounterAt(s, t)
               e == Estimate(s, t)
           IN  /\ r.allowed \in BOOLEAN
               /\ r.allowed <=> e + c * Window <= Limit * Window
               /\ r.allowed => /\ r.state = Counted(n, n.current + c)
                               /\ r.retryAfter = 0
               /\ ~r.allowed => /\ r.state = Counted(n, n.current)
                                /\ r.retryAfter =
                                      CeilDiv(e + c * Window - Limit * Window, Limit)
<1> DEFINE r == SlidingWindowCounter(s, t, c)
           n == CounterAt(s, t)
           ok == Estimate(s, t) + c * Window <= Limit * Window
           st == [n EXCEPT !.current = IF ok THEN @ + c ELSE @]
           wait == CeilDiv(Estimate(s, t) + c * Window - Limit * Window, Limit)
<1>1. r = Decision(st, ok, wait)
  BY DEF SlidingWindowCounter, CounterAt, Estimate
<1>2. ok \in BOOLEAN
  OBVIOUS
<1>3. /\ ok => st = Counted(n, n.current + c)
      /\ ~ok => st = Counted(n, n.current)
  BY DEF Counted
<1> HIDE DEF r, st, ok, wait
<1>4. /\ r.state = st /\ (r.allowed <=> ok) /\ r.allowed \in BOOLEAN
      /\ ok => r.retryAfter = 0
      /\ ~ok => r.retryAfter = wait
  BY <1>1, <1>2, Decided
<1> QED
  BY <1>3, <1>4 DEF r, ok, wait

LEMMA TokensType ==
    ASSUME NEW s \in TokenBucketState, NEW t \in Int
    PROVE  /\ TokensAt(s, t) \in Parts
           /\ t >= s.last => TokensAt(s, t) = AtMost(Capacity * Window,
                                                     s.tokens + (t - s.last) * Limit)
<1> DEFINE d == AtLeast0(t - s.last)
<1>1. s.tokens \in Parts /\ s.last \in Int /\ d \in Nat /\ (t >= s.last => d = t - s.last)
  BY DEF TokenBucketState, AtLeast0
<1>2. d * Limit \in Nat
  BY <1>1, Parameters
<1>3. TokensAt(s, t) = AtMost(Capacity * Window, s.tokens + d * Limit)
  BY DEF TokensAt
<1> HIDE DEF d
<1> QED
  BY <1>1, <1>2, <1>3, Parameters DEF AtMost, Parts

LEMMA LevelType ==
    ASSUME NEW s \in LeakyBucketState, NEW t \in Int
    PROVE  /\ LevelAt(s, t) \in Parts
           /\ t >= s.last => LevelAt(s, t) = AtLeast0(s.level - (t - s.last) * Limit)
<1> DEFINE d == AtLeast0(t - s.last)
<1>1. s.level \in Parts /\ s.last \in Int /\ d \in Nat /\ (t >= s.last => d = t - s.last)
  BY DEF LeakyBucketState, AtLeast0
<1>2. d * Limit \in Nat
  BY <1>1, Parameters
<1>3. LevelAt(s, t) = AtLeast0(s.level - d * Limit)
  BY DEF LevelAt
<1> HIDE DEF d
<1> QED
  BY <1>1, <1>2, <1>3, Parameters DEF AtLeast0, Parts

LEMMA LogType ==
    ASSUME NEW s \in LogState, NEW t \in Int
    PROVE  /\ LogAt(s, t) \in Seq(LogEntry)
           /\ CostOf(s) \in Nat /\ CostOf(LogAt(s, t)) \in 0 .. Limit
<1>1. s \in Seq(LogEntry) /\ CostOf(s) <= Limit /\ t - Window \in Int
  BY Parameters DEF LogState
<1>2. /\ Alive(s, t - Window) \in Seq(LogEntry)
      /\ CostOf(s) \in Nat /\ CostOf(Alive(s, t - Window)) \in Nat
      /\ CostOf(Alive(s, t - Window)) <= CostOf(s)
  BY <1>1, AliveCosts
<1> QED
  BY <1>1, <1>2, Parameters DEF LogAt

LEMMA CounterType ==
    ASSUME NEW s \in CounterState, NEW t \in Int
    PROVE  /\ CounterAt(s, t) \in CounterState
           /\ CounterAt(s, t).start = WindowStart(t)
           /\ Estimate(s, t) \in Nat
           /\ CounterAt(s, t).previous > 0 =>
                 Estimate(s, t) >= (CounterAt(s, t).current + 1) * Window - (t - WindowStart(t))
<1>1. /\ WindowStart(t) \in Int /\ Window - (t - WindowStart(t)) \in Nat
      /\ Window - (t - WindowStart(t)) >= 1
  BY WindowHolds, Parameters
<1>2. CounterAt(s, t) \in CounterState /\ CounterAt(s, t).start = WindowStart(t)
  BY <1>1, Parameters DEF CounterState, CounterAt, CarryForward
<1> DEFINE p == CounterAt(s, t).previous
           c == CounterAt(s, t).current
           w == Window - (t - WindowStart(t))
<1>3. p \in Nat /\ c \in Nat
  BY <1>2, Parameters DEF CounterState
<1>4. Estimate(s, t) = p * w + c * Window
  BY DEF Estimate
<1>5. w \in Nat /\ w = Window - (t - WindowStart(t))
  BY <1>1
<1> HIDE DEF p, c, w
<1>6. p * w \in Nat /\ c * Window \in Nat
  BY <1>3, <1>5, Parameters
<1>7. p > 0 => p * w >= 1 * w
  BY <1>3, <1>5, ProductsGrow
<1>8. (c + 1) * Window = c * Window + Window
  BY <1>3, Parameters
<1> QED
  BY <1>1, <1>2, <1>3, <1>4, <1>5, <1>6, <1>7, <1>8, Parameters DEF p, c

LEMMA BucketCost ==
    ASSUME NEW c \in Nat \ {0}
    PROVE  c * Window \in Nat /\ c * Window >= 1
<1>1. 1 * Window <= c * Window
  BY Parameters, ProductsGrow
<1> QED
  BY <1>1, Parameters

\* A call takes a state of an algorithm to another one.
LEMMA ApplyType ==
    ASSUME NEW a \in AlgorithmName, NEW s \in StateOf(a), NEW t \in Int, NEW c \in Nat \ {0}
    PROVE  /\ Apply(a, s, t, c).state \in StateOf(a)
           /\ Apply(a, s, t, c).allowed \in BOOLEAN
           /\ Apply(a, s, t, c).retryAfter \in Int
<1>1. CASE a = "fixedWindow"
  <2> DEFINE r == FixedWindow(s, t, c)
             n == CountAt(s, t)
  <2>1. s \in FixedWindowState /\ WindowStart(t) \in Int
    BY <1>1, WindowHolds DEF StateOf
  <2>2. n \in 0 .. Limit
    BY <2>1, Parameters DEF CountAt, FixedWindowState
  <2>3. /\ r.allowed \in BOOLEAN
        /\ r.allowed <=> n + c <= Limit
        /\ r.allowed => r.state = [start |-> WindowStart(t), count |-> n + c] /\ r.retryAfter = 0
        /\ ~r.allowed => /\ r.state = [start |-> WindowStart(t), count |-> n]
                         /\ r.retryAfter = WindowStart(t) + Window - t
    BY FixedWindowMeans
  <2>4. Apply(a, s, t, c) = r /\ StateOf(a) = FixedWindowState
    BY <1>1 DEF Apply, StateOf
  <2> HIDE DEF r, n
  <2>5. r.state \in FixedWindowState /\ r.retryAfter \in Int
    BY <2>1, <2>2, <2>3, Parameters DEF FixedWindowState
  <2> QED
    BY <2>3, <2>4, <2>5
<1>2. CASE a = "tokenBucket"
  <2> DEFINE r == TokenBucket(s, t, c)
             n == TokensAt(s, t)
             m == c * Window
  <2>1. n \in Parts /\ m \in Nat
    BY <1>2, TokensType, BucketCost DEF StateOf
  <2>2. /\ r.allowed \in BOOLEAN
        /\ r.allowed <=> n >= m
        /\ r.allowed => r.state = [tokens |-> n - m, last |-> t] /\ r.retryAfter = 0
        /\ ~r.allowed => /\ r.state = [tokens |-> n, last |-> t]
                         /\ r.retryAfter = CeilDiv(m - n, Limit)
    BY TokenBucketMeans
  <2>3. Apply(a, s, t, c) = r /\ StateOf(a) = TokenBucketState
    BY <1>2 DEF Apply, StateOf
  <2> HIDE DEF r, n, m
  <2>4. n \in Nat /\ CeilDiv(m - n, Limit) \in Int
    BY <2>1, RoundsUp, RateAssumption, Parameters DEF Parts
  <2>5. r.state \in TokenBucketState /\ r.retryAfter \in Int
    BY <2>1, <2>2, <2>4, Parameters DEF TokenBucketState, Parts
  <2> QED
    BY <2>2, <2>3, <2>5
<1>3. CASE a = "leakyBucket"
  <2> DEFINE r == LeakyBucket(s, t, c)
             n == LevelAt(s, t)
             m == c * Window
             f == Capacity * Window
  <2>1. n \in 0 .. f /\ m \in Nat /\ f \in Nat
    BY <1>3, LevelType, BucketCost, Parameters DEF StateOf, Parts
  <2>2. /\ r.allowed \in BOOLEAN
        /\ r.allowed <=> n + m <= f
        /\ r.allowed => r.state = [level |-> n + m, last |-> t] /\ r.retryAfter = 0
        /\ ~r.allowed => /\ r.state = [level |-> n, last |-> t]
                         /\ r.retryAfter = CeilDiv(n + m - f, Limit)
    BY LeakyBucketMeans
  <2>3. Apply(a, s, t, c) = r /\ StateOf(a) = [level : 0 .. f, last : Int]
    BY <1>3 DEF Apply, StateOf, LeakyBucketState, Parts
  <2> HIDE DEF r, n, m, f
  <2>4. CeilDiv(n + m - f, Limit) \in Int
    BY <2>1, RoundsUp, RateAssumption
  <2>5. r.state \in [level : 0 .. f, last : Int] /\ r.retryAfter \in Int
    BY <2>1, <2>2, <2>4
  <2> QED
    BY <2>2, <2>3, <2>5
<1>4. CASE a = "slidingWindowLog"
  <2> DEFINE r == SlidingWindowLog(s, t, c)
             n == LogAt(s, t)
  <2>1. n \in Seq(LogEntry) /\ CostOf(n) \in 0 .. Limit
    BY <1>4, LogType DEF StateOf
  <2>2. /\ r.allowed \in BOOLEAN
        /\ r.allowed <=> CostOf(n) + c <= Limit
        /\ r.allowed => r.state = Append(n, <<t, c>>) /\ r.retryAfter = 0
        /\ ~r.allowed => /\ r.state = n
                         /\ r.retryAfter = (IF n = << >> THEN t ELSE n[1][1]) + Window - t
    BY LogMeans
  <2>3. Apply(a, s, t, c) = r /\ StateOf(a) = LogState
    BY <1>4 DEF Apply, StateOf
  <2> HIDE DEF r, n
  <2>4. <<t, c>> \in LogEntry
    BY DEF LogEntry
  <2>5. /\ Append(n, <<t, c>>) \in Seq(LogEntry)
        /\ CostOf(Append(n, <<t, c>>)) = CostOf(n) + c
    <3>1. CostOf(Append(n, <<t, c>>)) = CostOf(n) + <<t, c>>[2]
      BY <2>1, <2>4, CostOfAppend
    <3> QED
      BY <2>1, <2>4, <3>1
  <2>6. r.state \in LogState
    <3>1. CASE r.allowed
      <4>1. r.state \in Seq(LogEntry) /\ CostOf(r.state) <= Limit
        BY <2>2, <2>5, <3>1
      <4> QED
        BY <4>1 DEF LogState
    <3>2. CASE ~r.allowed
      BY <2>1, <2>2, <3>2 DEF LogState
    <3> QED
      BY <3>1, <3>2
  <2>7. r.retryAfter \in Int
    <3>1. n # << >> => n[1] \in LogEntry
      BY <2>1
    <3>2. n # << >> => n[1][1] \in Int
      BY <3>1 DEF LogEntry
    <3>3. (IF n = << >> THEN t ELSE n[1][1]) \in Int
      BY <3>2
    <3> QED
      BY <2>2, <3>3, Parameters
  <2> QED
    BY <2>2, <2>3, <2>6, <2>7
<1>5. CASE a = "slidingWindowCounter"
  <2> DEFINE e == Estimate(s, t)
             n == CounterAt(s, t)
             r == SlidingWindowCounter(s, t, c)
             m == c * Window
             l == Limit * Window
  <2>5. /\ r.allowed \in BOOLEAN
        /\ r.allowed <=> e + m <= l
        /\ r.allowed => r.state = Counted(n, n.current + c) /\ r.retryAfter = 0
        /\ ~r.allowed => /\ r.state = Counted(n, n.current)
                         /\ r.retryAfter = CeilDiv(e + m - l, Limit)
    BY CounterMeans
  <2> HIDE DEF r
  <2>1. /\ n \in CounterState /\ e \in Nat
        /\ n.previous > 0 => e >= (n.current + 1) * Window - (t - WindowStart(t))
    BY <1>5, CounterType DEF StateOf
  <2>2. /\ n.current \in Nat /\ n.previous \in Nat /\ c * Window \in Nat
        /\ WindowStart(t) \in Int /\ t - WindowStart(t) < Window
    BY <2>1, BucketCost, WindowHolds, Parameters DEF CounterState
  <2>3. e >= n.current * Window
    <3>1. Window - (t - WindowStart(t)) \in Nat
      BY <2>2, WindowHolds, Parameters
    <3>2. n.previous * (Window - (t - WindowStart(t))) \in Nat /\ n.current * Window \in Nat
      BY <2>2, <3>1, Parameters
    <3> HIDE DEF n
    <3> QED
      BY <3>2 DEF Estimate, n
  <2> HIDE DEF e, n
  <2>4. ASSUME e + c * Window <= Limit * Window
        PROVE  n.current + c <= Limit /\ (n.previous > 0 => n.current + c < Limit)
    <3>1. (n.current + c) * Window = n.current * Window + c * Window
      BY <2>2, Parameters
    <3>2. (n.current + 1) * Window = n.current * Window + Window
      BY <2>2, Parameters
    <3>3. n.current * Window \in Nat
      BY <2>2, Parameters
    <3>4. (n.current + c) * Window <= Limit * Window
      BY <2>1, <2>2, <2>3, <2>4, <3>1, <3>3, Parameters
    <3>5. n.previous > 0 => (n.current + c) * Window < Limit * Window
      BY <2>1, <2>2, <2>4, <3>1, <3>2, <3>3, Parameters
    <3>6. ASSUME n.current + c > Limit PROVE FALSE
      <4>1. (Limit + 1) * Window <= (n.current + c) * Window
        BY <2>2, <3>6, Parameters, ProductsGrow
      <4>2. (Limit + 1) * Window = Limit * Window + Window
        BY Parameters
      <4>3. (n.current + c) * Window \in Int
        BY <2>2, Parameters
      <4> QED
        BY <3>4, <4>1, <4>2, <4>3, Parameters
    <3>7. n.previous > 0 => n.current + c # Limit
      BY <3>5, Parameters
    <3> QED
      BY <2>2, <3>6, <3>7, Parameters
  <2>6. Apply(a, s, t, c) = r /\ StateOf(a) = CounterState
    BY <1>5 DEF Apply, StateOf, r
  <2>7. r.allowed => n.current + c \in 0 .. Limit /\ (n.previous > 0 => n.current + c < Limit)
    BY <2>2, <2>4, <2>5, Parameters
  <2>8. m \in Nat /\ l \in Nat
    BY <2>2, Parameters
  <2> HIDE DEF m, l
  <2>9. r.state \in CounterState
    <3>1. CASE r.allowed
      BY <2>1, <2>5, <2>7, <3>1 DEF CounterState, Counted
    <3>2. CASE ~r.allowed
      BY <2>1, <2>5, <3>2 DEF CounterState, Counted
    <3> QED
      BY <3>1, <3>2
  <2>10. r.retryAfter \in Int
    <3>1. CeilDiv(e + m - l, Limit) \in Int
      BY <2>1, <2>8, RoundsUp, RateAssumption
    <3> QED
      BY <2>5, <3>1
  <2> QED
    BY <2>5, <2>6, <2>9, <2>10
<1> QED
  BY <1>1, <1>2, <1>3, <1>4, <1>5 DEF AlgorithmName

\* The scripts decide like the in-process algorithms, and leave the same state.
LEMMA ScriptAgrees ==
    ASSUME NEW a, NEW s, NEW t, NEW c
    PROVE  /\ Script(a, s, t, c).state = Apply(a, s, t, c).state
           /\ Script(a, s, t, c).allowed = Apply(a, s, t, c).allowed
<1>1. CASE a = "slidingWindowLog"
  <2>1. /\ Script(a, s, t, c) = SlidingWindowLogScript(s, t, c)
        /\ Apply(a, s, t, c) = SlidingWindowLog(s, t, c)
    BY <1>1 DEF Script, Apply
  <2> QED
    BY <2>1, ScriptLogMeans
<1>2. CASE a # "slidingWindowLog"
  BY <1>2 DEF Script
<1> QED
  BY <1>1, <1>2

LEMMA ScriptType ==
    ASSUME NEW a \in AlgorithmName, NEW s \in StateOf(a), NEW t \in Int, NEW c \in Nat \ {0}
    PROVE  /\ Script(a, s, t, c).state \in StateOf(a)
           /\ Script(a, s, t, c).allowed \in BOOLEAN
           /\ Script(a, s, t, c).retryAfter \in Int
<1>1. CASE a = "slidingWindowLog"
  <2> DEFINE r == SlidingWindowLogScript(s, t, c)
             n == LogAt(s, t)
  <2>1. Script(a, s, t, c) = r
    BY <1>1 DEF Script
  <2>2. /\ r.allowed \in BOOLEAN
        /\ r.allowed => r.retryAfter = 0
        /\ ~r.allowed => r.retryAfter = (IF n = << >> THEN t ELSE Earliest(n)) + Window - t
    BY ScriptLogMeans, LogMeans
  <2>3. n \in Seq(LogEntry)
    BY <1>1, LogType DEF StateOf
  <2> HIDE DEF n, r
  <2>4. (IF n = << >> THEN t ELSE Earliest(n)) \in Int
    BY <2>3, EarliestIs
  <2>5. r.retryAfter \in Int
    BY <2>2, <2>4, Parameters
  <2> QED
    BY <2>1, <2>5, ScriptAgrees, ApplyType
<1>2. CASE a # "slidingWindowLog"
  BY <1>2, ApplyType DEF Script
<1> QED
  BY <1>1, <1>2

\* A call, in the terms of the in-process algorithms.
LEMMA Consumed ==
    ASSUME NEW i, NEW c, Consume(i, c)
    PROVE  LET clock == now + skew[i]
               r == Apply(algorithm, redis, clock, c)
               m == Apply(algorithm, memory, clock, c)
           IN  /\ algorithm' = algorithm /\ now' = now /\ skew' = skew
               /\ redis' = r.state /\ memory' = m.state
               /\ ttl' = IF Renews(r.allowed) THEN Lifetime(algorithm) ELSE ttl
               /\ admitted' = [t \in 0 .. MaxTime |->
                                  IF r.allowed /\ t >= now THEN admitted[t] + c ELSE admitted[t]]
               /\ last'.redis = r.allowed /\ last'.memory = m.allowed
               /\ last'.clock = clock /\ last'.cost = c
               /\ last'.retryAfter = Script(algorithm, redis, clock, c).retryAfter
<1> DEFINE clock == now + skew[i]
           q == Script(algorithm, redis, clock, c)
           r == Apply(algorithm, redis, clock, c)
           m == Apply(algorithm, memory, clock, c)
<1>1. q.state = r.state /\ q.allowed = r.allowed
  BY ScriptAgrees
<1>2. /\ algorithm' = algorithm /\ now' = now /\ skew' = skew
      /\ redis' = q.state /\ memory' = m.state
      /\ ttl' = IF Renews(q.allowed) THEN Lifetime(algorithm) ELSE ttl
      /\ admitted' = [t \in 0 .. MaxTime |->
                         IF q.allowed /\ t >= now THEN admitted[t] + c ELSE admitted[t]]
      /\ last' = [redis |-> q.allowed, memory |-> m.allowed,
                  retryAfter |-> q.retryAfter, clock |-> clock, cost |-> c]
  BY DEF Consume
<1> HIDE DEF clock, q, r, m
<1> QED
  BY <1>1, <1>2 DEF clock, q, r, m

LEMMA NewStateType == \A a \in AlgorithmName : NewState(a) \in StateOf(a)
<1>1. NewFixedWindow \in FixedWindowState
  BY Parameters DEF NewFixedWindow, FixedWindowState
<1>2. NewTokenBucket \in TokenBucketState /\ NewLeakyBucket \in LeakyBucketState
  BY Parameters DEF NewTokenBucket, NewLeakyBucket, TokenBucketState, LeakyBucketState, Parts
<1>3. NewSlidingWindowLog \in LogState
  <2>1. << >> \in Seq(LogEntry)
    OBVIOUS
  <2> QED
    BY <2>1, CostOfEmpty, Parameters DEF NewSlidingWindowLog, LogState
<1>4. NewSlidingWindowCounter \in CounterState
  BY Parameters DEF NewSlidingWindowCounter, CounterState
<1> QED
  BY <1>1, <1>2, <1>3, <1>4 DEF AlgorithmName, NewState, StateOf

-----------------------------------------------------------------------------
(* The rate limiter: type correctness *)

LastCall == [redis : BOOLEAN, memory : BOOLEAN, retryAfter : Int, clock : Int, cost : Nat]

RateTypeOK ==
    /\ algorithm \in AlgorithmName
    /\ now \in 0 .. MaxTime
    /\ redis \in StateOf(algorithm)
    /\ ttl \in Nat
    /\ memory \in StateOf(algorithm)
    /\ admitted \in [0 .. MaxTime -> Nat]
    /\ last \in LastCall
    /\ skew \in [Instances -> 0 .. MaxSkew]

LEMMA LifetimeType ==
    ASSUME NEW a \in AlgorithmName
    PROVE  Lifetime(a) \in Nat /\ Lifetime(a) >= 1
<1>1. CeilDiv(Capacity * Window, Limit) \in Nat /\ CeilDiv(Capacity * Window, Limit) >= 1
  <2> DEFINE q == CeilDiv(Capacity * Window, Limit)
  <2>1. q \in Int /\ q * Limit >= Capacity * Window
    BY RoundsUp, Parameters, RateAssumption
  <2>2. Capacity * Window >= 1
    BY BucketCost, RateAssumption
  <2> HIDE DEF q
  <2>3. q <= 0 => q * Limit <= 0 * Limit
    BY <2>1, Parameters, ProductsGrow
  <2>4. q * Limit \in Int
    BY <2>1, Parameters
  <2> QED
    BY <2>1, <2>2, <2>3, <2>4, Parameters DEF q
<1>2. 2 * Window \in Nat /\ 2 * Window >= 1
  BY Parameters
<1> QED
  BY <1>1, <1>2, Parameters, RateLimitAssumption DEF Lifetime, AlgorithmName

LEMMA InitRateType == Init => RateTypeOK
BY NewStateType, RateLimitAssumption
DEF Init, RateTypeOK, LastCall, NoCall

LEMMA NextRateType == RateTypeOK /\ [Next]_vars => RateTypeOK'
<1> SUFFICES ASSUME RateTypeOK, [Next]_vars PROVE RateTypeOK'
  OBVIOUS
<1> USE DEF RateTypeOK
<1>1. ASSUME NEW i \in Instances, NEW c \in Costs, Consume(i, c) PROVE RateTypeOK'
  <2> DEFINE clock == now + skew[i]
             r == Script(algorithm, redis, clock, c)
             m == Apply(algorithm, memory, clock, c)
  <2>1. /\ clock \in Int /\ c \in Nat \ {0}
        /\ algorithm' = algorithm /\ now' = now /\ skew' = skew
    BY <1>1, RateLimitAssumption DEF Consume
  <2>2. /\ redis' = r.state /\ memory' = m.state
        /\ ttl' = IF Renews(r.allowed) THEN Lifetime(algorithm) ELSE ttl
        /\ admitted' = [t \in 0 .. MaxTime |->
                           IF r.allowed /\ t >= now THEN admitted[t] + c ELSE admitted[t]]
        /\ last' = [redis |-> r.allowed, memory |-> m.allowed,
                    retryAfter |-> r.retryAfter, clock |-> clock, cost |-> c]
    BY <1>1 DEF Consume
  <2> HIDE DEF clock
  <2>3. /\ r.state \in StateOf(algorithm) /\ r.allowed \in BOOLEAN /\ r.retryAfter \in Int
        /\ m.state \in StateOf(algorithm) /\ m.allowed \in BOOLEAN
    BY <2>1, ApplyType, ScriptType
  <2> HIDE DEF r, m
  <2>4. last' \in LastCall
    BY <2>1, <2>2, <2>3 DEF LastCall
  <2>5. admitted' \in [0 .. MaxTime -> Nat]
    BY <2>1, <2>2
  <2>6. ttl' \in Nat
    BY <2>2, LifetimeType
  <2> QED
    BY <2>1, <2>2, <2>3, <2>4, <2>5, <2>6
<1>2. CASE Reset
  BY <1>2, NewStateType DEF Reset
<1>3. CASE Tick
  <2>1. now' \in 0 .. MaxTime /\ ttl' \in Nat
    BY <1>3, RateLimitAssumption DEF Tick, AtLeast0
  <2>2. redis' \in StateOf(algorithm)
    BY <1>3, NewStateType DEF Tick
  <2> QED
    BY <1>3, <2>1, <2>2 DEF Tick
<1>4. CASE UNCHANGED vars
  BY <1>4 DEF vars
<1> QED
  BY <1>1, <1>2, <1>3, <1>4 DEF Next

\* Every variable keeps its type: in particular no store ever holds a count, a
\* level or a log above the limit it enforces.
THEOREM RateTypeCorrect == Spec => []RateTypeOK
BY InitRateType, NextRateType, PTL DEF Spec

-----------------------------------------------------------------------------
(* The rate limiter: the hint *)

\* What fits at all fits in the state of a key that is not there.
LEMMA NewAdmits ==
    ASSUME NEW a \in AlgorithmName, NEW t \in Int, NEW c \in Nat,
           c <= AtMost(Capacity, Limit), a # "slidingWindowCounter"
    PROVE  Apply(a, NewState(a), t, c).allowed
<1>1. c <= Capacity /\ c <= Limit /\ c * Window <= Capacity * Window
  <2>1. c <= Capacity /\ c <= Limit
    BY Parameters DEF AtMost
  <2> QED
    BY <2>1, Parameters, ProductsGrow
<1>2. c * Window \in Nat
  BY Parameters
<1>3. CASE a = "fixedWindow"
  <2>1. CountAt(NewFixedWindow, t) = 0
    BY DEF CountAt, NewFixedWindow
  <2>2. FixedWindow(NewFixedWindow, t, c).allowed <=> CountAt(NewFixedWindow, t) + c <= Limit
    BY FixedWindowMeans
  <2> QED
    BY <1>1, <1>3, <2>1, <2>2 DEF Apply, NewState
<1>4. CASE a = "tokenBucket"
  <2>1. TokensAt(NewTokenBucket, t) = Capacity * Window
    <3> DEFINE d == AtLeast0(t - 0)
    <3>1. d * Limit \in Nat
      BY Parameters DEF AtLeast0
    <3>2. TokensAt(NewTokenBucket, t) = AtMost(Capacity * Window, Capacity * Window + d * Limit)
      BY DEF TokensAt, NewTokenBucket
    <3> HIDE DEF d
    <3> QED
      BY <3>1, <3>2, Parameters DEF AtMost
  <2>2. TokenBucket(NewTokenBucket, t, c).allowed <=> TokensAt(NewTokenBucket, t) >= c * Window
    BY TokenBucketMeans
  <2> QED
    BY <1>1, <1>2, <1>4, <2>1, <2>2, Parameters DEF Apply, NewState
<1>5. CASE a = "leakyBucket"
  <2>1. LevelAt(NewLeakyBucket, t) = 0
    <3> DEFINE d == AtLeast0(t - 0)
    <3>1. d * Limit \in Nat
      BY Parameters DEF AtLeast0
    <3>2. LevelAt(NewLeakyBucket, t) = AtLeast0(0 - d * Limit)
      BY DEF LevelAt, NewLeakyBucket
    <3> HIDE DEF d
    <3> QED
      BY <3>1, <3>2 DEF AtLeast0
  <2>2. LeakyBucket(NewLeakyBucket, t, c).allowed <=>
            LevelAt(NewLeakyBucket, t) + c * Window <= Capacity * Window
    BY LeakyBucketMeans
  <2> QED
    BY <1>1, <1>2, <1>5, <2>1, <2>2, Parameters DEF Apply, NewState
<1>6. CASE a = "slidingWindowLog"
  <2>1. CostOf(LogAt(NewSlidingWindowLog, t)) = 0
    BY AliveEmpty, CostOfEmpty DEF LogAt, NewSlidingWindowLog
  <2>2. SlidingWindowLog(NewSlidingWindowLog, t, c).allowed <=>
            CostOf(LogAt(NewSlidingWindowLog, t)) + c <= Limit
    BY LogMeans
  <2> QED
    BY <1>1, <1>6, <2>1, <2>2 DEF Apply, NewState
<1> QED
  BY <1>3, <1>4, <1>5, <1>6 DEF AlgorithmName

\* In CeilDiv(short, Limit) ticks at least short flows.
LEMMA FlowsEnough ==
    ASSUME NEW short \in Nat, short > 0, NEW t \in Int, NEW u, u = t + CeilDiv(short, Limit)
    PROVE  AtLeast0(u - t) * Limit \in Nat /\ AtLeast0(u - t) * Limit >= short
<1> DEFINE q == CeilDiv(short, Limit)
<1>1. q \in Int /\ q * Limit >= short
  BY RoundsUp, RateAssumption
<1> HIDE DEF q
<1>2. q > 0
  <2>1. q <= 0 => q * Limit <= 0 * Limit
    BY <1>1, Parameters, ProductsGrow
  <2>2. q * Limit \in Int
    BY <1>1, Parameters
  <2> QED
    BY <1>1, <2>1, <2>2, Parameters
<1>3. AtLeast0(u - t) = q
  BY <1>1, <1>2 DEF AtLeast0, q
<1> QED
  BY <1>1, <1>2, <1>3, Parameters

\* A refused call is admitted once the time it was told has passed.
LEMMA HintWorks ==
    ASSUME NEW a \in AlgorithmName, NEW s \in StateOf(a), NEW t \in Int, NEW c \in Nat \ {0},
           c <= AtMost(Capacity, Limit), a # "slidingWindowCounter",
           a = "slidingWindowLog" => c = 1,
           ~Apply(a, s, t, c).allowed
    PROVE  Apply(a, Apply(a, s, t, c).state, t + Script(a, s, t, c).retryAfter, c).allowed
<1> DEFINE fits == c <= Capacity /\ c <= Limit
           m == c * Window
           f == Capacity * Window
<1>1. fits /\ m \in Nat /\ f \in Nat /\ m <= f
  <2>1. fits
    BY Parameters DEF AtMost
  <2> QED
    BY <2>1, Parameters, ProductsGrow
<1>2. CASE a = "fixedWindow"
  <2> DEFINE r == FixedWindow(s, t, c)
             w == WindowStart(t)
             u == t + r.retryAfter
  <2>1. r.state = [start |-> w, count |-> CountAt(s, t)] /\ r.retryAfter = w + Window - t
    BY <1>2, FixedWindowMeans DEF Apply
  <2>2. w \in Int /\ u \in Int /\ u = w + Window
    BY <2>1, WindowHolds, Parameters
  <2> HIDE DEF r, w, u
  <2>3. WindowStart(u) # w
    BY <2>2, WindowHolds, Parameters
  <2>4. CountAt(r.state, u) = 0
    BY <2>1, <2>3 DEF CountAt
  <2>5. FixedWindow(r.state, u, c).allowed <=> CountAt(r.state, u) + c <= Limit
    BY FixedWindowMeans
  <2> QED
    BY <1>1, <1>2, <2>4, <2>5 DEF Apply, Script, r, u
<1>3. CASE a = "tokenBucket"
  <2> DEFINE r == TokenBucket(s, t, c)
             n == TokensAt(s, t)
             u == t + r.retryAfter
  <2>1. /\ n < m /\ r.state = [tokens |-> n, last |-> t]
        /\ r.retryAfter = CeilDiv(m - n, Limit)
    <3>1. ~r.allowed
      BY <1>3 DEF Apply
    <3>2. /\ r.allowed \in BOOLEAN
          /\ r.allowed <=> n >= m
          /\ r.allowed => r.state = [tokens |-> n - m, last |-> t] /\ r.retryAfter = 0
          /\ ~r.allowed => /\ r.state = [tokens |-> n, last |-> t]
                           /\ r.retryAfter = CeilDiv(m - n, Limit)
      BY TokenBucketMeans
    <3>3. n \in Parts
      BY <1>3, TokensType DEF StateOf
    <3> HIDE DEF r, n, m
    <3> QED
      BY <1>1, <3>1, <3>2, <3>3, Parameters DEF Parts
  <2>2. n \in Nat
    BY <1>3, TokensType, Parameters DEF StateOf, Parts
  <2> DEFINE flow == AtLeast0(u - t) * Limit
  <2> HIDE DEF m, f, n, r
  <2>3. flow \in Nat /\ flow >= m - n
    <3>1. m - n \in Nat /\ m - n > 0
      BY <1>1, <2>1, <2>2
    <3>2. u = t + CeilDiv(m - n, Limit)
      BY <2>1
    <3> QED
      BY <3>1, <3>2, FlowsEnough
  <2>4. TokensAt(r.state, u) = AtMost(f, n + flow)
    BY <2>1 DEF TokensAt, f
  <2> HIDE DEF flow
  <2>5. TokensAt(r.state, u) >= m
    BY <1>1, <2>2, <2>3, <2>4 DEF AtMost
  <2>6. TokenBucket(r.state, u, c).allowed <=> TokensAt(r.state, u) >= m
    BY TokenBucketMeans DEF m
  <2> QED
    BY <1>3, <2>5, <2>6 DEF Apply, Script, r
<1>4. CASE a = "leakyBucket"
  <2> DEFINE r == LeakyBucket(s, t, c)
             n == LevelAt(s, t)
             u == t + r.retryAfter
  <2>1. n \in Nat
    BY <1>4, LevelType, Parameters DEF StateOf, Parts
  <2>2. /\ n + m > f /\ r.state = [level |-> n, last |-> t]
        /\ r.retryAfter = CeilDiv(n + m - f, Limit)
    <3>1. ~r.allowed
      BY <1>4 DEF Apply
    <3>2. /\ r.allowed \in BOOLEAN
          /\ r.allowed <=> n + m <= f
          /\ r.allowed => r.state = [level |-> n + m, last |-> t] /\ r.retryAfter = 0
          /\ ~r.allowed => /\ r.state = [level |-> n, last |-> t]
                           /\ r.retryAfter = CeilDiv(n + m - f, Limit)
      BY LeakyBucketMeans
    <3> HIDE DEF r, n, m, f
    <3> QED
      BY <1>1, <2>1, <3>1, <3>2
  <2> DEFINE flow == AtLeast0(u - t) * Limit
  <2> HIDE DEF m, f, n, r
  <2>3. flow \in Nat /\ flow >= n + m - f
    <3>1. n + m - f \in Nat /\ n + m - f > 0
      BY <1>1, <2>1, <2>2
    <3>2. u = t + CeilDiv(n + m - f, Limit)
      BY <2>2
    <3> QED
      BY <3>1, <3>2, FlowsEnough
  <2>4. LevelAt(r.state, u) = AtLeast0(n - flow)
    BY <2>2 DEF LevelAt
  <2> HIDE DEF flow
  <2>5. LevelAt(r.state, u) + m <= f
    BY <1>1, <2>1, <2>3, <2>4 DEF AtLeast0
  <2>6. LeakyBucket(r.state, u, c).allowed <=> LevelAt(r.state, u) + m <= f
    BY LeakyBucketMeans DEF m, f
  <2> QED
    BY <1>4, <2>5, <2>6 DEF Apply, Script, r
<1>5. CASE a = "slidingWindowLog"
  <2> DEFINE r == SlidingWindowLog(s, t, c)
             n == LogAt(s, t)
             wait == SlidingWindowLogScript(s, t, c).retryAfter
             u == t + wait
  <2>1. n \in Seq(LogEntry) /\ CostOf(n) \in 0 .. Limit /\ c = 1
    BY <1>5, LogType DEF StateOf
  <2>2. /\ ~(CostOf(n) + c <= Limit) /\ r.state = n
        /\ wait = (IF n = << >> THEN t ELSE Earliest(n)) + Window - t
    <3>1. ~r.allowed
      BY <1>5 DEF Apply
    <3> QED
      BY <3>1, LogMeans, ScriptLogMeans
  <2> HIDE DEF n
  <2>3. n # << >>
    BY <1>1, <2>1, <2>2, CostOfEmpty
  <2>4. PICK k \in 1 .. Len(n) : n[k][1] = Earliest(n)
    BY <2>1, <2>3, EarliestIs
  <2>5. Earliest(n) \in Int /\ wait = Earliest(n) + Window - t
    BY <2>1, <2>2, <2>3, EarliestIs
  <2> HIDE DEF r, wait
  <2>6. u \in Int /\ u - Window = n[k][1]
    BY <2>4, <2>5, Parameters
  <2> HIDE DEF u
  <2>7. CostOf(Alive(n, u - Window)) < CostOf(n) /\ CostOf(Alive(n, u - Window)) \in Nat
    <3>1. u - Window \in Int /\ n[k][1] <= u - Window
      BY <2>4, <2>5, <2>6
    <3> QED
      BY <2>1, <2>4, <3>1, OneLeaves, AliveCosts
  <2>8. CostOf(LogAt(r.state, u)) + c <= Limit
    BY <2>1, <2>2, <2>7, Parameters DEF LogAt
  <2>9. SlidingWindowLog(r.state, u, c).allowed <=> CostOf(LogAt(r.state, u)) + c <= Limit
    BY LogMeans
  <2> QED
    BY <1>5, <2>8, <2>9 DEF Apply, Script, r, u, wait
<1> QED
  BY <1>2, <1>3, <1>4, <1>5 DEF AlgorithmName

\* Whoever waits for retryAfterMs is admitted, whatever the skew between the
\* gateways' clocks, and whether or not Redis has dropped the key meanwhile.
THEOREM WaitingSuffices == Spec => []RetryAfterSuffices
<1>1. Init => RetryAfterSuffices
  BY DEF Init, NoCall, RetryAfterSuffices, HintSuffices
<1>2. RateTypeOK /\ RetryAfterSuffices /\ [Next]_vars => RetryAfterSuffices'
  <2> SUFFICES ASSUME RateTypeOK, RetryAfterSuffices, [Next]_vars,
                      algorithm' # "slidingWindowCounter",
                      algorithm' = "slidingWindowLog" => last'.cost = 1,
                      ~last'.redis, last'.cost <= AtMost(Capacity, Limit)
               PROVE  Apply(algorithm', redis', last'.clock + last'.retryAfter,
                            last'.cost).allowed
    BY ScriptAgrees DEF RetryAfterSuffices, HintSuffices
  <2>1. ASSUME last' = last, algorithm' = algorithm,
               redis' = redis \/ redis' = NewState(algorithm)
        PROVE  Apply(algorithm', redis', last'.clock + last'.retryAfter, last'.cost).allowed
    <3>1. CASE redis' = redis
      BY <2>1, <3>1, ScriptAgrees DEF RetryAfterSuffices, HintSuffices
    <3>2. CASE redis' = NewState(algorithm)
      <4>1. last.clock + last.retryAfter \in Int /\ last.cost \in Nat
        BY DEF RateTypeOK, LastCall
      <4> QED
        BY <2>1, <3>2, <4>1, NewAdmits DEF RateTypeOK
    <3> QED
      BY <2>1, <3>1, <3>2
  <2>2. ASSUME NEW i \in Instances, NEW c \in Costs, Consume(i, c)
        PROVE  Apply(algorithm', redis', last'.clock + last'.retryAfter, last'.cost).allowed
    <3> DEFINE clock == now + skew[i]
               r == Apply(algorithm, redis, clock, c)
    <3>1. clock \in Int /\ c \in Nat \ {0} /\ algorithm' = algorithm
      BY <2>2, Consumed, RateLimitAssumption DEF RateTypeOK
    <3>2. redis' = r.state /\ last'.redis = r.allowed
          /\ last'.retryAfter = Script(algorithm, redis, clock, c).retryAfter
          /\ last'.clock = clock /\ last'.cost = c
      BY <2>2, Consumed
    <3> HIDE DEF clock
    <3> QED
      BY <3>1, <3>2, HintWorks DEF RateTypeOK
  <2>3. CASE Reset
    BY <2>1, <2>3 DEF Reset
  <2>4. CASE Tick
    BY <2>1, <2>4 DEF Tick
  <2>5. CASE UNCHANGED vars
    BY <2>1, <2>5 DEF vars
  <2> QED
    BY <2>2, <2>3, <2>4, <2>5 DEF Next
<1> QED
  BY <1>1, <1>2, RateTypeCorrect, PTL DEF Spec

-----------------------------------------------------------------------------
(* The rate limiter: the two stores *)

\* Nothing in a state is later than t.
Past(a, s, t) ==
    CASE a = "fixedWindow"          -> s.start <= t
      [] a = "tokenBucket"          -> s.last <= t
      [] a = "leakyBucket"          -> s.last <= t
      [] a = "slidingWindowLog"     -> s \in Seq({e \in LogEntry : e[1] <= t})
      [] a = "slidingWindowCounter" -> s.start <= t

\* Everything in a state has expired, refilled or leaked at t.
Idle(a, s, t) ==
    CASE a = "fixedWindow"          -> s.count = 0 \/ s.start + Window <= t
      [] a = "tokenBucket"          -> /\ s.last <= t
                                       /\ s.tokens + (t - s.last) * Limit >= Capacity * Window
      [] a = "leakyBucket"          -> s.last <= t /\ s.level <= (t - s.last) * Limit
      [] a = "slidingWindowLog"     -> s \in Seq({e \in LogEntry : e[1] + Window <= t})
      [] a = "slidingWindowCounter" -> \/ s.current = 0 /\ s.previous = 0
                                       \/ s.start + 2 * Window <= t

LEMMA PastGrows ==
    ASSUME NEW a \in AlgorithmName, NEW s \in StateOf(a), NEW t \in Int, NEW u \in Int,
           t <= u, Past(a, s, t)
    PROVE  Past(a, s, u)
<1>1. CASE a = "slidingWindowLog"
  <2>1. {e \in LogEntry : e[1] <= t} \subseteq {e \in LogEntry : e[1] <= u}
    BY DEF LogEntry
  <2> QED
    BY <1>1, <2>1, SeqGrows DEF Past
<1>2. CASE a = "fixedWindow"
  BY <1>2 DEF Past, StateOf, FixedWindowState
<1>3. CASE a = "tokenBucket"
  BY <1>3 DEF Past, StateOf, TokenBucketState
<1>4. CASE a = "leakyBucket"
  BY <1>4 DEF Past, StateOf, LeakyBucketState
<1>5. CASE a = "slidingWindowCounter"
  BY <1>5 DEF Past, StateOf, CounterState
<1> QED
  BY <1>1, <1>2, <1>3, <1>4, <1>5 DEF AlgorithmName

LEMMA IdleGrows ==
    ASSUME NEW a \in AlgorithmName, NEW s \in StateOf(a), NEW t \in Int, NEW u \in Int,
           t <= u, Idle(a, s, t)
    PROVE  Idle(a, s, u)
<1>1. CASE a = "slidingWindowLog"
  <2>1. {e \in LogEntry : e[1] + Window <= t} \subseteq {e \in LogEntry : e[1] + Window <= u}
    BY Parameters DEF LogEntry
  <2> QED
    BY <1>1, <2>1, SeqGrows DEF Idle
<1>2. CASE a = "fixedWindow"
  BY <1>2, Parameters DEF Idle, StateOf, FixedWindowState
<1>3. CASE a = "tokenBucket"
  <2>1. s.last \in Int /\ s.tokens \in Int
    BY <1>3, Parameters DEF StateOf, TokenBucketState, Parts
  <2>2. (t - s.last) * Limit <= (u - s.last) * Limit
    BY <2>1, Parameters, ProductsGrow
  <2>3. (t - s.last) * Limit \in Int /\ (u - s.last) * Limit \in Int
    BY <2>1, Parameters
  <2> QED
    BY <1>3, <2>1, <2>2, <2>3, Parameters DEF Idle
<1>4. CASE a = "leakyBucket"
  <2>1. s.last \in Int /\ s.level \in Int
    BY <1>4, Parameters DEF StateOf, LeakyBucketState, Parts
  <2>2. (t - s.last) * Limit <= (u - s.last) * Limit
    BY <2>1, Parameters, ProductsGrow
  <2>3. (t - s.last) * Limit \in Int /\ (u - s.last) * Limit \in Int
    BY <2>1, Parameters
  <2> QED
    BY <1>4, <2>1, <2>2, <2>3 DEF Idle
<1>5. CASE a = "slidingWindowCounter"
  BY <1>5, Parameters DEF Idle, StateOf, CounterState
<1> QED
  BY <1>1, <1>2, <1>3, <1>4, <1>5 DEF AlgorithmName

LEMMA NewIsIdle ==
    ASSUME NEW a \in AlgorithmName, NEW t \in Nat
    PROVE  Past(a, NewState(a), t) /\ Idle(a, NewState(a), t)
<1>1. CASE a = "slidingWindowLog"
  <2>1. /\ << >> \in Seq({e \in LogEntry : e[1] <= t})
        /\ << >> \in Seq({e \in LogEntry : e[1] + Window <= t})
    OBVIOUS
  <2>2. NewState(a) = << >>
    BY <1>1 DEF NewState, NewSlidingWindowLog
  <2> QED
    BY <1>1, <2>1, <2>2, Zenon DEF Past, Idle
<1>2. (t - 0) * Limit \in Nat
  BY Parameters
<1>5. CASE a = "tokenBucket"
  <2>1. NewState(a) = [tokens |-> Capacity * Window, last |-> 0]
    BY <1>5 DEF NewState, NewTokenBucket
  <2>2. NewState(a).tokens = Capacity * Window /\ NewState(a).last = 0
    BY <2>1
  <2> QED
    BY <1>2, <1>5, <2>2, Parameters DEF Past, Idle
<1>6. CASE a = "leakyBucket"
  <2>1. NewState(a) = [level |-> 0, last |-> 0]
    BY <1>6 DEF NewState, NewLeakyBucket
  <2>2. NewState(a).level = 0 /\ NewState(a).last = 0
    BY <2>1
  <2> QED
    BY <1>2, <1>6, <2>2 DEF Past, Idle
<1>3. CASE a = "fixedWindow"
  BY <1>3 DEF Past, Idle, NewState, NewFixedWindow
<1>4. CASE a = "slidingWindowCounter"
  BY <1>4 DEF Past, Idle, NewState, NewSlidingWindowCounter
<1> QED
  BY <1>1, <1>3, <1>4, <1>5, <1>6 DEF AlgorithmName

\* A call cannot tell an idle state from that of a key that is not there.
LEMMA IdleIsNew ==
    ASSUME NEW a \in AlgorithmName, NEW s \in StateOf(a), NEW t \in Nat, NEW c,
           Idle(a, s, t)
    PROVE  Apply(a, NewState(a), t, c) = Apply(a, s, t, c)
<1>1. CASE a = "fixedWindow"
  <2>1. CountAt(s, t) = 0 /\ CountAt(NewFixedWindow, t) = 0
    BY <1>1, WindowHolds, Parameters
    DEF Idle, StateOf, FixedWindowState, CountAt, NewFixedWindow
  <2>2. FixedWindow(NewFixedWindow, t, c) = FixedWindow(s, t, c)
    BY <2>1, Zenon DEF FixedWindow, CountAt
  <2> QED
    BY <1>1, <2>2 DEF Apply, NewState
<1>2. CASE a = "tokenBucket"
  <2>1. s \in TokenBucketState /\ s.last <= t
    BY <1>2 DEF Idle, StateOf
  <2>2. /\ s.tokens + (t - s.last) * Limit >= Capacity * Window
        /\ s.tokens + (t - s.last) * Limit \in Int
    BY <1>2, <2>1, Parameters DEF Idle, TokenBucketState, Parts
  <2>3. TokensAt(s, t) = Capacity * Window
    BY <2>1, <2>2, TokensType, Parameters DEF AtMost
  <2>4. TokensAt(NewTokenBucket, t) = Capacity * Window
    <3>1. (t - 0) * Limit \in Nat /\ AtLeast0(t - 0) = t - 0
      BY Parameters DEF AtLeast0
    <3> QED
      BY <3>1, Parameters DEF TokensAt, NewTokenBucket, AtMost
  <2>5. TokenBucket(NewTokenBucket, t, c) = TokenBucket(s, t, c)
    BY <2>3, <2>4, Zenon DEF TokenBucket, TokensAt
  <2> QED
    BY <1>2, <2>5 DEF Apply, NewState
<1>3. CASE a = "leakyBucket"
  <2>1. s \in LeakyBucketState /\ s.last <= t
    BY <1>3 DEF Idle, StateOf
  <2>2. /\ s.level <= (t - s.last) * Limit
        /\ s.level - (t - s.last) * Limit \in Int /\ (t - s.last) * Limit \in Int
    BY <1>3, <2>1, Parameters DEF Idle, LeakyBucketState, Parts
  <2>3. LevelAt(s, t) = 0
    BY <2>1, <2>2, LevelType, Parameters DEF AtLeast0, LeakyBucketState, Parts
  <2>4. LevelAt(NewLeakyBucket, t) = 0
    <3>1. (t - 0) * Limit \in Nat /\ AtLeast0(t - 0) = t - 0
      BY Parameters DEF AtLeast0
    <3>2. LevelAt(NewLeakyBucket, t) = AtLeast0(0 - (t - 0) * Limit)
      BY <3>1 DEF LevelAt, NewLeakyBucket
    <3> QED
      BY <3>1, <3>2 DEF AtLeast0
  <2>5. LeakyBucket(NewLeakyBucket, t, c) = LeakyBucket(s, t, c)
    BY <2>3, <2>4, Zenon DEF LeakyBucket, LevelAt
  <2> QED
    BY <1>3, <2>5 DEF Apply, NewState
<1>4. CASE a = "slidingWindowLog"
  <2>1. t - Window \in Int
    BY Parameters
  <2>2. \A e \in LogEntry : e[1] + Window <= t <=> e[1] <= t - Window
    BY Parameters DEF LogEntry
  <2>3. {e \in LogEntry : e[1] + Window <= t} = {e \in LogEntry : e[1] <= t - Window}
    BY <2>2
  <2>4. s \in Seq({e \in LogEntry : e[1] <= t - Window})
    BY <1>4, <2>3 DEF Idle
  <2>5. LogAt(s, t) = << >>
    BY <2>1, <2>4, AliveNothing DEF LogAt
  <2>6. LogAt(NewSlidingWindowLog, t) = << >>
    BY AliveEmpty DEF LogAt, NewSlidingWindowLog
  <2>7. SlidingWindowLog(NewSlidingWindowLog, t, c) = SlidingWindowLog(s, t, c)
    BY <2>5, <2>6, Zenon DEF SlidingWindowLog, LogAt
  <2> QED
    BY <1>4, <2>7 DEF Apply, NewState
<1>5. CASE a = "slidingWindowCounter"
  <2> DEFINE w == WindowStart(t)
  <2>1. s \in CounterState /\ w \in Int /\ w > t - Window
    BY <1>5, WindowHolds, Parameters DEF StateOf
  <2>2. CarryForward(NewSlidingWindowCounter, w) = [start |-> w, previous |-> 0, current |-> 0]
    BY DEF CarryForward, NewSlidingWindowCounter
  <2>3. CarryForward(s, w) = [start |-> w, previous |-> 0, current |-> 0]
    <3>1. CASE s.current = 0 /\ s.previous = 0
      BY <2>1, <3>1 DEF CarryForward, CounterState
    <3>2. CASE s.start + 2 * Window <= t
      <4>1. s.start # w /\ s.start # w - Window
        BY <2>1, <3>2, Parameters DEF CounterState
      <4> QED
        BY <4>1 DEF CarryForward
    <3> QED
      BY <1>5, <3>1, <3>2 DEF Idle
  <2>4. SlidingWindowCounter(NewSlidingWindowCounter, t, c) = SlidingWindowCounter(s, t, c)
    BY <2>2, <2>3, Zenon DEF SlidingWindowCounter
  <2> QED
    BY <1>5, <2>4 DEF Apply, NewState
<1> QED
  BY <1>1, <1>2, <1>3, <1>4, <1>5 DEF AlgorithmName

\* A call at t leaves nothing later than t, and nothing that the lifetime it
\* gives the key does not outlast.
LEMMA ApplyPast ==
    ASSUME NEW a \in AlgorithmName, NEW s \in StateOf(a), NEW t \in Nat, NEW c \in Nat \ {0},
           Past(a, s, t)
    PROVE  /\ Past(a, Apply(a, s, t, c).state, t)
           /\ Idle(a, Apply(a, s, t, c).state, t + Lifetime(a))
<1> DEFINE r == Apply(a, s, t, c)
<1>1. CASE a = "fixedWindow"
  <2>1. r.state.start = WindowStart(t)
    <3>1. r = FixedWindow(s, t, c)
      BY <1>1 DEF Apply
    <3>2. r.allowed \in BOOLEAN
      BY <3>1, FixedWindowMeans
    <3>3. \/ r.state = [start |-> WindowStart(t), count |-> CountAt(s, t) + c]
          \/ r.state = [start |-> WindowStart(t), count |-> CountAt(s, t)]
      BY <3>1, <3>2, FixedWindowMeans
    <3> HIDE DEF r
    <3> QED
      BY <3>3
  <2>2. Lifetime(a) = Window
    BY <1>1 DEF Lifetime
  <2> HIDE DEF r
  <2> QED
    BY <1>1, <2>1, <2>2, WindowHolds, Parameters DEF Past, Idle, r
<1>2. ASSUME a \in {"tokenBucket", "leakyBucket"}
      PROVE  Lifetime(a) \in Nat /\ Lifetime(a) * Limit >= Capacity * Window
  <2> DEFINE q == CeilDiv(Capacity * Window, Limit)
  <2>1. q \in Int /\ q * Limit >= Capacity * Window
    BY RoundsUp, Parameters, RateAssumption
  <2>2. Lifetime(a) = q + Slack /\ Slack \in Nat
    BY <1>2, RateLimitAssumption DEF Lifetime
  <2> HIDE DEF q
  <2>3. q * Limit <= Lifetime(a) * Limit
    BY <2>1, <2>2, Parameters, ProductsGrow
  <2>4. q * Limit \in Int /\ Lifetime(a) \in Nat /\ Lifetime(a) * Limit \in Int
    BY <2>1, <2>2, LifetimeType, Parameters
  <2> QED
    BY <2>1, <2>3, <2>4, Parameters
<1>3. CASE a = "tokenBucket"
  <2>1. r.state \in TokenBucketState
    BY <1>3, ApplyType DEF StateOf
  <2>2. r.state.last = t
    <3>1. r = TokenBucket(s, t, c)
      BY <1>3 DEF Apply
    <3> DEFINE q == TokenBucket(s, t, c)
    <3>2. q.allowed \in BOOLEAN
      BY TokenBucketMeans
    <3>3. \/ q.state = [tokens |-> TokensAt(s, t) - c * Window, last |-> t]
          \/ q.state = [tokens |-> TokensAt(s, t), last |-> t]
      BY <3>2, TokenBucketMeans
    <3> HIDE DEF r, q
    <3> QED
      BY <3>1, <3>3 DEF q
  <2> HIDE DEF r
  <2> DEFINE u == t + Lifetime(a)
  <2>3. u - r.state.last = Lifetime(a) /\ r.state.last <= u /\ r.state.tokens \in Nat
    BY <1>2, <1>3, <2>1, <2>2, Parameters DEF TokenBucketState, Parts
  <2>4. Idle(a, r.state, u)
    BY <1>2, <1>3, <2>3, Parameters DEF Idle
  <2> QED
    BY <1>3, <2>2, <2>4 DEF Past, r
<1>4. CASE a = "leakyBucket"
  <2>1. r.state \in LeakyBucketState
    BY <1>4, ApplyType DEF StateOf
  <2>2. r.state.last = t
    <3>1. r = LeakyBucket(s, t, c)
      BY <1>4 DEF Apply
    <3> DEFINE q == LeakyBucket(s, t, c)
    <3>2. q.allowed \in BOOLEAN
      BY LeakyBucketMeans
    <3>3. \/ q.state = [level |-> LevelAt(s, t) + c * Window, last |-> t]
          \/ q.state = [level |-> LevelAt(s, t), last |-> t]
      BY <3>2, LeakyBucketMeans
    <3> HIDE DEF r, q
    <3> QED
      BY <3>1, <3>3 DEF q
  <2> HIDE DEF r
  <2> DEFINE u == t + Lifetime(a)
  <2>3. /\ u - r.state.last = Lifetime(a) /\ r.state.last <= u
        /\ r.state.level \in Nat /\ r.state.level <= Capacity * Window
    BY <1>2, <1>4, <2>1, <2>2, Parameters DEF LeakyBucketState, Parts
  <2>4. Idle(a, r.state, u)
    BY <1>2, <1>4, <2>3, Parameters DEF Idle
  <2> QED
    BY <1>4, <2>2, <2>4 DEF Past, r
<1>5. CASE a = "slidingWindowLog"
  <2> DEFINE E == {e \in LogEntry : e[1] <= t}
             F == {e \in LogEntry : e[1] + Window <= t + Window}
             n == LogAt(s, t)
  <2>1. n \in Seq(E)
    <3>1. s \in Seq(E) /\ E \subseteq LogEntry /\ t - Window \in Int
      BY <1>5, Parameters DEF Past
    <3> HIDE DEF E
    <3> QED
      BY <3>1, AliveCosts DEF LogAt
  <2>2. <<t, c>> \in E
    BY DEF LogEntry
  <2> HIDE DEF E, n
  <2>3. r.state = Append(n, <<t, c>>) \/ r.state = n
    <3> DEFINE q == SlidingWindowLog(s, t, c)
    <3>1. r = q
      BY <1>5 DEF Apply
    <3>2. q.allowed \in BOOLEAN
      BY LogMeans
    <3>3. q.state = Append(n, <<t, c>>) \/ q.state = n
      BY <3>2, LogMeans DEF n
    <3>4. r.state = q.state
      BY <3>1
    <3> HIDE DEF r, q
    <3> QED
      BY <3>3, <3>4
  <2>4. r.state \in Seq(E)
    <3>1. PICK e \in E : e = <<t, c>>
      BY <2>2
    <3>2. Append(n, e) \in Seq(E)
      BY <2>1
    <3> HIDE DEF r
    <3> QED
      BY <2>1, <2>3, <3>1, <3>2
  <2>5. E \subseteq F
    BY Parameters DEF E, LogEntry
  <2> HIDE DEF r, F
  <2>6. r.state \in Seq(F)
    BY <2>4, <2>5, SeqGrows
  <2>7. Lifetime(a) = Window
    BY <1>5 DEF Lifetime
  <2> QED
    BY <1>5, <2>4, <2>6, <2>7 DEF Past, Idle, E, F, r
<1>6. CASE a = "slidingWindowCounter"
  <2>1. r.state.start = WindowStart(t)
    <3> DEFINE n == CounterAt(s, t)
    <3>1. r = SlidingWindowCounter(s, t, c)
      BY <1>6 DEF Apply
    <3>2. n \in CounterState /\ n.start = WindowStart(t)
      BY <1>6, CounterType DEF StateOf
    <3>3. \A k : Counted(n, k).start = n.start
      BY <3>2 DEF Counted, CounterState
    <3>4. r.state = Counted(n, n.current + c) \/ r.state = Counted(n, n.current)
      BY <3>1, CounterMeans
    <3> HIDE DEF n, r
    <3> QED
      BY <3>2, <3>3, <3>4
  <2>2. Lifetime(a) = 2 * Window
    BY <1>6 DEF Lifetime
  <2> HIDE DEF r
  <2> QED
    BY <1>6, <2>1, <2>2, WindowHolds, Parameters DEF Past, Idle, r
<1> QED
  BY <1>1, <1>3, <1>4, <1>5, <1>6 DEF AlgorithmName

\* A refusal by the log, which does not renew the expiry, adds nothing.
LEMMA LogRefuses ==
    ASSUME NEW s \in LogState, NEW t \in Nat, NEW c, NEW v \in Int,
           ~SlidingWindowLog(s, t, c).allowed
    PROVE  LET r == SlidingWindowLog(s, t, c)
           IN  /\ Idle("slidingWindowLog", s, v) => Idle("slidingWindowLog", r.state, v)
               /\ s = << >> => r.state = << >>
<1> DEFINE r == SlidingWindowLog(s, t, c)
           E == {e \in LogEntry : e[1] + Window <= v}
<1>1. r.state = LogAt(s, t)
  BY LogMeans
<1>2. s = << >> => r.state = << >>
  BY <1>1, AliveEmpty DEF LogAt
<1>3. ASSUME s \in Seq(E) PROVE r.state \in Seq(E)
  <2>1. E \subseteq LogEntry /\ t - Window \in Int
    BY Parameters
  <2> HIDE DEF E, r
  <2> QED
    BY <1>1, <1>3, <2>1, AliveCosts DEF LogAt
<1> HIDE DEF r
<1> QED
  BY <1>2, <1>3 DEF Idle, r

\* How far the clocks of the gateways, which agree, are ahead of Redis.
Ahead == IF Instances = {} THEN 0 ELSE skew[CHOOSE i \in Instances : TRUE]

LEMMA AheadType == ASSUME RateTypeOK PROVE Ahead \in Nat
BY RateLimitAssumption DEF Ahead, RateTypeOK

LEMMA SkewStays ==
    ASSUME [Next]_vars
    PROVE  skew' = skew /\ Ahead' = Ahead /\ (SameClock' <=> SameClock)
<1>1. skew' = skew
  BY DEF Next, Consume, Reset, Tick, vars
<1> QED
  BY <1>1 DEF Ahead, SameClock

LEMMA AllAhead ==
    ASSUME SameClock, NEW i \in Instances
    PROVE  skew[i] = Ahead
<1>1. (CHOOSE j \in Instances : TRUE) \in Instances
  OBVIOUS
<1> QED
  BY <1>1 DEF SameClock, Ahead

\* Redis has what the in-process store has, unless the key has expired: then the
\* in-process store has nothing that still counts.
AgreeInv ==
    /\ redis = IF ttl = 0 THEN NewState(algorithm) ELSE memory
    /\ Past(algorithm, memory, now + Ahead)
    /\ Idle(algorithm, memory, now + Ahead + ttl)
    /\ last.redis = last.memory

\* Hence the two stores decide every call alike.
LEMMA SameDecision ==
    ASSUME RateTypeOK, AgreeInv, NEW c
    PROVE  Apply(algorithm, redis, now + Ahead, c) = Apply(algorithm, memory, now + Ahead, c)
<1>1. now + Ahead \in Nat
  BY AheadType, RateLimitAssumption DEF RateTypeOK
<1>2. CASE ttl = 0
  <2>1. now + Ahead + ttl = now + Ahead
    BY <1>1, <1>2
  <2>2. Idle(algorithm, memory, now + Ahead)
    BY <2>1 DEF AgreeInv
  <2> QED
    BY <1>1, <1>2, <2>2, IdleIsNew DEF AgreeInv, RateTypeOK
<1>3. CASE ttl # 0
  BY <1>3 DEF AgreeInv
<1> QED
  BY <1>2, <1>3

LEMMA InitAgree == Init => AgreeInv
<1> SUFFICES ASSUME Init PROVE AgreeInv
  OBVIOUS
<1>0. Ahead \in Nat
  BY InitRateType, AheadType
<1>1. algorithm \in AlgorithmName /\ now + Ahead \in Nat /\ now + Ahead + ttl = now + Ahead
  BY <1>0, RateLimitAssumption DEF Init
<1>2. /\ Past(algorithm, NewState(algorithm), now + Ahead)
      /\ Idle(algorithm, NewState(algorithm), now + Ahead)
  BY <1>1, NewIsIdle
<1>3. last.redis = last.memory
  BY DEF Init, NoCall
<1> QED
  BY <1>1, <1>2, <1>3 DEF Init, AgreeInv

LEMMA NextAgree == SameClock /\ RateTypeOK /\ AgreeInv /\ [Next]_vars => AgreeInv'
<1> SUFFICES ASSUME SameClock, RateTypeOK, AgreeInv, [Next]_vars PROVE AgreeInv'
  OBVIOUS
<1> DEFINE clock == now + Ahead
<1>0. Ahead' = Ahead
  BY SkewStays
<1>1. clock \in Nat /\ ttl \in Nat /\ now \in Nat /\ Ahead \in Nat
  BY AheadType, RateLimitAssumption DEF RateTypeOK
<1>2. algorithm \in AlgorithmName /\ memory \in StateOf(algorithm)
  BY DEF RateTypeOK
<1>3. ASSUME NEW i \in Instances, NEW c \in Costs, Consume(i, c) PROVE AgreeInv'
  <2> DEFINE r == Apply(algorithm, redis, clock, c)
             m == Apply(algorithm, memory, clock, c)
  <2>1. r = m /\ c \in Nat \ {0} /\ skew[i] = Ahead
    BY SameDecision, AllAhead, RateLimitAssumption
  <2>2. /\ algorithm' = algorithm /\ now' = now
        /\ redis' = m.state /\ memory' = m.state
        /\ ttl' = IF Renews(m.allowed) THEN Lifetime(algorithm) ELSE ttl
        /\ last'.redis = last'.memory
    BY <1>3, <2>1, Consumed
  <2>3. /\ Past(algorithm, m.state, clock)
        /\ Idle(algorithm, m.state, clock + Lifetime(algorithm))
    BY <1>1, <1>2, <2>1, ApplyPast DEF AgreeInv
  <2>4. CASE Renews(m.allowed)
    <3>1. ttl' = Lifetime(algorithm) /\ ttl' # 0
      BY <1>2, <2>2, <2>4, LifetimeType
    <3> HIDE DEF m
    <3> QED
      BY <1>0, <2>2, <2>3, <3>1 DEF AgreeInv
  <2>5. CASE ~Renews(m.allowed)
    <3>1. algorithm = "slidingWindowLog" /\ ~m.allowed /\ ttl' = ttl
      BY <2>2, <2>5 DEF Renews
    <3>2. /\ m = SlidingWindowLog(memory, clock, c) /\ memory \in LogState
          /\ r = SlidingWindowLog(redis, clock, c) /\ redis \in LogState
      BY <1>2, <3>1 DEF Apply, StateOf, RateTypeOK
    <3>3. Idle(algorithm, m.state, clock + ttl)
      BY <1>1, <3>1, <3>2, LogRefuses DEF AgreeInv
    <3>4. ASSUME ttl = 0 PROVE m.state = NewState(algorithm)
      <4>1. redis = << >> /\ NewState(algorithm) = << >>
        BY <3>1, <3>4 DEF AgreeInv, NewState, NewSlidingWindowLog
      <4> HIDE DEF m, r
      <4>2. ~r.allowed
        BY <2>1, <3>1
      <4>3. r.state = << >>
        BY <1>1, <3>2, <4>1, <4>2, LogRefuses
      <4> QED
        BY <2>1, <4>1, <4>3
    <3> HIDE DEF m
    <3> QED
      BY <1>0, <2>2, <2>3, <3>1, <3>3, <3>4 DEF AgreeInv
  <2> QED
    BY <2>4, <2>5
<1>4. CASE Reset
  <2>1. /\ redis' = NewState(algorithm) /\ memory' = NewState(algorithm) /\ ttl' = 0
        /\ algorithm' = algorithm /\ now' = now /\ last' = last
    BY <1>4 DEF Reset
  <2>2. now' + Ahead + ttl' = clock
    BY <1>1, <2>1
  <2>3. Past(algorithm, NewState(algorithm), clock) /\ Idle(algorithm, NewState(algorithm), clock)
    BY <1>1, <1>2, NewIsIdle
  <2> QED
    BY <1>0, <2>1, <2>2, <2>3 DEF AgreeInv
<1>5. CASE Tick
  <2>1. /\ algorithm' = algorithm /\ memory' = memory /\ last' = last
        /\ now' = now + 1 /\ ttl' = AtLeast0(ttl - 1)
        /\ redis' = IF ttl = 1 THEN NewState(algorithm) ELSE redis
    BY <1>5 DEF Tick
  <2>2. clock + ttl <= now' + Ahead + ttl' /\ now' + Ahead + ttl' \in Int /\ clock <= now' + Ahead
    BY <1>1, <2>1 DEF AtLeast0
  <2>3. Past(algorithm, memory, now' + Ahead)
    BY <1>1, <1>2, <2>1, <2>2, PastGrows DEF AgreeInv
  <2>4. Idle(algorithm, memory, now' + Ahead + ttl')
    BY <1>1, <1>2, <2>2, IdleGrows DEF AgreeInv
  <2>5. redis' = IF ttl' = 0 THEN NewState(algorithm) ELSE memory
    BY <1>1, <2>1 DEF AgreeInv, AtLeast0
  <2> QED
    BY <1>0, <2>1, <2>3, <2>4, <2>5 DEF AgreeInv
<1>6. CASE UNCHANGED vars
  BY <1>0, <1>6 DEF vars, AgreeInv
<1> QED
  BY <1>3, <1>4, <1>5, <1>6 DEF Next

LEMMA AgreeInvariant == Spec => [](SameClock => AgreeInv)
<1>1. RateTypeOK /\ (SameClock => AgreeInv) /\ [Next]_vars => (SameClock => AgreeInv)'
  BY NextAgree, SkewStays
<1> QED
  BY <1>1, InitAgree, RateTypeCorrect, PTL DEF Spec

\* As long as the gateways' clocks agree, Redis, which lets keys expire, and
\* the in-process store, which never does, answer every call alike.
THEOREM StoresAlike == Spec => []StoresAgree
<1>1. (SameClock => AgreeInv) => StoresAgree
  BY DEF AgreeInv, StoresAgree
<1> QED
  BY <1>1, AgreeInvariant, PTL

-----------------------------------------------------------------------------
(* The rate limiter: the bounds *)

\* The windows of a state begin where windows begin.
Aligned(a, s) ==
    a \in {"fixedWindow", "slidingWindowCounter"} => WindowStart(s.start) = s.start

\* The state at clock t accounts for a total of x admitted from clock t - d on:
\* by its counts, by the tokens that are gone or the level that is left but for
\* what has flowed since, or by the entries of the log from then on.
Spent(a, s, t, d, x) ==
    CASE a = "fixedWindow" ->
            /\ t - d >= s.start + Window => x = 0
            /\ t - d >= s.start          => x <= s.count
            /\ t - d >= s.start - Window => x <= Limit + s.count
      [] a = "tokenBucket" -> x * Window + TokensAt(s, t) <= Capacity * Window + d * Limit
      [] a = "leakyBucket" -> x * Window <= LevelAt(s, t) + d * Limit
      [] a = "slidingWindowLog" -> d < Window => x <= CostOf(Alive(s, t - d - 1))
      [] a = "slidingWindowCounter" ->
            /\ t - d >= s.start + Window => x = 0
            /\ t - d >= s.start          => x <= s.current
            /\ t - d >= s.start - Window => x <= s.previous + s.current

LEMMA Unspent ==
    ASSUME NEW a \in AlgorithmName, NEW s \in StateOf(a), NEW t \in Int, NEW d \in Nat
    PROVE  Spent(a, s, t, d, 0)
<1>0. d * Limit \in Nat /\ 0 * Window = 0
  BY Parameters
<1>1. CASE a = "fixedWindow"
  BY <1>1, Parameters DEF Spent, StateOf, FixedWindowState
<1>2. CASE a = "tokenBucket"
  <2>1. TokensAt(s, t) \in Nat /\ TokensAt(s, t) <= Capacity * Window
    BY <1>2, TokensType, Parameters DEF StateOf, Parts
  <2> QED
    BY <1>0, <1>2, <2>1, Parameters DEF Spent
<1>3. CASE a = "leakyBucket"
  <2>1. LevelAt(s, t) \in Nat
    BY <1>3, LevelType, Parameters DEF StateOf, Parts
  <2> QED
    BY <1>0, <1>3, <2>1 DEF Spent
<1>4. CASE a = "slidingWindowLog"
  <2>1. s \in Seq(LogEntry) /\ t - d - 1 \in Int
    BY <1>4 DEF StateOf, LogState
  <2>2. CostOf(Alive(s, t - d - 1)) \in Nat
    BY <2>1, AliveCosts
  <2> QED
    BY <1>4, <2>2 DEF Spent
<1>5. CASE a = "slidingWindowCounter"
  BY <1>5, Parameters DEF Spent, StateOf, CounterState
<1> QED
  BY <1>1, <1>2, <1>3, <1>4, <1>5 DEF AlgorithmName

\* It accounts for it a tick later.
LEMMA SpentLater ==
    ASSUME NEW a \in AlgorithmName, NEW s \in StateOf(a), NEW t \in Int, NEW d \in Nat,
           NEW x \in Nat, Past(a, s, t), Spent(a, s, t, d, x)
    PROVE  Spent(a, s, t + 1, d + 1, x)
<1>0. /\ (t + 1) - (d + 1) = t - d /\ (d + 1) * Limit = d * Limit + Limit
      /\ d * Limit \in Nat /\ x * Window \in Nat
  BY Parameters
<1>1. CASE a = "fixedWindow"
  BY <1>0, <1>1 DEF Spent
<1>2. CASE a = "tokenBucket"
  <2> DEFINE f == (t - s.last) * Limit
  <2>1. s.last \in Int /\ s.tokens \in Nat /\ s.last <= t
    BY <1>2, Parameters DEF StateOf, TokenBucketState, Parts, Past
  <2>2. f \in Int /\ (t + 1 - s.last) * Limit = f + Limit
    BY <2>1, Parameters
  <2>3. /\ TokensAt(s, t) = AtMost(Capacity * Window, s.tokens + f)
        /\ TokensAt(s, t + 1) = AtMost(Capacity * Window, s.tokens + (t + 1 - s.last) * Limit)
    BY <1>2, <2>1, TokensType DEF StateOf
  <2> HIDE DEF f
  <2>4. TokensAt(s, t + 1) <= TokensAt(s, t) + Limit /\ TokensAt(s, t + 1) \in Int
    BY <2>1, <2>2, <2>3, Parameters DEF AtMost
  <2>5. TokensAt(s, t) \in Int
    BY <2>1, <2>2, <2>3, Parameters DEF AtMost
  <2> QED
    BY <1>0, <1>2, <2>4, <2>5, Parameters DEF Spent
<1>3. CASE a = "leakyBucket"
  <2> DEFINE f == (t - s.last) * Limit
  <2>1. s.last \in Int /\ s.level \in Nat /\ s.last <= t
    BY <1>3, Parameters DEF StateOf, LeakyBucketState, Parts, Past
  <2>2. f \in Int /\ (t + 1 - s.last) * Limit = f + Limit
    BY <2>1, Parameters
  <2>3. /\ LevelAt(s, t) = AtLeast0(s.level - f)
        /\ LevelAt(s, t + 1) = AtLeast0(s.level - (t + 1 - s.last) * Limit)
    BY <1>3, <2>1, LevelType DEF StateOf
  <2> HIDE DEF f
  <2>4. LevelAt(s, t) <= LevelAt(s, t + 1) + Limit /\ LevelAt(s, t + 1) \in Int
    BY <2>1, <2>2, <2>3, Parameters DEF AtLeast0
  <2>5. LevelAt(s, t) \in Int
    BY <2>1, <2>2, <2>3 DEF AtLeast0
  <2> QED
    BY <1>0, <1>3, <2>4, <2>5, Parameters DEF Spent
<1>4. CASE a = "slidingWindowLog"
  <2>1. (t + 1) - (d + 1) - 1 = t - d - 1 /\ (d + 1 < Window => d < Window)
    BY Parameters
  <2> QED
    BY <1>4, <2>1 DEF Spent
<1>5. CASE a = "slidingWindowCounter"
  BY <1>0, <1>5 DEF Spent
<1> QED
  BY <1>1, <1>2, <1>3, <1>4, <1>5 DEF AlgorithmName

\* A call that is admitted is accounted for with what was, and one that is
\* refused takes nothing away.  A call may come at the end of a tick only: all
\* that was admitted from t - d on was admitted by t.
LEMMA SpentByCall ==
    ASSUME NEW a \in AlgorithmName, NEW s \in StateOf(a), NEW t \in Int, NEW d \in Nat,
           NEW x \in Nat, NEW c \in Nat \ {0},
           Past(a, s, t), Aligned(a, s), Spent(a, s, t, d, x)
    PROVE  LET r == Apply(a, s, t, c)
           IN  /\ Aligned(a, r.state)
               /\ r.allowed => Spent(a, r.state, t, d, x + c)
               /\ ~r.allowed => Spent(a, r.state, t, d, x)
<1> DEFINE w == WindowStart(t)
           r == Apply(a, s, t, c)
<1>0. /\ w \in Int /\ w <= t /\ t < w + Window /\ WindowStart(w) = w
  BY WindowHolds, WindowsBegin
<1>1. CASE a = "fixedWindow"
  <2> DEFINE n == CountAt(s, t)
             q == FixedWindow(s, t, c)
  <2>1. s.start \in Int /\ s.count \in 0 .. Limit /\ s.start <= t /\ WindowStart(s.start) = s.start
    BY <1>1 DEF StateOf, FixedWindowState, Past, Aligned
  <2>2. s.start = w \/ s.start + Window <= w
    <3>1. s.start > w => w + Window <= s.start
      BY <1>0, <2>1, WindowsApart
    <3>2. s.start < w => s.start + Window <= w
      BY <1>0, <2>1, WindowsApart
    <3> QED
      BY <1>0, <2>1, <3>1, <3>2, Parameters
  <2>3. /\ n \in 0 .. Limit
        /\ t - d >= w          => x <= n
        /\ t - d >= w - Window => x <= Limit + n
    BY <1>0, <1>1, <2>1, <2>2, Parameters DEF CountAt, Spent
  <2> HIDE DEF w, n
  <2>4. /\ q.allowed \in BOOLEAN
        /\ q.allowed => q.state = [start |-> w, count |-> n + c]
        /\ ~q.allowed => q.state = [start |-> w, count |-> n]
    BY FixedWindowMeans DEF w, n
  <2>5. r = q
    BY <1>1 DEF Apply
  <2> HIDE DEF q, r
  <2>6. Aligned(a, q.state)
    BY <1>0, <1>1, <2>4 DEF Aligned
  <2>7. ASSUME q.allowed PROVE Spent(a, q.state, t, d, x + c)
    <3>1. q.state.start = w /\ q.state.count = n + c
      BY <2>4, <2>7
    <3> QED
      BY <1>0, <1>1, <2>3, <3>1, Parameters DEF Spent
  <2>8. ASSUME ~q.allowed PROVE Spent(a, q.state, t, d, x)
    <3>1. q.state.start = w /\ q.state.count = n
      BY <2>4, <2>8
    <3> QED
      BY <1>0, <1>1, <2>3, <3>1, Parameters DEF Spent
  <2> QED
    BY <2>5, <2>6, <2>7, <2>8 DEF r
<1>2. CASE a = "tokenBucket"
  <2> DEFINE n == TokensAt(s, t)
             q == TokenBucket(s, t, c)
  <2>1. n \in Parts /\ x * Window + n <= Capacity * Window + d * Limit
    BY <1>2, TokensType DEF StateOf, Spent
  <2>2. /\ (x + c) * Window = x * Window + c * Window
        /\ x * Window \in Nat /\ c * Window \in Nat /\ d * Limit \in Nat
    BY Parameters
  <2>3. /\ q.allowed \in BOOLEAN
        /\ q.allowed <=> n >= c * Window
        /\ q.allowed => q.state = [tokens |-> n - c * Window, last |-> t]
        /\ ~q.allowed => q.state = [tokens |-> n, last |-> t]
    BY TokenBucketMeans
  <2>4. r = q /\ q.state \in TokenBucketState
    BY <1>2, ApplyType DEF Apply, StateOf
  <2> DEFINE m == c * Window
  <2> HIDE DEF n, q, r, m
  <2>5. TokensAt(q.state, t) = q.state.tokens
    <3>1. q.state.last = t /\ q.state.tokens \in Parts
      BY <2>3, <2>4 DEF TokenBucketState
    <3>2. (t - q.state.last) * Limit = 0 /\ t >= q.state.last
      BY <3>1, Parameters
    <3> QED
      BY <2>4, <3>1, <3>2, TokensType, Parameters DEF AtMost, Parts
  <2>6. Aligned(a, q.state)
    BY <1>2 DEF Aligned
  <2>7. ASSUME q.allowed PROVE Spent(a, q.state, t, d, x + c)
    <3>1. q.state.tokens = n - m
      BY <2>3, <2>7 DEF m
    <3>2. m = c * Window
      BY DEF m
    <3> QED
      BY <1>2, <2>1, <2>2, <2>5, <3>1, <3>2, Parameters DEF Spent, Parts
  <2>8. ASSUME ~q.allowed PROVE Spent(a, q.state, t, d, x)
    <3>1. q.state.tokens = n
      BY <2>3, <2>8
    <3> QED
      BY <1>2, <2>1, <2>2, <2>5, <3>1, Parameters DEF Spent, Parts
  <2> QED
    BY <2>4, <2>6, <2>7, <2>8 DEF r
<1>3. CASE a = "leakyBucket"
  <2> DEFINE n == LevelAt(s, t)
             q == LeakyBucket(s, t, c)
             m == c * Window
  <2>1. n \in Parts /\ x * Window <= n + d * Limit
    BY <1>3, LevelType DEF StateOf, Spent
  <2>2. /\ (x + c) * Window = x * Window + m
        /\ x * Window \in Nat /\ m \in Nat /\ d * Limit \in Nat
    BY Parameters
  <2>3. /\ q.allowed \in BOOLEAN
        /\ q.allowed => q.state = [level |-> n + m, last |-> t]
        /\ ~q.allowed => q.state = [level |-> n, last |-> t]
    BY LeakyBucketMeans
  <2>4. r = q /\ q.state \in LeakyBucketState
    BY <1>3, ApplyType DEF Apply, StateOf
  <2> HIDE DEF n, q, r, m
  <2>5. LevelAt(q.state, t) = q.state.level
    <3>1. q.state.last = t /\ q.state.level \in Parts
      BY <2>3, <2>4 DEF LeakyBucketState
    <3>2. (t - q.state.last) * Limit = 0 /\ t >= q.state.last
      BY <3>1, Parameters
    <3> QED
      BY <2>4, <3>1, <3>2, LevelType, Parameters DEF AtLeast0, Parts
  <2>6. Aligned(a, q.state)
    BY <1>3 DEF Aligned
  <2>7. ASSUME q.allowed PROVE Spent(a, q.state, t, d, x + c)
    <3>1. q.state.level = n + m
      BY <2>3, <2>7
    <3> QED
      BY <1>3, <2>1, <2>2, <2>5, <3>1, Parameters DEF Spent, Parts
  <2>8. ASSUME ~q.allowed PROVE Spent(a, q.state, t, d, x)
    <3>1. q.state.level = n
      BY <2>3, <2>8
    <3> QED
      BY <1>3, <2>1, <2>2, <2>5, <3>1, Parameters DEF Spent, Parts
  <2> QED
    BY <2>4, <2>6, <2>7, <2>8 DEF r
<1>4. CASE a = "slidingWindowLog"
  <2> DEFINE n == LogAt(s, t)
             q == SlidingWindowLog(s, t, c)
             u == t - d - 1
             e == <<t, c>>
  <2>1. /\ s \in Seq(LogEntry) /\ n \in Seq(LogEntry) /\ e \in LogEntry
        /\ u \in Int /\ t - Window \in Int /\ e[1] > u /\ e[2] = c
    BY <1>4, LogType, Parameters DEF StateOf, LogState, LogEntry
  <2>2. d < Window => Alive(n, u) = Alive(s, u)
    <3>1. d < Window => t - Window <= u
      BY Parameters
    <3> HIDE DEF u
    <3> QED
      BY <2>1, <3>1, AliveTwice DEF LogAt
  <2>3. CostOf(Alive(Append(n, e), u)) = CostOf(Alive(n, u)) + c
    <3> HIDE DEF n, u, e
    <3>1. Alive(Append(n, e), u) = Append(Alive(n, u), e)
      BY <2>1, AliveAppend
    <3>2. Alive(n, u) \in Seq(LogEntry)
      BY <2>1, AliveCosts
    <3>3. CostOf(Append(Alive(n, u), e)) = CostOf(Alive(n, u)) + e[2]
      BY <2>1, <3>2, CostOfAppend
    <3> QED
      BY <2>1, <3>1, <3>3
  <2>4. CostOf(Alive(n, u)) \in Nat
    BY <2>1, AliveCosts
  <2>5. /\ q.allowed \in BOOLEAN
        /\ q.allowed => q.state = Append(n, e)
        /\ ~q.allowed => q.state = n
    BY LogMeans
  <2>6. r = q
    BY <1>4 DEF Apply
  <2>7. d < Window => x <= CostOf(Alive(n, u))
    BY <1>4, <2>2 DEF Spent
  <2> HIDE DEF n, q, r, e, u
  <2>8. Aligned(a, q.state)
    BY <1>4 DEF Aligned
  <2>9. ASSUME q.allowed PROVE Spent(a, q.state, t, d, x + c)
    <3>1. q.state = Append(n, e)
      BY <2>5, <2>9
    <3>2. CostOf(Alive(q.state, u)) = CostOf(Alive(n, u)) + c
      BY <2>3, <3>1
    <3>3. d < Window => x + c <= CostOf(Alive(q.state, u))
      BY <2>4, <2>7, <3>2
    <3> QED
      BY <1>4, <3>3 DEF Spent, u
  <2>10. ASSUME ~q.allowed PROVE Spent(a, q.state, t, d, x)
    <3>1. d < Window => x <= CostOf(Alive(q.state, u))
      BY <2>5, <2>7, <2>10
    <3> QED
      BY <1>4, <3>1 DEF Spent, u
  <2> QED
    BY <2>6, <2>8, <2>9, <2>10 DEF r
<1>5. CASE a = "slidingWindowCounter"
  <2> DEFINE n == CounterAt(s, t)
             q == SlidingWindowCounter(s, t, c)
  <2>1. /\ s.start \in Int /\ s.current \in 0 .. Limit /\ s.previous \in 0 .. Limit
        /\ s.start <= t /\ WindowStart(s.start) = s.start
    BY <1>5 DEF StateOf, CounterState, Past, Aligned
  <2>2. \/ s.start = w
        \/ s.start = w - Window
        \/ s.start + 2 * Window <= w
    <3>1. s.start > w => w + Window <= s.start
      BY <1>0, <2>1, WindowsApart
    <3>2. s.start < w => s.start + Window <= w
      BY <1>0, <2>1, WindowsApart
    <3>3. s.start + Window < w => s.start + 2 * Window <= w
      BY <1>0, <2>1, WindowsFarApart
    <3> QED
      BY <1>0, <2>1, <3>1, <3>2, <3>3, Parameters
  <2>3. n \in CounterState /\ n.start = w
    BY <1>5, CounterType DEF StateOf
  <2>4. /\ t - d >= w          => x <= n.current
        /\ t - d >= w - Window => x <= n.previous + n.current
    <3>1. CASE s.start = w
      BY <1>5, <3>1 DEF CounterAt, CarryForward, Spent
    <3>2. CASE s.start # w
      <4>1. n.current = 0 /\ n.previous = IF s.start = w - Window THEN s.current ELSE 0
        BY <3>2 DEF CounterAt, CarryForward
      <4> HIDE DEF n, w
      <4> QED
        BY <1>0, <1>5, <2>1, <2>2, <3>2, <4>1, Parameters DEF Spent
    <3> QED
      BY <3>1, <3>2
  <2> HIDE DEF w, n
  <2>5. /\ q.allowed \in BOOLEAN
        /\ q.allowed => q.state = Counted(n, n.current + c)
        /\ ~q.allowed => q.state = Counted(n, n.current)
    BY CounterMeans DEF n
  <2>6. r = q
    BY <1>5 DEF Apply
  <2>7. /\ n.current \in Nat /\ n.previous \in Nat
        /\ \A k : /\ Counted(n, k).start = w /\ Counted(n, k).previous = n.previous
                  /\ Counted(n, k).current = k
    BY <2>3, Parameters DEF Counted, CounterState
  <2> HIDE DEF q, r
  <2>8. Aligned(a, q.state)
    BY <1>0, <1>5, <2>5, <2>7 DEF Aligned
  <2>9. ASSUME q.allowed PROVE Spent(a, q.state, t, d, x + c)
    <3>1. /\ q.state.start = w /\ q.state.current = n.current + c
          /\ q.state.previous = n.previous
      BY <2>5, <2>7, <2>9
    <3> QED
      BY <1>0, <1>5, <2>4, <2>7, <3>1, Parameters DEF Spent
  <2>10. ASSUME ~q.allowed PROVE Spent(a, q.state, t, d, x)
    <3>1. /\ q.state.start = w /\ q.state.current = n.current
          /\ q.state.previous = n.previous
      BY <2>5, <2>7, <2>10
    <3> QED
      BY <1>0, <1>5, <2>4, <2>7, <3>1, Parameters DEF Spent
  <2> QED
    BY <2>6, <2>8, <2>9, <2>10 DEF r
<1> QED
  BY <1>1, <1>2, <1>3, <1>4, <1>5 DEF AlgorithmName

\* What a state accounts for in up to a window's time is within the bound.
LEMMA SpentWithin ==
    ASSUME algorithm \in AlgorithmName, NEW s \in StateOf(algorithm), NEW t \in Int,
           NEW d \in Nat, d < Window, NEW x \in Nat,
           Past(algorithm, s, t), Spent(algorithm, s, t, d, x)
    PROVE  x * Window <= Bound(d + 1)
<1>0. /\ d * Limit \in Nat /\ x * Window \in Nat /\ (d + 1) - 1 = d
      /\ \A k \in Int : x <= k => x * Window <= k * Window
  BY Parameters, ProductsGrow
<1>1. CASE algorithm = "fixedWindow"
  <2>1. s.start <= t /\ s.start \in Int /\ s.count \in Nat /\ s.count <= Limit
    BY <1>1, Parameters DEF Past, StateOf, FixedWindowState
  <2>2. x <= 2 * Limit
    BY <1>1, <2>1, Parameters DEF Spent
  <2>3. Bound(d + 1) = 2 * Limit * Window
    BY <1>1 DEF Bound
  <2>4. x * Window <= (2 * Limit) * Window
    BY <2>2, Parameters, ProductsGrow
  <2> QED
    BY <2>3, <2>4
<1>2. CASE algorithm = "tokenBucket"
  <2>1. TokensAt(s, t) \in Nat
    BY <1>2, TokensType, Parameters DEF StateOf, Parts
  <2>2. x * Window + TokensAt(s, t) <= Capacity * Window + d * Limit
    BY <1>2 DEF Spent
  <2>3. Bound(d + 1) = Capacity * Window + d * Limit
    BY <1>0, <1>2 DEF Bound
  <2> QED
    BY <1>0, <2>1, <2>2, <2>3, Parameters
<1>3. CASE algorithm = "leakyBucket"
  <2>1. LevelAt(s, t) \in Nat /\ LevelAt(s, t) <= Capacity * Window
    BY <1>3, LevelType, Parameters DEF StateOf, Parts
  <2>2. x * Window <= LevelAt(s, t) + d * Limit
    BY <1>3 DEF Spent
  <2>3. Bound(d + 1) = Capacity * Window + d * Limit
    BY <1>0, <1>3 DEF Bound
  <2> QED
    BY <1>0, <2>1, <2>2, <2>3, Parameters
<1>4. CASE algorithm = "slidingWindowLog"
  <2>1. s \in Seq(LogEntry) /\ CostOf(s) <= Limit /\ t - d - 1 \in Int
    BY <1>4 DEF StateOf, LogState
  <2>2. /\ CostOf(Alive(s, t - d - 1)) \in Nat /\ CostOf(s) \in Nat
        /\ CostOf(Alive(s, t - d - 1)) <= CostOf(s)
    BY <2>1, AliveCosts
  <2>3. x <= CostOf(Alive(s, t - d - 1))
    BY <1>4 DEF Spent
  <2>4. x <= Limit
    BY <2>1, <2>2, <2>3, Parameters
  <2>5. Bound(d + 1) = Limit * Window
    BY <1>4 DEF Bound
  <2> QED
    BY <2>4, <2>5, Parameters, ProductsGrow
<1>5. CASE algorithm = "slidingWindowCounter"
  <2>1. /\ s.start <= t /\ s.start \in Int
        /\ s.current \in 0 .. Limit /\ s.previous \in 0 .. Limit
        /\ s.previous > 0 => s.current < Limit
    BY <1>5, Parameters DEF Past, StateOf, CounterState
  <2>2. x <= s.previous + s.current
    BY <1>5, <2>1, Parameters DEF Spent
  <2>3. x <= 2 * Limit - 1
    BY <2>1, <2>2, Parameters
  <2>4. Bound(d + 1) = (2 * Limit - 1) * Window
    BY <1>5 DEF Bound
  <2>5. 2 * Limit - 1 \in Int
    BY Parameters
  <2> QED
    BY <2>3, <2>4, <2>5, Parameters, ProductsGrow
<1> QED
  BY <1>1, <1>2, <1>3, <1>4, <1>5 DEF AlgorithmName

\* The state of the in-process store accounts for whatever has been admitted
\* from any tick on.
SpentInv ==
    /\ Aligned(algorithm, memory)
    /\ \A t \in now .. MaxTime : admitted[t] = admitted[now]
    /\ \A s \in 0 .. now :
           /\ Admitted(s, now) \in Nat
           /\ Spent(algorithm, memory, now + Ahead, now - s, Admitted(s, now))

LEMMA NewAligned ==
    ASSUME NEW a \in AlgorithmName
    PROVE  Aligned(a, NewState(a))
BY FirstWindow DEF Aligned, NewState, NewFixedWindow, NewSlidingWindowCounter, AlgorithmName

\* A key of which nothing counts accounts for nothing.
LEMMA InitSpent ==
    ASSUME NEW a \in AlgorithmName, NEW n \in 0 .. MaxTime, NEW s \in 0 .. n, NEW k \in Nat
    PROVE  Spent(a, NewState(a), n + k, n - s, 0)
<1>1. n + k \in Int /\ n - s \in Nat
  BY RateLimitAssumption
<1> QED
  BY <1>1, NewStateType, Unspent

LEMMA NextSpent ==
    SameClock /\ RateTypeOK /\ AgreeInv /\ SpentInv /\ [Next]_vars => SpentInv'
<1> SUFFICES ASSUME SameClock, RateTypeOK, AgreeInv, SpentInv, [Next]_vars PROVE SpentInv'
  OBVIOUS
<1>0. Ahead' = Ahead
  BY SkewStays
<1>1. /\ algorithm \in AlgorithmName /\ memory \in StateOf(algorithm)
      /\ now \in 0 .. MaxTime /\ MaxTime \in Nat /\ Ahead \in Nat /\ now + Ahead \in Int
      /\ admitted \in [0 .. MaxTime -> Nat]
  BY AheadType, RateLimitAssumption DEF RateTypeOK
<1>2. ASSUME NEW i \in Instances, NEW c \in Costs, Consume(i, c) PROVE SpentInv'
  <2> DEFINE clock == now + Ahead
             m == Apply(algorithm, memory, clock, c)
  <2>1. /\ Apply(algorithm, redis, clock, c) = m
        /\ c \in Nat \ {0} /\ skew[i] = Ahead
    BY SameDecision, AllAhead, RateLimitAssumption
  <2>2. /\ algorithm' = algorithm /\ now' = now /\ memory' = m.state
        /\ admitted' = [t \in 0 .. MaxTime |->
                           IF m.allowed /\ t >= now THEN admitted[t] + c ELSE admitted[t]]
    BY <1>2, <2>1, Consumed
  <2>3. m.allowed \in BOOLEAN
    BY <1>1, <2>1, ApplyType
  <2>4. ASSUME NEW s \in 0 .. now
        PROVE  /\ Aligned(algorithm, m.state)
               /\ m.allowed => Spent(algorithm, m.state, clock, now - s, Admitted(s, now) + c)
               /\ ~m.allowed => Spent(algorithm, m.state, clock, now - s, Admitted(s, now))
    <3>1. now - s \in Nat /\ Admitted(s, now) \in Nat
      BY <1>1 DEF SpentInv
    <3>2. Past(algorithm, memory, clock) /\ Aligned(algorithm, memory)
      BY DEF AgreeInv, SpentInv
    <3>3. Spent(algorithm, memory, clock, now - s, Admitted(s, now))
      BY DEF SpentInv
    <3> QED
      BY <1>1, <2>1, <3>1, <3>2, <3>3, SpentByCall
  <2> HIDE DEF m
  <2>5. ASSUME NEW s \in 0 .. now
        PROVE  (Admitted(s, now))' = IF m.allowed THEN Admitted(s, now) + c ELSE Admitted(s, now)
    <3>1. s = 0 \/ s - 1 \in 0 .. now - 1
      BY <1>1
    <3> QED
      BY <1>1, <2>1, <2>2, <2>3, <3>1 DEF Admitted
  <2>6. Aligned(algorithm, m.state)
    <3>1. 0 \in 0 .. now
      BY <1>1
    <3> QED
      BY <2>4, <3>1
  <2>7. \A t \in now .. MaxTime : admitted'[t] = admitted'[now]
    BY <1>1, <2>2 DEF SpentInv
  <2>8. ASSUME NEW s \in 0 .. now
        PROVE  /\ (Admitted(s, now))' \in Nat
               /\ Spent(algorithm, m.state, clock, now - s, (Admitted(s, now))')
    <3>1. Admitted(s, now) \in Nat
      BY DEF SpentInv
    <3> QED
      BY <2>1, <2>3, <2>4, <2>5, <3>1
  <2> QED
    BY <1>0, <2>2, <2>6, <2>7, <2>8 DEF SpentInv
<1>3. CASE Reset
  <2>1. /\ algorithm' = algorithm /\ now' = now /\ memory' = NewState(algorithm)
        /\ admitted' = [t \in 0 .. MaxTime |-> 0]
    BY <1>3 DEF Reset
  <2>2. \A s \in 0 .. now : (Admitted(s, now))' = 0
    BY <1>1, <2>1 DEF Admitted
  <2>3. \A t \in now .. MaxTime : admitted'[t] = admitted'[now]
    BY <1>1, <2>1
  <2>4. \A s \in 0 .. now : Spent(algorithm, NewState(algorithm), now + Ahead, now - s, 0)
    BY <1>1, InitSpent
  <2> QED
    BY <1>0, <1>1, <2>1, <2>2, <2>3, <2>4, NewAligned DEF SpentInv
<1>4. CASE Tick
  <2>1. /\ algorithm' = algorithm /\ memory' = memory /\ admitted' = admitted
        /\ now' = now + 1 /\ now < MaxTime
    BY <1>4 DEF Tick
  <2>2. admitted[now + 1] = admitted[now] /\ \A t \in now + 1 .. MaxTime : admitted[t] = admitted[now]
    BY <1>1, <2>1 DEF SpentInv
  <2>3. ASSUME NEW s \in 0 .. now'
        PROVE  /\ (Admitted(s, now))' \in Nat
               /\ Spent(algorithm', memory', now' + Ahead, now' - s, (Admitted(s, now))')
    <3>1. CASE s \in 0 .. now
      <4>1. (Admitted(s, now))' = Admitted(s, now)
        BY <2>1, <2>2 DEF Admitted
      <4>2. /\ Admitted(s, now) \in Nat /\ Past(algorithm, memory, now + Ahead)
            /\ Spent(algorithm, memory, now + Ahead, now - s, Admitted(s, now))
        BY <3>1 DEF SpentInv, AgreeInv
      <4>3. /\ now - s \in Nat /\ now' + Ahead = (now + Ahead) + 1
            /\ now' - s = (now - s) + 1
        BY <1>1, <2>1, <3>1
      <4> HIDE DEF Admitted
      <4> QED
        BY <1>1, <2>1, <4>1, <4>2, <4>3, SpentLater
    <3>2. CASE s = now + 1
      <4>1. (Admitted(s, now))' = 0
        BY <1>1, <2>1, <2>2, <3>2 DEF Admitted
      <4>2. now' + Ahead \in Int /\ now' - s = 0
        BY <1>1, <2>1, <3>2
      <4> QED
        BY <1>1, <2>1, <4>1, <4>2, Unspent
    <3> QED
      BY <1>1, <2>1, <3>1, <3>2
  <2>4. Aligned(algorithm', memory')
    BY <2>1 DEF SpentInv
  <2>5. \A t \in now' .. MaxTime : admitted'[t] = admitted'[now']
    BY <2>1, <2>2
  <2> QED
    BY <1>0, <2>3, <2>4, <2>5 DEF SpentInv
<1>5. CASE UNCHANGED vars
  BY <1>0, <1>5 DEF vars, SpentInv, Admitted
<1> QED
  BY <1>2, <1>3, <1>4, <1>5 DEF Next

LEMMA InitialSpent == Init => SpentInv
<1> SUFFICES ASSUME Init PROVE SpentInv
  OBVIOUS
<1>1. /\ algorithm \in AlgorithmName /\ now = 0 /\ 0 \in 0 .. MaxTime
      /\ memory = NewState(algorithm) /\ admitted = [t \in 0 .. MaxTime |-> 0]
  BY RateLimitAssumption DEF Init
<1>2. \A s \in 0 .. now : s = 0 /\ Admitted(s, now) = 0
  BY <1>1 DEF Admitted
<1>3. Ahead \in Nat
  BY InitRateType, AheadType
<1>4. Spent(algorithm, memory, now + Ahead, 0 - 0, 0)
  BY <1>1, <1>3, InitSpent
<1> QED
  BY <1>1, <1>2, <1>4, NewAligned DEF SpentInv

LEMMA SpentInvariant == Spec => [](SameClock => SpentInv)
<1>1. RateTypeOK /\ (SameClock => AgreeInv) /\ (SameClock => SpentInv) /\ [Next]_vars
          => (SameClock => SpentInv)'
  BY NextSpent, SkewStays
<1> QED
  BY <1>1, InitialSpent, RateTypeCorrect, AgreeInvariant, PTL DEF Spec

\* If the clocks do not agree, Redis' log still has every entry admitted since
\* a tick that lies back by less than Window less what a clock can be ahead:
\* the fastest clock has not dropped it, and the key has not expired, for an
\* expiry leaves nothing admitted within Window.
LogInv ==
    /\ ttl <= Window
    /\ \A t \in now .. MaxTime : admitted[t] = admitted[now]
    /\ \A s \in 0 .. now :
           /\ Admitted(s, now) \in Nat
           /\ now - s + MaxSkew < Window => Admitted(s, now) <= CostOf(Alive(redis, s - 1))
           /\ now - s < Window - ttl => Admitted(s, now) = 0

LogUsed == algorithm = "slidingWindowLog"

LEMMA InitLog == Init => (LogUsed => LogInv)
<1> SUFFICES ASSUME Init, LogUsed PROVE LogInv
  OBVIOUS
<1>1. /\ now = 0 /\ ttl = 0 /\ redis = << >>
      /\ MaxTime \in Nat /\ admitted = [t \in 0 .. MaxTime |-> 0]
  BY RateLimitAssumption DEF Init, LogUsed, NewState, NewSlidingWindowLog
<1>2. \A s \in 0 .. now : Admitted(s, now) = 0
  BY <1>1 DEF Admitted
<1>3. \A u \in Int : CostOf(Alive(redis, u)) = 0
  BY <1>1, AliveEmpty, CostOfEmpty
<1> QED
  BY <1>1, <1>2, <1>3, Parameters DEF LogInv

\* What a call leaves of the entries from tick s on, for a log that has them all
\* and a clock that is not too far ahead, is all of them and the call's own.
LEMMA LogKeeps ==
    ASSUME NEW w \in Seq(LogEntry), NEW u \in Int, NEW t \in Int, NEW c \in Nat \ {0},
           t - Window <= u, u < t
    PROVE  LET r == SlidingWindowLog(w, t, c)
           IN  /\ r.allowed => CostOf(Alive(r.state, u)) = CostOf(Alive(w, u)) + c
               /\ ~r.allowed => Alive(r.state, u) = Alive(w, u)
<1> DEFINE r == SlidingWindowLog(w, t, c)
           n == Alive(w, t - Window)
           e == <<t, c>>
<1>1. /\ r.allowed => r.state = Append(n, e)
      /\ ~r.allowed => r.state = n
  BY LogMeans DEF LogAt
<1>2. t - Window \in Int /\ e \in LogEntry /\ e[1] = t /\ e[2] = c
  BY Parameters DEF LogEntry
<1>3. n \in Seq(LogEntry) /\ Alive(w, u) \in Seq(LogEntry)
  BY <1>2, AliveCosts
<1>4. Alive(n, u) = Alive(w, u)
  BY <1>2, AliveTwice
<1> HIDE DEF r, n, e
<1>5. Alive(Append(n, e), u) = Append(Alive(w, u), e)
  BY <1>2, <1>3, <1>4, AliveAppend
<1>6. CostOf(Append(Alive(w, u), e)) = CostOf(Alive(w, u)) + c
  <2>1. e[2] \in Nat /\ LogEntry # {}
    BY <1>2
  <2> QED
    BY <1>2, <1>3, CostOfAppend DEF LogEntry
<1> QED
  BY <1>1, <1>4, <1>5, <1>6 DEF r

LEMMA LogCall ==
    ASSUME RateTypeOK, LogUsed, LogInv, NEW i \in Instances, NEW c \in Costs, Consume(i, c)
    PROVE  LogInv'
<1> DEFINE clock == now + skew[i]
           r == SlidingWindowLog(redis, clock, c)
<1>1. /\ now \in 0 .. MaxTime /\ MaxTime \in Nat /\ MaxSkew \in Nat
      /\ skew[i] \in 0 .. MaxSkew /\ clock \in Int /\ c \in Nat \ {0}
      /\ admitted \in [0 .. MaxTime -> Nat] /\ ttl \in Nat
  BY RateLimitAssumption DEF RateTypeOK
<1>2. redis \in Seq(LogEntry)
  BY DEF RateTypeOK, LogUsed, StateOf, LogState
<1>3. Apply(algorithm, redis, clock, c) = r /\ Lifetime(algorithm) = Window
  BY DEF LogUsed, Apply, Lifetime
<1>4. /\ now' = now /\ redis' = r.state
      /\ ttl' = IF r.allowed THEN Window ELSE ttl
      /\ admitted' = [t \in 0 .. MaxTime |->
                         IF r.allowed /\ t >= now THEN admitted[t] + c ELSE admitted[t]]
  BY <1>3, Consumed DEF Renews, LogUsed
<1>5. r.allowed \in BOOLEAN
  BY LogMeans
<1>6. ASSUME NEW s \in 0 .. now, now - s + MaxSkew < Window
      PROVE  /\ r.allowed => CostOf(Alive(r.state, s - 1)) = CostOf(Alive(redis, s - 1)) + c
             /\ ~r.allowed => Alive(r.state, s - 1) = Alive(redis, s - 1)
  <2>1. s - 1 \in Int /\ clock - Window <= s - 1 /\ s - 1 < clock
    BY <1>1, <1>6, Parameters
  <2> HIDE DEF clock
  <2> QED
    BY <1>1, <1>2, <2>1, LogKeeps
<1>7. ASSUME NEW s \in 0 .. now PROVE CostOf(Alive(redis, s - 1)) \in Nat
  <2>1. s - 1 \in Int
    BY <1>1
  <2> QED
    BY <1>2, <2>1, AliveCosts
<1> HIDE DEF clock, r
<1>8. ASSUME NEW s \in 0 .. now
      PROVE  (Admitted(s, now))' = IF r.allowed THEN Admitted(s, now) + c ELSE Admitted(s, now)
  <2>1. s = 0 \/ s - 1 \in 0 .. now - 1
    BY <1>1
  <2> QED
    BY <1>1, <1>4, <1>5, <2>1 DEF Admitted
<1>9. \A t \in now' .. MaxTime : admitted'[t] = admitted'[now']
  BY <1>1, <1>4 DEF LogInv
<1>10. ASSUME NEW s \in 0 .. now
       PROVE  /\ (Admitted(s, now))' \in Nat
              /\ now - s + MaxSkew < Window =>
                     (Admitted(s, now))' <= CostOf(Alive(r.state, s - 1))
              /\ now - s < Window - ttl' => (Admitted(s, now))' = 0
  <2> DEFINE x == Admitted(s, now)
             k == CostOf(Alive(redis, s - 1))
  <2>1. /\ x \in Nat
        /\ now - s + MaxSkew < Window => x <= k
        /\ now - s < Window - ttl => x = 0
    BY DEF LogInv
  <2>2. k \in Nat
    BY <1>7
  <2> HIDE DEF x, k
  <2>3. CASE r.allowed
    <3>1. (Admitted(s, now))' = x + c /\ ttl' = Window /\ ~(now - s < Window - Window)
      BY <1>1, <1>4, <1>8, <2>3, Parameters DEF x
    <3>2. now - s + MaxSkew < Window => CostOf(Alive(r.state, s - 1)) = k + c
      BY <1>6, <2>3 DEF k
    <3> QED
      BY <1>1, <2>1, <2>2, <3>1, <3>2
  <2>4. CASE ~r.allowed
    <3>1. (Admitted(s, now))' = x /\ ttl' = ttl
      BY <1>4, <1>8, <2>4 DEF x
    <3>2. now - s + MaxSkew < Window => CostOf(Alive(r.state, s - 1)) = k
      BY <1>6, <2>4 DEF k
    <3> QED
      BY <2>1, <3>1, <3>2
  <2> QED
    BY <1>5, <2>3, <2>4
<1>11. ttl' <= Window
  BY <1>4, Parameters DEF LogInv
<1> QED
  BY <1>4, <1>9, <1>10, <1>11 DEF LogInv

LEMMA LogTick == ASSUME RateTypeOK, LogUsed, LogInv, Tick PROVE LogInv'
<1>1. /\ now \in 0 .. MaxTime /\ MaxTime \in Nat /\ MaxSkew \in Nat
      /\ admitted \in [0 .. MaxTime -> Nat] /\ ttl \in Nat /\ redis \in Seq(LogEntry)
  BY RateLimitAssumption DEF RateTypeOK, LogUsed, StateOf, LogState
<1>2. /\ admitted' = admitted /\ now' = now + 1 /\ now < MaxTime
      /\ ttl' = AtLeast0(ttl - 1)
      /\ redis' = IF ttl = 1 THEN << >> ELSE redis
  BY DEF Tick, LogUsed, NewState, NewSlidingWindowLog
<1>3. ttl' \in Nat /\ ttl' <= Window /\ (ttl # 0 => ttl' = ttl - 1) /\ (ttl = 0 => ttl' = 0)
  BY <1>1, <1>2, Parameters DEF LogInv, AtLeast0
<1>4. admitted[now + 1] = admitted[now] /\ \A t \in now + 1 .. MaxTime : admitted[t] = admitted[now]
  BY <1>1, <1>2 DEF LogInv
<1>5. ASSUME NEW s \in 0 .. now'
      PROVE  /\ (Admitted(s, now))' \in Nat
             /\ now' - s + MaxSkew < Window =>
                    (Admitted(s, now))' <= CostOf(Alive(redis', s - 1))
             /\ now' - s < Window - ttl' => (Admitted(s, now))' = 0
  <2>1. CASE s \in 0 .. now
    <3> DEFINE x == Admitted(s, now)
    <3>1. (Admitted(s, now))' = x
      BY <1>2, <1>4 DEF Admitted
    <3>2. /\ x \in Nat
          /\ now - s + MaxSkew < Window => x <= CostOf(Alive(redis, s - 1))
          /\ now - s < Window - ttl => x = 0
      BY <2>1 DEF LogInv
    <3> HIDE DEF x
    <3>3. now' - s < Window - ttl' => x = 0
      BY <1>1, <1>2, <1>3, <2>1, <3>2, Parameters
    <3>4. CASE ttl = 1
      <4>1. now' - s + MaxSkew < Window => x = 0
        BY <1>1, <1>2, <1>3, <2>1, <3>3, <3>4, Parameters
      <4>2. CostOf(Alive(redis', s - 1)) = 0
        BY <1>2, <3>4, AliveEmpty, CostOfEmpty
      <4> QED
        BY <3>1, <3>2, <3>3, <4>1, <4>2
    <3>5. CASE ttl # 1
      <4>1. now' - s + MaxSkew < Window => now - s + MaxSkew < Window
        BY <1>1, <1>2, <2>1, Parameters
      <4> QED
        BY <1>2, <3>1, <3>2, <3>3, <3>5, <4>1
    <3> QED
      BY <3>4, <3>5
  <2>2. CASE s = now + 1
    <3>1. (Admitted(s, now))' = 0
      BY <1>1, <1>2, <1>4, <2>2 DEF Admitted
    <3>2. redis' \in Seq(LogEntry) /\ s - 1 \in Int
      BY <1>1, <1>2, <2>2
    <3>3. CostOf(Alive(redis', s - 1)) \in Nat
      BY <3>2, AliveCosts
    <3> QED
      BY <3>1, <3>3
  <2> QED
    BY <1>1, <1>2, <2>1, <2>2
<1>6. \A t \in now' .. MaxTime : admitted'[t] = admitted'[now']
  BY <1>2, <1>4
<1> QED
  BY <1>3, <1>5, <1>6 DEF LogInv

LEMMA NextLog == RateTypeOK /\ (LogUsed => LogInv) /\ [Next]_vars => (LogUsed => LogInv)'
<1>1. [Next]_vars => algorithm' = algorithm
  BY DEF Next, Consume, Reset, Tick, vars
<1> SUFFICES ASSUME RateTypeOK, LogUsed, LogInv, [Next]_vars PROVE LogInv'
  BY <1>1 DEF LogUsed
<1>2. CASE Reset
  <2>1. /\ now' = now /\ redis' = << >> /\ ttl' = 0
        /\ admitted' = [t \in 0 .. MaxTime |-> 0]
        /\ now \in 0 .. MaxTime /\ MaxTime \in Nat
    BY <1>2, RateLimitAssumption DEF Reset, LogUsed, NewState, NewSlidingWindowLog, RateTypeOK
  <2>2. \A s \in 0 .. now : (Admitted(s, now))' = 0
    BY <2>1 DEF Admitted
  <2>3. \A u : CostOf(Alive(redis', u)) = 0
    BY <2>1, AliveEmpty, CostOfEmpty
  <2> QED
    BY <2>1, <2>2, <2>3, Parameters DEF LogInv
<1>3. CASE UNCHANGED vars
  BY <1>3 DEF vars, LogInv, Admitted
<1> QED
  BY <1>2, <1>3, LogCall, LogTick DEF Next

LEMMA LogInvariant == Spec => [](LogUsed => LogInv)
BY InitLog, NextLog, RateTypeCorrect, PTL DEF Spec

LEMMA LogWithin ==
    ASSUME RateTypeOK, LogUsed, LogInv, NEW d \in 1 .. Window - MaxSkew, now + 1 >= d
    PROVE  Admitted(now + 1 - d, now) * Window <= Bound(d)
<1> DEFINE s == now + 1 - d
           x == Admitted(s, now)
<1>1. now \in Nat /\ MaxSkew \in Nat /\ redis \in Seq(LogEntry) /\ CostOf(redis) <= Limit
  BY RateLimitAssumption DEF RateTypeOK, LogUsed, StateOf, LogState
<1>2. s \in 0 .. now /\ s - 1 \in Int /\ now - s + MaxSkew < Window
  BY <1>1, Parameters
<1>3. x \in Nat /\ x <= CostOf(Alive(redis, s - 1))
  BY <1>2 DEF LogInv
<1>4. /\ CostOf(Alive(redis, s - 1)) \in Nat /\ CostOf(redis) \in Nat
      /\ CostOf(Alive(redis, s - 1)) <= CostOf(redis)
  BY <1>1, <1>2, AliveCosts
<1> HIDE DEF s, x
<1>5. x <= Limit
  BY <1>1, <1>3, <1>4, Parameters
<1>6. Bound(d) = Limit * Window
  BY DEF Bound, LogUsed
<1>7. x * Window <= Limit * Window
  BY <1>3, <1>5, Parameters, ProductsGrow
<1> QED
  BY <1>6, <1>7 DEF x, s

LEMMA SameClockWithin ==
    ASSUME RateTypeOK, AgreeInv, SpentInv, NEW d \in 1 .. Window, now + 1 >= d
    PROVE  Admitted(now + 1 - d, now) * Window <= Bound(d)
<1> DEFINE s == now + 1 - d
<1>1. /\ now \in Nat /\ now + Ahead \in Int /\ s \in 0 .. now
      /\ d - 1 \in Nat /\ d - 1 < Window /\ now - s = d - 1 /\ (d - 1) + 1 = d
  BY AheadType, RateLimitAssumption, Parameters DEF RateTypeOK
<1>2. /\ Admitted(s, now) \in Nat
      /\ Spent(algorithm, memory, now + Ahead, d - 1, Admitted(s, now))
      /\ Past(algorithm, memory, now + Ahead)
  BY <1>1 DEF SpentInv, AgreeInv
<1> HIDE DEF s
<1>3. Admitted(s, now) * Window <= Bound((d - 1) + 1)
  BY <1>1, <1>2, SpentWithin DEF RateTypeOK
<1> QED
  BY <1>1, <1>3 DEF s

\* No traffic gets more than its algorithm's bound out of the stores in any
\* stretch of up to Window ticks if the gateways' clocks agree, however far
\* ahead of Redis; and none gets more than the limit out of the log even if
\* they do not, in any stretch shorter by as much as a clock can be ahead.
THEOREM TrafficIsBounded == Spec => []WithinBound
<1>1. /\ RateTypeOK
      /\ SameClock => AgreeInv
      /\ SameClock => SpentInv
      /\ LogUsed => LogInv
      => WithinBound
  <2> SUFFICES ASSUME RateTypeOK, SameClock => AgreeInv, SameClock => SpentInv,
                      LogUsed => LogInv
               PROVE  WithinBound
    OBVIOUS
  <2>1. CASE SameClock
    <3>1. Window - 0 = Window
      BY Parameters
    <3> QED
      BY <2>1, <3>1, SameClockWithin DEF WithinBound
  <2>2. CASE ~SameClock
    <3>1. SameClock \/ algorithm = "slidingWindowLog" => LogUsed
      BY <2>2 DEF LogUsed
    <3> QED
      BY <2>2, <3>1, LogWithin DEF WithinBound
  <2> QED
    BY <2>1, <2>2
<1> QED
  BY <1>1, RateTypeCorrect, AgreeInvariant, SpentInvariant, LogInvariant, PTL

-----------------------------------------------------------------------------
(* The rate limiter: the two buckets *)

\* The level that a bucket of tokens leaves.
Mirror(s) == [level |-> Capacity * Window - s.tokens, last |-> s.last]

\* The leaky bucket of leakyBucket.ts is the token bucket of tokenBucket.ts
\* counted from the other end: the two give every call the same answer.
THEOREM BucketsAlike ==
    ASSUME NEW s \in TokenBucketState, NEW t \in Int, NEW c \in Nat
    PROVE  LET r == TokenBucket(s, t, c)
               m == LeakyBucket(Mirror(s), t, c)
           IN  /\ m.allowed = r.allowed
               /\ m.retryAfter = r.retryAfter
               /\ m.state = Mirror(r.state)
<1> DEFINE f == Capacity * Window
           k == c * Window
           d == AtLeast0(t - s.last) * Limit
           n == TokensAt(s, t)
           l == LevelAt(Mirror(s), t)
           r == TokenBucket(s, t, c)
           m == LeakyBucket(Mirror(s), t, c)
<1>1. s.tokens \in 0 .. f /\ s.last \in Int /\ f \in Nat /\ k \in Nat
  BY Parameters DEF TokenBucketState, Parts
<1>2. d \in Nat
  <2>1. AtLeast0(t - s.last) \in Nat
    BY <1>1 DEF AtLeast0
  <2> QED
    BY <2>1, Parameters
<1>3. n = AtMost(f, s.tokens + d) /\ l = AtLeast0((f - s.tokens) - d)
  BY DEF TokensAt, LevelAt, Mirror
<1>4. /\ r.allowed \in BOOLEAN
      /\ r.allowed <=> n >= k
      /\ r.allowed => r.state = [tokens |-> n - k, last |-> t] /\ r.retryAfter = 0
      /\ ~r.allowed => /\ r.state = [tokens |-> n, last |-> t]
                       /\ r.retryAfter = CeilDiv(k - n, Limit)
  BY TokenBucketMeans
<1>5. /\ m.allowed \in BOOLEAN
      /\ m.allowed <=> l + k <= f
      /\ m.allowed => m.state = [level |-> l + k, last |-> t] /\ m.retryAfter = 0
      /\ ~m.allowed => /\ m.state = [level |-> l, last |-> t]
                       /\ m.retryAfter = CeilDiv(l + k - f, Limit)
  BY LeakyBucketMeans
<1> HIDE DEF f, k, d, n, l, r, m
<1>6. n \in Nat /\ l = f - n
  BY <1>1, <1>2, <1>3 DEF AtMost, AtLeast0
<1>7. m.allowed = r.allowed
  <2>1. n >= k <=> l + k <= f
    BY <1>1, <1>6
  <2> QED
    BY <1>4, <1>5, <2>1
<1>8. CASE r.allowed
  <2>1. f - (n - k) = l + k
    BY <1>1, <1>6
  <2>2. m.state = [level |-> l + k, last |-> t]
    BY <1>5, <1>7, <1>8
  <2>3. r.state.tokens = n - k /\ r.state.last = t
    BY <1>4, <1>8
  <2>4. m.state = Mirror(r.state)
    BY <2>1, <2>2, <2>3 DEF Mirror, f
  <2> QED
    BY <1>4, <1>5, <1>7, <1>8, <2>4 DEF r, m
<1>9. CASE ~r.allowed
  <2>1. l + k - f = k - n
    BY <1>1, <1>6
  <2>2. m.state = [level |-> l, last |-> t]
    BY <1>5, <1>7, <1>9
  <2>3. r.state.tokens = n /\ r.state.last = t
    BY <1>4, <1>9
  <2>4. m.state = Mirror(r.state)
    BY <1>6, <2>2, <2>3 DEF Mirror, f
  <2> QED
    BY <1>4, <1>5, <1>7, <1>9, <2>1, <2>4 DEF r, m
<1> QED
  BY <1>8, <1>9

=============================================================================
