--------------------------- MODULE ResponseCache ---------------------------
(***************************************************************************)
(* The response cache of one route: the cached path of the request handler *)
(* (gateway/src/server.ts), the stores (core/src/cache), and the purge of  *)
(* the admin API.  Keys are the variants of one route (path, query, tenant,*)
(* varyBy), all under the prefix a purge removes.                          *)
(***************************************************************************)
EXTENDS Integers, FiniteSets

CONSTANTS
    Keys,        \* cache keys of the route
    Requests,    \* GET requests in progress at once
    TTL,         \* route.cache.ttlSec, in ticks
    Shared,      \* TRUE: Redis; FALSE: the in-process store
    RedisFails,  \* Redis commands may be refused
    MaxVersion,  \* bound: the upstream changes its content this often
    MaxDelay     \* bound: ticks between the upstream's answer and the store

ASSUME CacheAssumption ==
    /\ IsFiniteSet(Keys) /\ Keys # {}
    /\ TTL \in Nat \ {0}
    /\ Shared \in BOOLEAN /\ RedisFails \in BOOLEAN
    /\ MaxVersion \in Nat /\ MaxDelay \in Nat

VARIABLES
    version,     \* what the upstream answers now
    entry,       \* the entry of each key
    request,     \* progress of each request
    purge        \* keys a purge has still to visit; {} when none is in progress

cacheVars == <<version, entry, request, purge>>

NoEntry == [live |-> FALSE, version |-> 0, ttl |-> 0]

\* storing: the answer has been read, its cacheability is being decided or its
\* write is under way.  age: ticks since the upstream answered.
NoRequest(outcome) ==
    [phase |-> "idle", key |-> CHOOSE k \in Keys : TRUE, version |-> 0, ttl |-> 0,
     age |-> 0, outcome |-> outcome]

CacheInit ==
    /\ version = 0
    /\ entry = [k \in Keys |-> NoEntry]
    /\ request = [r \in Requests |-> NoRequest("none")]
    /\ purge = {}

Update(r, q) == request' = [request EXCEPT ![r] = q]

-----------------------------------------------------------------------------
(* decideCacheability (core/src/cache/policy.ts) *)

\* An upstream answer as far as caching is concerned; maxAge = -1: no max-age.
Answer == [ok : BOOLEAN, forbidden : BOOLEAN, maxAge : -1 .. TTL + 1]

CacheLifetimeUncapped(a) ==     \* faulty: max-age replaces the route's ceiling
    IF ~a.ok \/ a.forbidden THEN 0 ELSE IF a.maxAge = -1 THEN TTL ELSE a.maxAge

\* The lifetime the cache gives to an answer, 0 when it must not be stored:
\* not a 200, or no-store/no-cache/private, or max-age=0.
CacheLifetime(a) ==
    IF ~a.ok \/ a.forbidden THEN 0
    ELSE IF a.maxAge = -1 \/ a.maxAge > TTL THEN TTL ELSE a.maxAge

-----------------------------------------------------------------------------
(* The cached path of the handler *)

Begin(r, k) ==
    /\ request[r].phase = "idle"
    /\ Update(r, [NoRequest("none") EXCEPT !.phase = "getting", !.key = k])
    /\ UNCHANGED <<version, entry, purge>>

\* X-Cache: HIT; the upstream is not asked.
Hit(r) ==
    LET e == entry[request[r].key] IN
    /\ request[r].phase = "getting" /\ e.live
    /\ Update(r, [NoRequest("hit") EXCEPT !.key = request[r].key, !.version = e.version])
    /\ UNCHANGED <<version, entry, purge>>

Miss(r) ==
    /\ request[r].phase = "getting" /\ ~entry[request[r].key].live
    /\ Update(r, [request[r] EXCEPT !.phase = "fetching"])
    /\ UNCHANGED <<version, entry, purge>>

\* cacheStore.get rejects, outside of the handler's try: Fastify answers 500.
GetFails(r) ==
    /\ Shared /\ RedisFails /\ request[r].phase = "getting"
    /\ Update(r, NoRequest("error"))
    /\ UNCHANGED <<version, entry, purge>>

\* forwardWithRetry and bufferStream: an answer to be stored for a while, or
\* one that is only passed on (not cacheable, too large, or a proxy error).
Answered(r, a) ==
    /\ request[r].phase = "fetching"
    /\ \/ /\ CacheLifetime(a) > 0
          /\ Update(r, [request[r] EXCEPT !.phase = "storing", !.version = version,
                                          !.ttl = CacheLifetime(a)])
       \/ Update(r, NoRequest("miss"))
    /\ UNCHANGED <<version, entry, purge>>

\* The write nobody waits for; its failure is only logged.
Store(r) ==
    LET q == request[r] IN
    /\ q.phase = "storing"
    /\ \/ entry' = [entry EXCEPT ![q.key] =
                        [live |-> TRUE, version |-> q.version, ttl |-> q.ttl]]
       \/ Shared /\ RedisFails /\ UNCHANGED entry
    /\ Update(r, NoRequest("miss"))
    /\ UNCHANGED <<version, purge>>

-----------------------------------------------------------------------------
(* DELETE /admin/cache: deleteByPrefix *)

StartPurge ==
    /\ purge = {}
    /\ purge' = Keys
    /\ UNCHANGED <<version, entry, request>>

PurgeOnePage ==                 \* faulty: only the first page of SCAN
    /\ purge # {}
    /\ \E page \in (SUBSET purge) \ {{}} :
          entry' = [k \in Keys |-> IF k \in page THEN NoEntry ELSE entry[k]]
    /\ purge' = {}
    /\ UNCHANGED <<version, request>>

\* One page of SCAN and its DEL (each key that stays in the store is returned
\* by some page); the in-process store walks its Map in one go.
PurgePage ==
    /\ purge # {}
    /\ \E page \in (SUBSET purge) \ {{}} :
          /\ ~Shared => page = purge
          /\ entry' = [k \in Keys |-> IF k \in page THEN NoEntry ELSE entry[k]]
          /\ purge' = purge \ page
    /\ UNCHANGED <<version, request>>

\* SCAN or DEL rejects: the administrator is answered 500, the rest stays.
PurgeFails ==
    /\ Shared /\ RedisFails /\ purge # {}
    /\ purge' = {}
    /\ UNCHANGED <<version, entry, request>>

-----------------------------------------------------------------------------

\* The upstream's content changes.
Publish ==
    /\ version < MaxVersion
    /\ version' = version + 1
    /\ UNCHANGED <<entry, request, purge>>

\* A tick; an entry whose time is over is not served any more.
CacheTick ==
    /\ \A r \in Requests : request[r].phase = "storing" => request[r].age < MaxDelay
    /\ entry' = [k \in Keys |-> IF entry[k].ttl > 1 THEN [entry[k] EXCEPT !.ttl = @ - 1]
                                                    ELSE NoEntry]
    /\ request' = [r \in Requests |-> IF request[r].phase = "storing"
                                      THEN [request[r] EXCEPT !.age = @ + 1] ELSE request[r]]
    /\ UNCHANGED <<version, purge>>

CacheNext ==
    \/ \E r \in Requests :
          \/ \E k \in Keys : Begin(r, k)
          \/ Hit(r) \/ Miss(r) \/ GetFails(r) \/ Store(r)
          \/ \E a \in Answer : Answered(r, a)
    \/ StartPurge \/ PurgePage \/ PurgeFails \/ Publish \/ CacheTick

CacheSpec == CacheInit /\ [][CacheNext]_cacheVars

=============================================================================
