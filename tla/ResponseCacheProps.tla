------------------------- MODULE ResponseCacheProps -------------------------
(***************************************************************************)
(* ResponseCache with the history its properties need, and the properties. *)
(***************************************************************************)
EXTENDS ResponseCache

VARIABLES
    outdated,    \* ticks since each version was replaced by the next
    purges,      \* 1 once a purge has begun, 2 once it is complete
    askedBefore, \* requests whose upstream answer is older than the purge
    oldAnswers,  \* keys whose entry comes from such an answer
    oldEntries   \* keys whose entry was written before the purge

hvars == <<cacheVars, outdated, purges, askedBefore, oldAnswers, oldEntries>>

Horizon == TTL + MaxDelay + 1

HInit ==
    /\ CacheInit
    /\ outdated = [v \in 0 .. MaxVersion |-> 0]
    /\ purges = 0
    /\ askedBefore = {} /\ oldAnswers = {} /\ oldEntries = {}

Holds(e) == {k \in Keys : e[k].live}
Storing(q) == {r \in Requests : q[r].phase = "storing"}

\* The first purge is followed.
HNext ==
    /\ CacheNext
    /\ StartPurge => purges = 0
    /\ outdated' = [v \in 0 .. MaxVersion |->
          IF CacheTick /\ v < version /\ outdated[v] < Horizon THEN outdated[v] + 1
          ELSE outdated[v]]
    /\ purges' = IF StartPurge THEN 1
                 ELSE IF PurgePage /\ purge' = {} THEN 2 ELSE purges
    /\ askedBefore' = IF StartPurge THEN Storing(request)
                      ELSE askedBefore \cap Storing(request')
    /\ oldAnswers' = IF StartPurge THEN Holds(entry)
                     ELSE {k \in Holds(entry') : \/ k \in oldAnswers /\ entry'[k] = entry[k]
                                                 \/ k \in oldAnswers /\ CacheTick
                                                 \/ \E r \in askedBefore :
                                                       request[r].key = k /\ Store(r)}
    /\ oldEntries' = IF StartPurge THEN Holds(entry)
                     ELSE {k \in oldEntries \cap Holds(entry') :
                              ~\E r \in Requests : request[r].key = k /\ Store(r)
                                                   /\ entry'[k] # entry[k]}

HSpec == HInit /\ [][HNext]_hvars

-----------------------------------------------------------------------------
(* Properties *)

\* README.md:352-354 (`ttlSec` is a ceiling): whatever writes, purges and
\* failures interleave, a HIT serves nothing that the upstream had replaced
\* for ttlSec and the delay of one write.
HitsAreFresh ==
    [][\A r \in Requests : Hit(r) =>
          outdated[entry[request[r].key].version] < TTL + MaxDelay]_hvars

\* A purge, page by page, misses no entry that was there when it began, unless
\* the entry has been written anew meanwhile.
PurgeIsComplete == purges = 2 => oldEntries = {}

\* README.md:577 ("it empties that route's cache"), test/adminApi.test.ts:319
\* ("its entries miss again"): after a purge nothing that the upstream had
\* answered before the purge is in the cache.
\* (The code does not keep this: see README.md.)
PurgeEmpties == purges = 2 => oldAnswers = {}

\* README.md:290 (failOpen: "if Redis errors: true = let requests through"):
\* no request fails for Redis.
\* (The code does not keep this: see README.md.)
RedisErrorsLetThrough == \A r \in Requests : request[r].outcome # "error"

=============================================================================
