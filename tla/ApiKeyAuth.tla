----------------------------- MODULE ApiKeyAuth -----------------------------
(***************************************************************************)
(* gateway/src/auth/index.ts: verification of one API key, with Postgres   *)
(* as the authority and a Redis entry in front of it, against the admin    *)
(* API and the passing of time that make the key inactive.                 *)
(*                                                                         *)
(* Each await of lookupApiKey is a point where the other requests, the     *)
(* admin API and the clock run.                                            *)
(***************************************************************************)
EXTENDS Integers

CONSTANTS
    Requests,     \* requests that may be authenticating at once
    CacheTTL,     \* API_KEY_CACHE_TTL_SEC, in ticks
    MaxDelay,     \* bound: ticks between a DB answer and its Redis SET
    MaxTouches,   \* bound: last_used_at updates outstanding at once
    RedisFails,   \* Redis commands may be refused
    DbFails       \* Postgres queries may fail

ASSUME AuthAssumption ==
    /\ CacheTTL \in Nat \ {0}
    /\ MaxDelay \in Nat
    /\ MaxTouches \in Nat \ {0}
    /\ RedisFails \in BOOLEAN
    /\ DbFails \in BOOLEAN

VARIABLES
    key,       \* the key's row and its tenant's status
    cache,     \* the Redis entry auth:apikey:<hash>
    lookup,    \* progress of each request
    revoker,   \* DELETE /admin/keys/:keyId: idle, or between UPDATE and DEL
    answers,   \* the status codes DELETE has answered with
    touches,   \* last_used_at updates nobody waits for
    running    \* the process is alive

vars == <<key, cache, lookup, revoker, answers, touches, running>>

KeyRow == [revoked : BOOLEAN, expired : BOOLEAN, suspended : BOOLEAN]

\* The WHERE clause of findActiveApiKeyWithPlan.
ActiveRow(k) == ~k.revoked /\ ~k.expired /\ ~k.suspended
Active == ActiveRow(key)

Entry == [verdict : {"none", "valid", "invalid"}, ttl : 0 .. CacheTTL]
NoEntry == [verdict |-> "none", ttl |-> 0]

\* getting: GET sent.  querying: SELECT sent.  storing: the row is known to
\* be active or not (found), SET sent.  age: ticks since the SELECT answered.
Lookup ==
    [phase : {"idle", "getting", "querying", "storing"},
     found : BOOLEAN, age : 0 .. MaxDelay,
     result : {"none", "accepted", "rejected", "error"}]

Fresh(phase) == [phase |-> phase, found |-> FALSE, age |-> 0, result |-> "none"]
Result(res) == [phase |-> "idle", found |-> FALSE, age |-> 0, result |-> res]
Verdict(ok) == IF ok THEN "accepted" ELSE "rejected"

Init ==
    /\ key = [revoked |-> FALSE, expired |-> FALSE, suspended |-> FALSE]
    /\ cache = NoEntry
    /\ lookup = [r \in Requests |-> Fresh("idle")]
    /\ revoker = "idle"
    /\ answers = {}
    /\ touches = 0
    /\ running = TRUE

-----------------------------------------------------------------------------
(* lookupApiKey *)

Set(r, entry) == lookup' = [lookup EXCEPT ![r] = entry]

Begin(r) ==
    /\ running /\ lookup[r].phase = "idle"
    /\ Set(r, Fresh("getting"))
    /\ UNCHANGED <<key, cache, revoker, answers, touches, running>>

CacheHitRenews(r) ==            \* faulty: a hit renews the TTL
    /\ lookup[r].phase = "getting" /\ cache.verdict # "none"
    /\ Set(r, Result(Verdict(cache.verdict = "valid")))
    /\ cache' = [cache EXCEPT !.ttl = CacheTTL]
    /\ UNCHANGED <<key, revoker, answers, touches, running>>

\* A record or the negative marker: the database is not asked.
CacheHit(r) ==
    /\ lookup[r].phase = "getting" /\ cache.verdict # "none"
    /\ Set(r, Result(Verdict(cache.verdict = "valid")))
    /\ UNCHANGED <<key, cache, revoker, answers, touches, running>>

\* No entry, or Redis cannot be reached: fall back to the database.
CacheMiss(r) ==
    /\ lookup[r].phase = "getting" /\ (cache.verdict = "none" \/ RedisFails)
    /\ Set(r, Fresh("querying"))
    /\ UNCHANGED <<key, cache, revoker, answers, touches, running>>

IgnoresRevoked(k) == ~k.expired /\ ~k.suspended     \* faulty WHERE clause

DbReadUnfiltered(r) ==          \* faulty: revoked_at IS NULL forgotten
    /\ lookup[r].phase = "querying"
    /\ Set(r, [Fresh("storing") EXCEPT !.found = IgnoresRevoked(key)])
    /\ UNCHANGED <<key, cache, revoker, answers, touches, running>>

DbRead(r) ==
    /\ lookup[r].phase = "querying"
    /\ Set(r, [Fresh("storing") EXCEPT !.found = Active])
    /\ UNCHANGED <<key, cache, revoker, answers, touches, running>>

\* The query rejects; nothing catches it before Fastify answers 500.
DbError(r) ==
    /\ DbFails /\ lookup[r].phase = "querying"
    /\ Set(r, Result("error"))
    /\ UNCHANGED <<key, cache, revoker, answers, touches, running>>

StoreWithoutTTL(r) ==           \* faulty: SET without EX
    /\ lookup[r].phase = "storing" /\ touches < MaxTouches
    /\ cache' = [verdict |-> IF lookup[r].found THEN "valid" ELSE "invalid", ttl |-> 0]
    /\ touches' = IF lookup[r].found THEN touches + 1 ELSE touches
    /\ Set(r, Result(Verdict(lookup[r].found)))
    /\ UNCHANGED <<key, revoker, answers, running>>

\* SET with EX (or its failure, which is only logged), the update of
\* last_used_at that nobody awaits, and the verdict.
Store(r) ==
    /\ lookup[r].phase = "storing" /\ touches < MaxTouches
    /\ \/ cache' = [verdict |-> IF lookup[r].found THEN "valid" ELSE "invalid",
                    ttl |-> CacheTTL]
       \/ RedisFails /\ UNCHANGED cache
    /\ touches' = IF lookup[r].found THEN touches + 1 ELSE touches
    /\ Set(r, Result(Verdict(lookup[r].found)))
    /\ UNCHANGED <<key, revoker, answers, running>>

Touched ==
    /\ touches > 0
    /\ touches' = touches - 1
    /\ UNCHANGED <<key, cache, lookup, revoker, answers, running>>

\* The process dies: whatever it was doing is gone, Redis and Postgres stay.
Crash ==
    /\ running' = FALSE
    /\ lookup' = [r \in Requests |-> Fresh("idle")]
    /\ revoker' = "idle"
    /\ touches' = 0
    /\ UNCHANGED <<key, cache, answers>>

\* `void touchApiKeyLastUsed(...)` rejects: an unhandled rejection, which ends
\* a Node process.
TouchFails == DbFails /\ touches > 0 /\ Crash

Restart ==
    /\ ~running
    /\ running' = TRUE
    /\ UNCHANGED <<key, cache, lookup, revoker, answers, touches>>

-----------------------------------------------------------------------------
(* What makes the key inactive (admin/routes.ts), and active again *)

\* UPDATE ... WHERE revoked_at IS NULL RETURNING key_hash
Revoke ==
    /\ running /\ ~key.revoked
    /\ key' = [key EXCEPT !.revoked = TRUE]
    /\ revoker' = "deleting"
    /\ UNCHANGED <<cache, lookup, answers, touches, running>>

\* The row is already revoked: 404, and the cache is left alone.
RevokeAgain ==
    /\ running /\ key.revoked
    /\ answers' = answers \cup {404}
    /\ UNCHANGED <<key, cache, lookup, revoker, touches, running>>

SkipDelete ==                   \* faulty: the cached verdict stays
    /\ revoker = "deleting"
    /\ revoker' = "idle"
    /\ answers' = answers \cup {204}
    /\ UNCHANGED <<key, cache, lookup, touches, running>>

DeleteEntry ==
    /\ revoker = "deleting"
    /\ cache' = NoEntry
    /\ revoker' = "idle"
    /\ answers' = answers \cup {204}
    /\ UNCHANGED <<key, lookup, touches, running>>

\* redis.del rejects: 500, the row stays revoked and the entry cached.
DeleteFails ==
    /\ RedisFails /\ revoker = "deleting"
    /\ revoker' = "idle"
    /\ answers' = answers \cup {500}
    /\ UNCHANGED <<key, cache, lookup, touches, running>>

\* POST /admin/tenants/:id/suspend and /activate: only the row, no cache.
SetTenantStatus(suspended) ==
    /\ running
    /\ key' = [key EXCEPT !.suspended = suspended]
    /\ UNCHANGED <<cache, lookup, revoker, answers, touches, running>>

\* expires_at > now() stops being true.
Expire ==
    /\ key' = [key EXCEPT !.expired = TRUE]
    /\ UNCHANGED <<cache, lookup, revoker, answers, touches, running>>

\* One tick; Redis drops the entry when its TTL is over.
Tick ==
    /\ \A r \in Requests : lookup[r].phase = "storing" => lookup[r].age < MaxDelay
    /\ cache' = IF cache.ttl > 1 THEN [cache EXCEPT !.ttl = @ - 1] ELSE NoEntry
    /\ lookup' = [r \in Requests |->
                    IF lookup[r].phase = "storing"
                    THEN [lookup[r] EXCEPT !.age = @ + 1] ELSE lookup[r]]
    /\ UNCHANGED <<key, revoker, answers, touches, running>>

-----------------------------------------------------------------------------

Next ==
    \/ \E r \in Requests :
          \/ Begin(r) \/ CacheHit(r) \/ CacheMiss(r)
          \/ DbRead(r) \/ DbError(r) \/ Store(r)
    \/ Touched \/ TouchFails \/ Restart
    \/ Revoke \/ RevokeAgain \/ DeleteEntry \/ DeleteFails
    \/ \E s \in BOOLEAN : SetTenantStatus(s)
    \/ Expire
    \/ Tick

Spec == Init /\ [][Next]_vars

=============================================================================
