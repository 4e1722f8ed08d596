--------------------------- MODULE ApiKeyAuthProps ---------------------------
(***************************************************************************)
(* ApiKeyAuth with the history its properties need, and the properties.    *)
(***************************************************************************)
EXTENDS ApiKeyAuth

VARIABLES
    inactiveFor,  \* ticks since the key was last active
    activeFor,    \* ticks since the key was last inactive
    informed,     \* answers DELETE had given when each request began
    racing        \* a lookup stood between SELECT and SET at the revocation

hvars == <<vars, inactiveFor, activeFor, informed, racing>>

\* Both clocks saturate just beyond the bound they are compared with.
Horizon == CacheTTL + MaxDelay + 1
Later(n) == IF n < Horizon THEN n + 1 ELSE n

TypeOK ==
    /\ key \in KeyRow
    /\ cache \in Entry
    /\ cache.verdict # "none" => cache.ttl > 0
    /\ lookup \in [Requests -> Lookup]
    /\ revoker \in {"idle", "deleting"}
    /\ answers \subseteq {204, 404, 500}
    /\ touches \in 0 .. MaxTouches
    /\ running \in BOOLEAN

HInit ==
    /\ Init
    /\ inactiveFor = 0
    /\ activeFor = Horizon
    /\ informed = [r \in Requests |-> {}]
    /\ racing = FALSE

HNext ==
    /\ Next
    /\ inactiveFor' = IF ActiveRow(key') THEN 0
                      ELSE IF Tick THEN Later(inactiveFor) ELSE inactiveFor
    /\ activeFor' = IF ~ActiveRow(key') THEN 0
                    ELSE IF Tick THEN Later(activeFor) ELSE activeFor
    /\ informed' = [r \in Requests |->
                      IF Begin(r) THEN answers ELSE informed[r]]
    /\ racing' = (racing \/ (Revoke /\ \E r \in Requests :
                                lookup[r].phase = "storing" /\ lookup[r].found))

HSpec == HInit /\ [][HNext]_hvars

Ends(r, result) ==
    lookup[r].phase # "idle" /\ lookup'[r].phase = "idle" /\ lookup'[r].result = result

-----------------------------------------------------------------------------
(* Properties *)

\* An accepted key was active at most CacheTTL + MaxDelay ticks ago: revoked,
\* expired and suspended keys alike, however lookups, cache writes, failures
\* and crashes interleave.  No chain of lookups can keep a dead key alive.
AcceptanceBounded ==
    [][\A r \in Requests :
          Ends(r, "accepted") => inactiveFor <= CacheTTL + MaxDelay]_hvars

\* A rejected key was inactive at most CacheTTL + MaxDelay ticks ago: a tenant
\* that is activated again is not locked out for longer by the negative marker.
RejectionBounded ==
    [][\A r \in Requests :
          Ends(r, "rejected") => activeFor <= CacheTTL + MaxDelay]_hvars

\* What does hold of an acknowledged revocation: a request that begins after
\* the 204 is accepted only if some lookup had read the key as active and not
\* yet written its verdict when the revocation was committed.
RevokedUnlessRacing ==
    [][\A r \in Requests :
          Ends(r, "accepted") /\ 204 \in informed[r] => racing]_hvars

\* README.md:304-305 ("invalidated immediately on revoke") and the test at
\* test/adminApi.test.ts:419 ("takes effect INSTANTLY, even though the key is
\* cached"): a request that begins after the 204 is never accepted.
\* (The code does not keep this: see README.md.)
RevokeIsInstant ==
    [][\A r \in Requests : Ends(r, "accepted") => 204 \notin informed[r]]_hvars

\* admin/routes.ts:150-151: revoking in the database alone is not enough, the
\* cache must be cleared too: once DELETE has answered and no lookup was
\* racing, no positive entry is left.
\* (The code does not keep this: see README.md.)
RevokeClearsCache ==
    answers # {} /\ revoker = "idle" /\ ~racing => cache.verdict # "valid"

\* db/client.ts:11-14: when Postgres drops connections "the only thing to do
\* here is not to crash" (and test/apiKeyAuth.test.ts:180, "no crash").
\* (The code does not keep this: see README.md.)
NeverCrashes == running

=============================================================================
