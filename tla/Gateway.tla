------------------------------- MODULE Gateway -------------------------------
(***************************************************************************)
(* The handler of server.ts with its hooks and ratelimit/index.ts: many    *)
(* requests at once, from the limits on entry over preflight, matching,    *)
(* authentication and the rate-limit gate to the answer and what is        *)
(* recorded of it, while reloads replace the routes between their awaits   *)
(* and clients give up.                                                    *)
(*                                                                         *)
(* The gate consumes all keys of a request at once.  In memory that is one *)
(* turn, and a reload starts the counters again; in Redis each key is a    *)
(* command of its own, which a lost connection may leave executed or not,  *)
(* and which is sent again after a reconnect.  Keys count up to a limit    *)
(* within one window: RateLimit has the algorithms and the time.  What     *)
(* happens past the gate is Upstream's, ResponseCache's and WebSocket's.   *)
(***************************************************************************)
EXTENDS Routing, FiniteSets

CONSTANTS
    Requests,
    Inputs,      \* what a client can send
    Configs,     \* the sequences of routes that can be loaded
    PlanLimit,   \* the limit in the plan of each tenant
    Outcomes,    \* the statuses past the gate
    MaxReloads,  \* bound: reloads of a run
    MaxLosses    \* bound: connections to Redis lost in a run

(* An input has method, path, host, origin, asks (the method a preflight   *)
(* announces, or "none"), ip, tenant (whose token it carries, or "none"),  *)
(* upgrade ("no", "other", "bad", "good") and big (over a server limit).   *)
(* A route has id, path, wild, host, sub, methods, strip, cors, ws         *)
(* ([enabled, origins]), auth, keyBy ({} without a rateLimit block), limit *)
(* and global (the limit for the key of that name).                        *)

VARIABLES
    log,         \* the configs it has run with, the current one last
    redis,       \* "none" without a Redis client, else what failOpen says
    used,        \* how much each key has consumed in the current stores
    losses,
    req,         \* each request, from one await to the next
    handled,     \* apigate_requests_total by route
    usage        \* the usage records pushed, by tenant and route

vars == <<log, redis, used, losses, req, handled, usage>>

Config == log[Len(log)]

Routes == UNION {{c[i] : i \in DOMAIN c} : c \in Configs}
RouteId == {route.id : route \in Routes}
Tenant == DOMAIN PlanLimit

ASSUME GatewayAssumption ==
    /\ IsFiniteSet(Requests)
    /\ MaxReloads \in Nat /\ MaxLosses \in Nat /\ Outcomes \subseteq Nat
    /\ \A t \in Tenant : PlanLimit[t] \in Nat
    /\ "none" \notin Tenant
    /\ \A c \in Configs : c \in Seq(Routes)
    /\ \A route \in Routes :
          route.limit \in Nat /\ route.global \in Nat /\ route.strip \in Seq(STRING)
    /\ \A in \in Inputs :
          /\ in.path \in Seq(STRING) \ {<<>>} /\ Head(in.path) = "/"
          /\ in.tenant \in Tenant \cup {"none"} /\ in.origin # "none"

KeysOf(route, in) ==
    {<<"ip", in.ip, route.id>> : s \in route.keyBy \cap {"ip"}}
        \cup {<<"global", "all", route.id>> : s \in route.keyBy \cap {"global"}}
        \cup {<<"tenant", t, route.id>> : t \in {in.tenant} \cap Tenant, s \in route.keyBy \cap {"tenant"}}

Key == UNION {KeysOf(route, in) : route \in Routes, in \in Inputs}

\* An anonymous request has no key by tenant.
Checks(q) == {k \in KeysOf(q.route, q.in) : k[1] = "tenant" => q.tenant # "none"}

\* The policy of a key: its own for global; the plan of the tenant, which only
\* an API key brings, before the route's.
Limit(route, k) ==
    CASE k[1] = "global" -> route.global
      [] k[1] = "tenant" /\ route.auth = "apiKey" -> PlanLimit[k[2]]
      [] OTHER -> route.limit

Holding(k) == {route \in Routes : route.id = k[3] /\ k[1] \in route.keyBy}

Limited(routes, id) == \E i \in DOMAIN routes : routes[i].id = id /\ routes[i].keyBy # {}
Has(routes, id) == \E i \in DOMAIN routes : routes[i].id = id

NoRoute == [id |-> "unmatched"]

Idle == [at |-> "idle", in |-> NoRoute, route |-> NoRoute, era |-> 1, tenant |-> "none",
         store |-> 0, waiting |-> {}, granted |-> {}, refused |-> {}, failed |-> FALSE,
         passed |-> FALSE, path |-> <<>>, status |-> 0, cors |-> "none"]

Init ==
    /\ log \in {<<c>> : c \in Configs}
    /\ redis \in {"none", "open", "closed"}
    /\ used = [k \in Key |-> 0]
    /\ losses = 0
    /\ req = [r \in Requests |-> Idle]
    /\ handled = [label \in RouteId \cup {NoRoute.id} |-> 0]
    /\ usage = [t \in Tenant |-> [id \in RouteId |-> 0]]

-----------------------------------------------------------------------------
(* Where a request goes next *)

\* onSend: the CORS header, by the first route of that id in the current config,
\* which need not be the one that was matched.
Header(q) ==
    LET named == {i \in DOMAIN Config : Config[i].id = q.route.id}
        by == {i \in named : i = First(named) /\ IsOriginAllowed(Config[i].cors, q.in.origin)} IN
    IF q.in.origin = NoOrigin \/ by = {} THEN "none"
    ELSE AllowOrigin(Config[First(named)].cors, q.in.origin)

\* A plausible bug, which a comment there warns of: only what succeeds has it.
SendBare(q, status) ==
    [q EXCEPT !.at = "sent", !.status = status, !.waiting = {},
              !.cors = IF status < 400 THEN Header(q) ELSE "none"]

\* Every answer of the server, whoever gives it.
Send(q, status) ==
    [q EXCEPT !.at = "sent", !.status = status, !.waiting = {}, !.cors = Header(q)]

\* Past the gate: the balancer of the route, and the TypeError if a reload has
\* removed it, which sendProxyError answers with 502.
Forward(q) ==
    LET p == [q EXCEPT !.passed = TRUE] IN
    IF Has(Config, q.route.id)
    THEN [p EXCEPT !.at = "upstream", !.path = RewritePath(q.route, q.in.path)]
    ELSE Send(p, 502)

\* A plausible bug: one key that accepts is enough.
DecideByAny(q) ==
    IF q.refused # {} /\ q.granted = {} THEN Send(q, 429) ELSE Forward(q)

\* enforceRateLimit, when every key has answered: 429 if any has refused.
Decide(q) == IF q.refused # {} THEN Send(q, 429) ELSE Forward(q)

\* enforceRateLimit, when a store has failed: Promise.all rejects at once, and
\* what the other keys have said is not looked at.
DecideFailed(q) ==
    LET p == [q EXCEPT !.failed = TRUE, !.waiting = {}] IN
    IF redis = "open" THEN Forward(p) ELSE Send(p, 503)

Step(r, q) ==
    /\ req' = [req EXCEPT ![r] = q]
    /\ UNCHANGED <<log, redis, losses, handled, usage>>

\* A consume of each key in S: it counts if the key is within its limit.
Charge(q, S) ==
    used' = [k \in Key |-> IF k \in S /\ used[k] < Limit(q.route, k) THEN used[k] + 1
                           ELSE used[k]]

\* No rateLimit block, neither where it was matched nor in the current config:
\* state.rateLimitStores.get(route.id) is read after the await.
Unlimited(q) == q.route.keyBy = {} \/ ~Limited(Config, q.route.id)

\* The gate.  Without Redis the promises are settled in the same turn.
Enter(r, q) ==
    IF Unlimited(q) \/ Checks(q) = {} THEN Step(r, Forward(q)) /\ UNCHANGED used
    ELSE IF redis # "none"
    THEN Step(r, [q EXCEPT !.at = "gate", !.waiting = Checks(q)]) /\ UNCHANGED used
    ELSE LET ok == {k \in Checks(q) : used[k] < Limit(q.route, k)} IN
         /\ Step(r, Decide([q EXCEPT !.store = Len(log), !.granted = ok,
                                     !.refused = Checks(q) \ ok]))
         /\ Charge(q, ok)

-----------------------------------------------------------------------------
(* What a request does *)

Arrived(r, in) == [Idle EXCEPT !.in = in, !.era = Len(log)]

\* The onRequest hooks: 413 or 431, before any route is known.
TooLarge(r, in) ==
    /\ req[r].at = "idle" /\ in.big
    /\ Step(r, Send(Arrived(r, in), 413)) /\ UNCHANGED used

\* The route that answers a preflight, if there is one.
Allowing(in) ==
    LET hits == MatchingByPath(Config, in.path, in.host) IN
    {i \in hits : i = First(hits) /\ IsOriginAllowed(Config[i].cors, in.origin)}

IsPreflight(in) == in.method = "OPTIONS" /\ in.origin # NoOrigin /\ in.asks # "none"

Preflight(r, in) ==
    /\ req[r].at = "idle" /\ ~in.big /\ in.upgrade # "other" /\ IsPreflight(in)
    /\ \E i \in Allowing(in) :
          Step(r, Send([Arrived(r, in) EXCEPT !.route = Config[i]], 204)) /\ UNCHANGED used

\* Everything that is neither answered on entry nor as a preflight.
Matches(r, in) ==
    /\ req[r].at = "idle" /\ ~in.big /\ in.upgrade # "other"
    /\ IsPreflight(in) => Allowing(in) = {}

\* matchRoute: the first route that matches, if any does.
Matched(in) ==
    LET hits == Matching(Config, in.method, in.path, in.host) IN
    {Config[i] : i \in {k \in hits : k = First(hits)}}

\* No route matches (404), or an upgrade to something else than WebSocket (400).
NotFound(r, in) ==
    /\ \/ /\ Matches(r, in) /\ Matched(in) = {}
          /\ Step(r, Send(Arrived(r, in), 404))
       \/ /\ req[r].at = "idle" /\ ~in.big /\ in.upgrade = "other"
          /\ Step(r, Send(Arrived(r, in), 400))
    /\ UNCHANGED used

\* What is wrong with a handshake: WebSocket is not enabled or the handshake
\* malformed (400), or its origin is not on the list (403).
Problem(route, in) ==
    CASE in.upgrade = "no" -> {}
      [] ~route.ws.enabled \/ in.upgrade = "bad" -> {400}
      [] in.origin # NoOrigin /\ {"*", in.origin} \cap route.ws.origins = {} -> {403}
      [] OTHER -> {}

UpgradeRefused(r, in) ==
    /\ Matches(r, in) /\ UNCHANGED used
    /\ \E route \in Matched(in) : \E status \in Problem(route, in) :
          Step(r, Send([Arrived(r, in) EXCEPT !.route = route], status))

\* authenticateRequest up to its first await: none, no token (401), or a lookup.
Begin(r, in) ==
    /\ Matches(r, in)
    /\ \E route \in {x \in Matched(in) : Problem(x, in) = {}} :
          LET q == [Arrived(r, in) EXCEPT !.route = route] IN
          IF route.auth = "none" THEN Enter(r, q)
          ELSE /\ Step(r, IF in.tenant = "none" THEN Send(q, 401)
                          ELSE [q EXCEPT !.at = "auth"])
               /\ UNCHANGED used

\* The key or token is good; or it is not (401), or the lookup throws (500).
Authenticated(r) ==
    /\ req[r].at = "auth"
    /\ \/ Enter(r, [req[r] EXCEPT !.tenant = req[r].in.tenant])
       \/ \E status \in {401, 500} : Step(r, Send(req[r], status)) /\ UNCHANGED used

\* A plausible bug: what is granted is not written back.
ConsumeReads(r, k) ==
    /\ req[r].at = "gate" /\ k \in req[r].waiting
    /\ LET ok == used[k] < Limit(req[r].route, k)
           q == [req[r] EXCEPT !.waiting = @ \ {k},
                               !.granted = IF ok THEN @ \cup {k} ELSE @,
                               !.refused = IF ok THEN @ ELSE @ \cup {k}] IN
       Step(r, IF q.waiting = {} THEN Decide(q) ELSE q)
    /\ UNCHANGED used

\* Redis executes one script, and its answer arrives.
Consume(r, k) ==
    /\ req[r].at = "gate" /\ k \in req[r].waiting
    /\ LET ok == used[k] < Limit(req[r].route, k)
           q == [req[r] EXCEPT !.waiting = @ \ {k},
                               !.granted = IF ok THEN @ \cup {k} ELSE @,
                               !.refused = IF ok THEN @ ELSE @ \cup {k}] IN
       Step(r, IF q.waiting = {} THEN Decide(q) ELSE q)
    /\ Charge(req[r], {k})

\* A plausible bug: a lost connection leaves the handler waiting for its reply.
LoseConnectionHangs(r) ==
    /\ req[r].at = "gate" /\ losses < MaxLosses /\ losses' = losses + 1
    /\ \E executed \in SUBSET req[r].waiting : Charge(req[r], executed)
    /\ req' = [req EXCEPT ![r].waiting = {}]
    /\ UNCHANGED <<log, redis, handled, usage>>

\* The connection breaks with commands under way, some of them executed.  They
\* are sent again after a reconnect, or rejected if there is none.
LoseConnection(r) ==
    /\ req[r].at = "gate" /\ losses < MaxLosses /\ losses' = losses + 1
    /\ \E executed \in SUBSET req[r].waiting : Charge(req[r], executed)
    /\ \/ req' = [req EXCEPT ![r] = DecideFailed(req[r])]
       \/ UNCHANGED req
    /\ UNCHANGED <<log, redis, handled, usage>>

\* The cache, the upstream or sendProxyError has an answer.
Answered(r) ==
    /\ req[r].at = "upstream" /\ UNCHANGED used
    /\ \E status \in Outcomes :
          /\ req[r].in.upgrade = "no" \/ status >= 400
          /\ Step(r, Send(req[r], status))

\* What is kept of a request: the metrics, and a usage record for its tenant.
Record(q) ==
    /\ handled' = [handled EXCEPT ![q.route.id] = @ + 1]
    /\ usage' = IF q.tenant = "none" THEN usage
                ELSE [usage EXCEPT ![q.tenant][q.route.id] = @ + 1]

\* onResponse, once an answer is written; if its client has gone this may be never.
Finished(r) ==
    /\ req[r].at = "sent"
    /\ req' = [req EXCEPT ![r].at = "done"] /\ Record(req[r])
    /\ UNCHANGED <<log, redis, used, losses>>

\* An accepted handshake leaves the server's hands, so that no hook runs for
\* it: the WebSocket proxy records it, in the turn that opens the tunnel.
Accepted(r) ==
    /\ req[r].at = "upstream" /\ req[r].in.upgrade = "good"
    /\ req' = [req EXCEPT ![r].at = "open", ![r].status = 101] /\ Record(req[r])
    /\ UNCHANGED <<log, redis, used, losses>>

\* The client of a handshake gives up, or ws rejects its socket: it has left the
\* server's hands, is not accepted, and nobody records it.
Gone(r) ==
    /\ req[r].at = "upstream" /\ req[r].in.upgrade = "good"
    /\ Step(r, [req[r] EXCEPT !.at = "gone"]) /\ UNCHANGED used

\* reload: a new runtime state, with new stores if they are in memory.
Reload(c) ==
    /\ Len(log) <= MaxReloads
    /\ log' = Append(log, c)
    /\ used' = IF redis # "none" THEN used ELSE [k \in Key |-> 0]
    /\ UNCHANGED <<redis, losses, req, handled, usage>>

Next ==
    \/ \E r \in Requests, in \in Inputs : TooLarge(r, in)
    \/ \E r \in Requests, in \in Inputs : Preflight(r, in)
    \/ \E r \in Requests, in \in Inputs : NotFound(r, in)
    \/ \E r \in Requests, in \in Inputs : UpgradeRefused(r, in)
    \/ \E r \in Requests, in \in Inputs : Begin(r, in)
    \/ \E r \in Requests : Authenticated(r)
    \/ \E r \in Requests, k \in Key : Consume(r, k)
    \/ \E r \in Requests : LoseConnection(r)
    \/ \E r \in Requests : Answered(r)
    \/ \E r \in Requests : Finished(r)
    \/ \E r \in Requests : Accepted(r)
    \/ \E r \in Requests : Gone(r)
    \/ \E c \in Configs : Reload(c)

Spec == Init /\ [][Next]_vars

=============================================================================
