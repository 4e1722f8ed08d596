----------------------------- MODULE GatewayProps -----------------------------
(***************************************************************************)
(* The properties of Gateway, and the fairness of what it waits for.       *)
(***************************************************************************)
EXTENDS Gateway

TypeOK ==
    /\ log \in Seq(Configs) /\ Len(log) \in 1 .. MaxReloads + 1
    /\ redis \in {"none", "open", "closed"}
    /\ used \in [Key -> Nat]
    /\ losses \in 0 .. MaxLosses
    /\ \A r \in Requests :
          /\ req[r].at \in {"idle", "auth", "gate", "upstream", "sent", "done", "open", "gone"}
          /\ req[r].waiting \subseteq Key /\ req[r].granted \subseteq Key
          /\ req[r].refused \subseteq Key
          /\ req[r].at = "upstream" => req[r].path # <<>> /\ Head(req[r].path) = "/"

-----------------------------------------------------------------------------
(* Safety *)

\* The store of a request that was granted something is still the current one.
Current(q) == redis # "none" \/ q.store = Len(log)

\* README.md:257-285 (limits per ip, tenant and route; Redis shares them): no
\* key grants more than the largest limit that any config gives it, until a
\* reload replaces the stores - whatever is interleaved, lost or sent again.
QuotaHolds ==
    \A k \in Key : \A max \in {Limit(route, k) : route \in Holding(k)} :
        (\A route \in Holding(k) : Limit(route, k) <= max) =>
            Cardinality({r \in Requests : k \in req[r].granted /\ Current(req[r])}) <= max

\* README.md:268-270 and 290: a request passes the gate if all its keys have
\* granted it, if a store has failed and failOpen says so, or if some config it
\* has met had no limit for its route.
HeldToAPolicy ==
    \A r \in Requests : LET q == req[r] IN
        q.passed =>
            \/ Checks(q) \subseteq q.granted
            \/ q.failed /\ redis = "open"
            \/ \E i \in q.era .. Len(log) : ~Limited(log[i], q.route.id)

\* README.md:269-270: "the request is rejected if any of them is over quota".
\* (The code does not keep this: see README.md.)
AnyRefusalRejects == \A r \in Requests : req[r].passed => req[r].refused = {}

\* A preflight that could be answered as one, before any reload.
Preflighted(q) ==
    /\ q.at = "sent" /\ q.era = Len(log)
    /\ IsPreflight(q.in) /\ ~q.in.big /\ q.in.upgrade # "other"

\* The route that the announced request will meet, if any.
Announced(in) ==
    LET hits == Matching(Config, in.asks, in.path, in.host) IN
    {Config[i] : i \in {k \in hits : k = First(hits)}}

\* matcher.ts:31-37, the preflight is answered by the CORS policy of the right
\* route: it is allowed, and not by an upstream, exactly if the request that it
\* announces will meet a route that allows the origin.
AgreesOn(q) ==
    q.status = 204 /\ ~q.passed <=>
        \E route \in Announced(q.in) : IsOriginAllowed(route.cors, q.in.origin)

\* (The code does not keep this: see README.md.)
PreflightAgrees == \A r \in Requests : Preflighted(req[r]) => AgreesOn(req[r])

\* The one way in which the two can differ: the route that path and host lead to
\* does not accept the announced method.
AcceptsAsked(in) ==
    LET hits == MatchingByPath(Config, in.path, in.host) IN
    hits # {} => MatchesMethod(Config[First(hits)], in.asks)

\* matcher.ts:29-37: whatever the routes are, a preflight that does not agree with
\* the request it announces is due to a method that the answering route lacks -
\* never to another host's policy, to authentication, a quota or the upstream.
PreflightDiffersByMethod ==
    \A r \in Requests :
        Preflighted(req[r]) /\ AcceptsAsked(req[r].in) => AgreesOn(req[r])

Named(routes, id) == {route \in Routes : \E i \in DOMAIN routes : routes[i] = route /\ route.id = id}

\* The routes of that id in each config it has met.
Met(q) == {Named(log[i], q.route.id) : i \in q.era .. Len(log)}

\* Who may read an answer: only an origin that a route allowed, and not everybody
\* where credentials are on; and the origin that all allowed all the while.
Shared(q) ==
    LET origin == q.in.origin IN
    /\ q.cors # "none" =>
          \E routes \in Met(q) : \E route \in routes :
              /\ origin # NoOrigin /\ IsOriginAllowed(route.cors, origin)
              /\ q.cors = "*" => origin = "*" \/ ~route.cors.credentials
    /\ (/\ origin # NoOrigin
        /\ \A routes \in Met(q) :
              routes # {} /\ \A route \in routes : IsOriginAllowed(route.cors, origin))
          => q.cors # "none"

\* server.ts:195-205, README.md:397-403 and 413-418: every answer to a route,
\* errors too, is shared with an origin on the route's list and with no other,
\* although a reload may change or remove the route between match and answer.
AnswersShared ==
    \A r \in Requests : req[r].at \in {"sent", "done"} => Shared(req[r])

\* README.md:342-343: "Full usage per tenant (status code, latency, route) is
\* buffered".  (The code does not keep this: see README.md.)
FullUsage ==
    \A t \in Tenant, id \in RouteId :
        Cardinality({r \in Requests : /\ req[r].at \in {"done", "open", "gone"}
                                       /\ req[r].tenant = t /\ req[r].route.id = id}) <= usage[t][id]

-----------------------------------------------------------------------------
(* Liveness *)

\* A lookup, a command to Redis and an upstream answer or time out.
Fairness ==
    \A r \in Requests :
        /\ WF_vars(Authenticated(r))
        /\ WF_vars(\E k \in Key : Consume(r, k))
        /\ WF_vars(Answered(r))

FairSpec == Spec /\ Fairness

\* Every request is answered, upgraded or given up by its client, also if Redis
\* or a reload gets in its way.
EveryRequestAnswered ==
    \A r \in Requests : req[r].at # "idle" ~> req[r].at \in {"sent", "done", "open", "gone"}

=============================================================================
