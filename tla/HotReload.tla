------------------------------ MODULE HotReload ------------------------------
(***************************************************************************)
(* config/watch.ts and the part of server.ts that owns what a config is    *)
(* turned into: the clients made once at boot, the runtime state replaced  *)
(* by a reload with its health-check intervals, the shutdown, and requests *)
(* that look things up in the state of the moment between their awaits.    *)
(***************************************************************************)
EXTENDS Integers, Sequences

CONSTANTS
    Configs,     \* the configs that can be written: [fixed |-> .., routes |-> ..]
    Broken,      \* a file that does not parse or fails the schema
    Requests,
    MaxEvents    \* bound: how many writes and signals a run may have


(* config.fixed has what matters of the sections that a reload must not     *)
(* change: of server, whether watch is on; of redis, db and admin, whether *)
(* they are present.  config.routes is the sequence of the routes, each    *)
(* with its id and what matters of it here: keyed (auth.type apiKey),      *)
(* limited (rateLimit), cached (cache.enabled) and probed                  *)
(* (upstream.healthCheck).                                                 *)
Feature == {"keyed", "limited", "cached", "probed"}

ASSUME HotReloadAssumption ==
    /\ Broken \notin Configs /\ MaxEvents \in Nat
    /\ \A c \in Configs : c.fixed.watch \in BOOLEAN
    /\ \A c \in Configs : \A i \in DOMAIN c.routes :
          i \in Nat /\ c.routes[i].on \subseteq Feature

VARIABLES
    file,        \* what the config file holds
    watching,    \* fs.watch is on, and still sees what happens to the file
    changed,     \* a file event or SIGHUP not yet handled
    events,      \* how many writes and signals there have been
    booted,      \* the config buildServer was called with
    config,      \* state.config
    gen,         \* which runtime state is current: counts buildRuntimeState
    intervals,   \* the health-check intervals running, as <<gen, index of the route>>
    phase,       \* serving, draining (app.close called), closed
    req          \* each request: where it is, its route, the store it asked

vars == <<file, watching, changed, events, booted, config, gen, intervals, phase, req>>

RouteIds(c) == {c.routes[i].id : i \in DOMAIN c.routes}
Having(c, f) == {c.routes[i].id : i \in {k \in DOMAIN c.routes : f \in c.routes[k].on}}

\* buildServer and assertHotReloadable: apiKey routes need a db section.
HasDbForKeys(c) == Having(c, "keyed") # {} => c.fixed.db

\* What boot creates: the Redis client if something is there to use it ...
RedisClient ==
    /\ booted.fixed.redis
    /\ \E f \in {"limited", "cached", "keyed"} : Having(booted, f) # {}

\* ... and the connection pool.
DbPool == booted.fixed.db /\ (Having(booted, "keyed") # {} \/ booted.fixed.admin)

\* createBalancer starts an interval for each route with a health check ...
IntervalsOf(g, c) == {<<g, i>> : i \in {k \in DOMAIN c.routes : "probed" \in c.routes[k].on}}

\* ... and the Map of the balancers, by route id, keeps the last of each id:
\* the ones that can be closed.
Closable(g, c) ==
    {<<g, i>> : i \in {k \in DOMAIN c.routes :
                          \A m \in DOMAIN c.routes : c.routes[m].id = c.routes[k].id => m <= k}}

Idle == [at |-> "idle", route |-> [id |-> "none", on |-> {}], asked |-> "none"]

Init ==
    /\ booted \in {c \in Configs : HasDbForKeys(c)}
    /\ config = booted /\ file = booted
    /\ watching = booted.fixed.watch
    /\ changed = FALSE /\ events = 0
    /\ gen = 0
    /\ intervals = IntervalsOf(0, booted)
    /\ phase = "serving"
    /\ req = [r \in Requests |-> Idle]

-----------------------------------------------------------------------------
(* The config file and its watcher *)

\* An editor writes into the file, maybe in several steps, and fs.watch, if it
\* is on, reports it.
Write(c) ==
    /\ events < MaxEvents /\ events' = events + 1
    /\ file' = c /\ changed' = (changed \/ watching)
    /\ UNCHANGED <<watching, booted, config, gen, intervals, phase, req>>

\* An editor removes the file and puts another in its place.  It depends on the
\* platform whether fs.watch reports that, and whether it sees the new file: it
\* may report the change and see nothing more, or see nothing from here on.
Replace(c) ==
    /\ events < MaxEvents /\ events' = events + 1
    /\ file' = c
    /\ \/ changed' = (changed \/ watching) /\ watching' \in {watching, FALSE}
       \/ watching' = FALSE /\ UNCHANGED changed
    /\ UNCHANGED <<booted, config, gen, intervals, phase, req>>

Sighup ==
    /\ events < MaxEvents /\ events' = events + 1
    /\ changed' = TRUE
    /\ UNCHANGED <<file, watching, booted, config, gen, intervals, phase, req>>

\* A plausible bug: the whole config is compared, not only the fixed sections.
CompatibleIfSame(c) == c = config

\* assertHotReloadable
Compatible(c) == c.fixed = config.fixed /\ HasDbForKeys(c)

\* A plausible bug: reload writes the normalised config back to the file, and
\* so is its own next event.
ReloadAgain ==
    /\ changed /\ phase # "closed"
    /\ IF file # Broken /\ Compatible(file)
       THEN /\ config' = file
            /\ gen' = gen + 1
            /\ intervals' = (intervals \ Closable(gen, config)) \cup IntervalsOf(gen + 1, file)
            /\ UNCHANGED changed
       ELSE UNCHANGED <<config, gen, intervals>> /\ changed' = FALSE
    /\ UNCHANGED <<file, watching, events, booted, phase, req>>

\* watch.ts reload and server.ts reload.  loadConfig and onReload run to their
\* end without an await and `reloading` is reset before the next event, so an
\* event is never skipped; a rejected config leaves everything as it was.
Reload ==
    /\ changed /\ phase # "closed"
    /\ changed' = FALSE
    /\ IF file # Broken /\ Compatible(file)
       THEN /\ config' = file
            /\ gen' = gen + 1
            /\ intervals' = (intervals \ Closable(gen, config)) \cup IntervalsOf(gen + 1, file)
       ELSE UNCHANGED <<config, gen, intervals>>
    /\ UNCHANGED <<file, watching, events, booted, phase, req>>

-----------------------------------------------------------------------------
(* Requests: the handler keeps the route it matched, and looks its store,  *)
(* cache and balancer up in the state each time it comes to need them.     *)

\* state.balancers.get(route.id)!, and the TypeError if there is none: 502.
Dispatch(q) ==
    [q EXCEPT !.at = IF q.route.id \in RouteIds(config) THEN "upstream" ELSE "bad_gateway"]

\* cacheStores.get(route.id), then Redis or the process's memory.
LookUp(q) ==
    IF "cached" \in q.route.on /\ q.route.id \in Having(config, "cached") /\ RedisClient
    THEN [q EXCEPT !.at = "cache"]
    ELSE Dispatch(q)

\* rateLimitStores.get(route.id): the limit is skipped if there is none.
Limit(q) ==
    IF "limited" \notin q.route.on \/ q.route.id \notin Having(config, "limited") THEN LookUp(q)
    ELSE IF RedisClient THEN [q EXCEPT !.at = "limit", !.asked = "redis"]
    ELSE LookUp([q EXCEPT !.asked = "memory"])

\* authenticateRequest up to its query: no pool, 500.
Begin(q) ==
    IF "keyed" \notin q.route.on THEN Limit(q)
    ELSE [q EXCEPT !.at = IF DbPool THEN "auth" ELSE "misconfigured"]

Becomes(r, q) ==
    /\ req' = [req EXCEPT ![r] = q]
    /\ UNCHANGED <<file, watching, changed, events, booted, config, gen, intervals, phase>>

Done(r) == [req[r] EXCEPT !.at = "done"]

\* matchRoute: which route matches first is up to the request.
Arrive(r) ==
    /\ phase = "serving" /\ req[r].at = "idle"
    /\ \E i \in DOMAIN config.routes :
          Becomes(r, Begin([req[r] EXCEPT !.route = config.routes[i]]))

\* The key is looked up, in Redis or Postgres: goes on, or 401.
Authenticated(r) ==
    /\ req[r].at = "auth"
    /\ Becomes(r, Limit(req[r])) \/ Becomes(r, Done(r))

\* Redis decides, or fails and failOpen does: goes on, or 429 or 503.
Limited(r) ==
    /\ req[r].at = "limit"
    /\ Becomes(r, LookUp(req[r])) \/ Becomes(r, Done(r))

\* A miss goes on; a hit is the answer, and so is Redis failing.
LookedUp(r) ==
    /\ req[r].at = "cache"
    /\ Becomes(r, Dispatch(req[r])) \/ Becomes(r, Done(r))

\* The upstream has answered, or forwardWithRetry has given up.
Answered(r) == req[r].at = "upstream" /\ Becomes(r, Done(r))

-----------------------------------------------------------------------------
(* Shutdown *)

Pending(r) == req[r].at \in {"auth", "limit", "cache", "upstream"}

\* SIGTERM: app.close stops accepting; the watcher still works.
Shutdown ==
    /\ phase = "serving" /\ phase' = "draining"
    /\ UNCHANGED <<file, watching, changed, events, booted, config, gen, intervals, req>>

\* A plausible bug: onClose closes the balancers of the boot, not the current.
CloseBooted ==
    /\ phase = "draining" /\ \A r \in Requests : ~Pending(r)
    /\ phase' = "closed"
    /\ intervals' = intervals \ Closable(0, booted)
    /\ UNCHANGED <<file, watching, changed, events, booted, config, gen, req>>

\* onClose, after the HTTP server has drained: the watcher and the balancers.
Close ==
    /\ phase = "draining" /\ \A r \in Requests : ~Pending(r)
    /\ phase' = "closed"
    /\ intervals' = intervals \ Closable(gen, config)
    /\ UNCHANGED <<file, watching, changed, events, booted, config, gen, req>>

Next ==
    \/ \E c \in Configs \cup {Broken} : Write(c)
    \/ \E c \in Configs \cup {Broken} : Replace(c)
    \/ Sighup \/ Reload \/ Shutdown \/ Close
    \/ \E r \in Requests : Arrive(r)
    \/ \E r \in Requests : Authenticated(r)
    \/ \E r \in Requests : Limited(r)
    \/ \E r \in Requests : LookedUp(r)
    \/ \E r \in Requests : Answered(r)

Spec == Init /\ [][Next]_vars

=============================================================================
