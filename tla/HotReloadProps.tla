---------------------------- MODULE HotReloadProps ----------------------------
(***************************************************************************)
(* The properties of HotReload, and the fairness of the event loop.        *)
(***************************************************************************)
EXTENDS HotReload

TypeOK ==
    /\ file \in Configs \cup {Broken}
    /\ watching \in BOOLEAN /\ changed \in BOOLEAN /\ events \in 0 .. MaxEvents
    /\ booted \in Configs /\ config \in Configs
    /\ gen \in 0 .. events
    /\ \A i \in intervals : i[1] \in 0 .. MaxEvents
    /\ phase \in {"serving", "draining", "closed"}
    /\ \A r \in Requests :
          /\ req[r].at \in {"idle", "auth", "limit", "cache", "upstream",
                            "done", "misconfigured", "bad_gateway"}
          /\ req[r].route.on \subseteq Feature
          /\ req[r].asked \in {"none", "redis", "memory"}

-----------------------------------------------------------------------------
(* Safety *)

DistinctIds ==
    \A c \in Configs : \A i, j \in DOMAIN c.routes :
        c.routes[i].id = c.routes[j].id => i = j

\* server.ts:233-235 ("otherwise every reload leaks a timer"): the intervals
\* that run are those of the current state, however many reloads there were and
\* wherever the shutdown came, and none survives the shutdown.  (With two routes
\* of one id the code does not keep this: see README.md.)
IntervalsExact ==
    intervals = IF phase = "closed" THEN {} ELSE IntervalsOf(gen, config)

\* README.md:283-285 ("Add a top-level redis block to share quota across
\* multiple gateway instances"): with the block no limit is counted in memory.
\* (The code does not keep this: see README.md.)
QuotaIsShared == booted.fixed.redis => \A r \in Requests : req[r].asked # "memory"

\* server.ts:58-61, and the answer at auth/index.ts:71-79 ("the gateway has no
\* database configured"): it is given only where no database is configured.
\* (The code does not keep this: see README.md.)
KeyedRoutesWork == booted.fixed.db => \A r \in Requests : req[r].at # "misconfigured"

\* The assertion `state.balancers.get(route.id)!` at server.ts:494 and 458: the
\* balancer of the route that was matched is there when it is needed.
\* (The code does not keep this: see README.md.)
BalancerFound == \A r \in Requests : req[r].at # "bad_gateway"

-----------------------------------------------------------------------------
(* Liveness *)

\* The event loop delivers file events and signals.
FairSpec == Spec /\ WF_vars(Reload)

Acceptable(c) == c.fixed = booted.fixed /\ HasDbForKeys(c)

\* README.md:609-616: the last acceptable config written is the one that the
\* gateway comes to run, through any number of overlapping events and broken
\* or rejected writes before it - as long as fs.watch has not lost the file, or
\* a signal or event is still to be handled when it is written.
Converges ==
    \A c \in Configs :
        Acceptable(c) /\ file = c /\ (watching \/ changed)
            ~> config = c \/ file # c \/ phase = "closed"

\* README.md:609-610 ("set server.watch: true to also reload on every write to
\* the config file"): with it no signal is needed.  (Not after a write by
\* rename, as watch.ts:22-24 says: see README.md.)
WatchSuffices ==
    \A c \in Configs :
        Acceptable(c) /\ file = c /\ booted.fixed.watch
            ~> config = c \/ file # c \/ phase = "closed"

=============================================================================
