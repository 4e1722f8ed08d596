# TLA+ models of apigate

This directory holds a verification development of the gateway in
`src/packages`: TLA+ modules translated from the TypeScript and Lua sources,
TLC configurations that check them on small instances, and TLAPS proofs of the
results that matter most for every size. `PROJECT.json` lists the runs, the
lines each definition models, the mutations each property detects, the
disagreements between code and documentation that a run shows, and the theorems.

## The system

One Node process per gateway instance. A request passes, in this order, through
route matching, authentication, rate limiting, the response cache and the
balancer to an upstream; instances share Redis (rate limits, key verdicts,
cached responses) and Postgres (keys, tenants, usage). Within a process
everything interleaves at `await`s, timers and socket events; nothing else runs
in parallel.

| Component | State | Operations | Depends on |
| --- | --- | --- | --- |
| Circuit breaker (`core/breaker`) | state, failures, openedAt, trial flag | canRequest, recordSuccess, recordFailure | the clock |
| Balancer (`gateway/proxy/balancer.ts`) | targets' health, cursor, probe interval | pickTarget, report*, probe, close | one breaker per target |
| Retry (`gateway/proxy/retry.ts`) | attempt, last error, buffered body | forwardWithRetry | balancer, undici |
| Rate limits (`core/ratelimit`) | one record per key, in memory or Redis | consume, reset | Lua scripts, clock |
| Rate-limit gate (`gateway/ratelimit`) | none | enforceRateLimit: several keys at once, failOpen | stores |
| API keys (`gateway/auth`, `db/repositories`) | Postgres rows, verdicts in Redis (60 s) | authenticate, revoke, tenant status | Redis, Postgres |
| Response cache (`core/cache`, `gateway/cache`) | entries in memory or Redis | get, set, purge by prefix | the handler in `server.ts`, admin API |
| WebSocket proxy (`gateway/websocket`) | per connection: both sockets, closed sides, early messages, kill timer; registry | handshake, accept, relay, close, closeAll | balancer, `ws` |
| Lifecycle (`server.ts`, `config/`) | config, Redis client, pool, runtime state, watcher | boot, reload, shutdown | everything |
| Usage buffer (`gateway/usage`) | buffered records | push, flush, close | Postgres pool |
| Migrations (`gateway/db/client.ts`) | `_migrations` | runMigrations | Postgres |
| Request handler (`server.ts`, `routing`, `cors`, `limits`) | the requests between their awaits, request counts | hooks on entry, preflight, matchRoute, gate, forward, onSend, onResponse | everything above it |
| JWT, metrics, adapters, scripts | none of their own | | |

What is hard: results of calls that arrive after the breaker has moved on; a
breaker whose only trial never reports; check-then-await-then-act (WebSocket
capacity, cache fill against purge, key verdict against revocation, a request
against a reload); listeners attached before or after the event they wait for;
errors of promises nobody awaits; keys that expire in Redis; clocks of several
instances; shutdown in the middle of any of these. The `hazards` of
`PROJECT.json` list them line by line with the properties that watch them.

## Modules

| Module | Models | Checked by |
| --- | --- | --- |
| `CircuitBreaker` | the class, as operators on a breaker record | through `Upstream` |
| `Upstream` | balancer + breakers + probes + `forwardWithRetry` / WebSocket dialling, many concurrent calls | `UpstreamProps`, `UpstreamHistory` |
| `BreakerContract` | what a breaker promises: who may be sent a call, when | refined by `Upstream` |
| `RateAlgorithms` | the five algorithms (TypeScript and Lua) | through `RateLimit` |
| `RateLimit` | one key in a memory store and in Redis side by side, several instances | `RateLimitProps` |
| `Routing` | matching, rewriting and CORS as operators on paths and hosts in pieces | through `Gateway` |
| `Gateway` | the request handler from arrival to the recorded answer, with the rate-limit gate over several keys, reloads and lost Redis connections | `GatewayProps` |
| `ResponseCache` | cached GETs against purges, expiry and failures | `ResponseCacheProps` |
| `ApiKeyAuth` | lookups against revocation, tenant status, cache, failures, restarts | `ApiKeyAuthProps` |
| `WebSocket` | handshake, bridge, close, drain | `WebSocketProps` |
| `TunnelContract` | what the proxy promises of a connection: it flows both ways until it is cut, once and for good | refined by `WebSocket` |
| `HotReload` | boot resources, config watcher, reload, requests in flight, shutdown | `HotReloadProps` |
| `UsageBuffer` | buffer, pool, onClose | `UsageBufferProps` |
| `UsageLedger` | what the buffer promises of a record: kept until its batch is written or reported, once | refined by `UsageBuffer` |
| `Migrations` | several booting processes, one Postgres | `MigrationsProps` |
| `SchemaContract` | what migration promises of the database: one file at a time, in order, for good | refined by `Migrations` |

Each `X` has its properties in `XProps` (or `XHistory`, where they need
history variables: variables that only record the past, read by no action of
`X`), its instances in `MCX`, and its theorems in `XProofs`. Definitions that
a comment calls "a plausible bug" are not part of the model: each is a way the
code could be wrong which one of the properties detects.

### How state and actions correspond to the code

**Upstream.** `breaker[t]`, `healthy[t]`, `cursor` are the closure of
`createBalancer`; `client[c]` is one run of `forwardWithRetry` (or one dial of
`proxyWebSocket`, kind `handshake`), between its awaits. `Attempt` is everything
from the head of the loop to the await of the upstream (`pickTarget` with its
`canRequest` side effects included); `AnswerWell`, `AnswerBadly`, `Fail` and
`Abandon` are what follows it, up to the next await. Kinds tell apart
`retryable` calls (idempotent, body kept), `streamed` ones and handshakes.
`sinceOpened` counts ticks up to `ResetTimeout` and stands for `Date.now() -
openedAt`.

**RateAlgorithms, RateLimit.** Levels are integers scaled by `Window`, so that
refill per tick is `Limit` and the fractions of the code stay exact; the
double-precision rounding of the source is abstracted. `admitted[t]` is the
total admitted up to the end of tick `t`, so that what a stretch of ticks
admitted is a difference. `skew[i]` is how far the clock of gateway `i` is ahead of
Redis, chosen at the start and constant; every call passes that clock, to both
stores. Redis keeps what the script writes and forgets it when its PEXPIRE is over; the memory store never
does. `Script` is what Redis runs: the scripts decide as the functions do, except
that the log is a sorted set there, so that its oldest entry is the one of the lowest
timestamp, whichever gateway wrote it and when (`Earliest`). Calls end when `MaxAdmitted` may have been reached. `Slack` is the milliseconds by which the real expiry exceeds a window.

**Routing, Gateway.** A path is a sequence of pieces of text, "/" among them,
and a host the sequence of its labels, so prefixes, wildcards and `stripPath` act
as they do on the strings. `req[r]` is a request between two awaits: `auth` (a
key or token is looked up), `gate` (Redis has its commands), `upstream`
(whatever answers it past the gate), `sent` (onSend has run, the response is
written), `done` (onResponse has run and recorded it), `open` (a handshake that
was accepted, and recorded by the WebSocket proxy in that turn: no hook runs for
it) or `gone` (a handshake whose client gave up or whose socket `ws` refused:
recorded by nobody). Each action is one turn of the event loop. In memory the
gate consumes all keys in the turn that enters it; in Redis each key is a
command of its own (`Consume`), and `LoseConnection` is what ioredis does with
commands under way: sent again or rejected, executed or not. `log` is the
sequence of configs; `route` is what the request matched, `Config` what
`state` gives it after an await. Counters are levels within one window: time
and algorithms are in `RateLimit`. `keyBy` is a set, as the order of its entries
changes nothing but headers. A pool is taken to exist, so usage is recorded.
A client that goes away while its answer is written may leave the request at
`sent`: nothing obliges `Finished` to come. `Header` is what onSend makes of
the config of that moment, by the id of the route that was matched.

**ResponseCache.** A request is `Begin`, the GET's answer (`Hit`, `Miss`,
`GetFails`), the upstream's answer (`Answered`), `Store` - one per await. A
purge is one step in memory and a SCAN page per step in Redis.

**ApiKeyAuth.** One key; Redis holds "valid", "invalid" or nothing with a time
to live. `MaxDelay` is how long a verdict may be under way from the database to
Redis.

**WebSocket.** A connection's `phase` runs from idle through dialling to
bridged. `client` and `upstream` are the `readyState`s, with what they hide
told apart: a side is `closing` once the gateway has sent it a close frame,
`ending` when its peer's close frame or FIN has come or `ws` closes it by itself (a
message over `maxPayload`, 1009, or a protocol error), `dead` when it was
terminated or its socket failed, and `closed` once its 'close' event was emitted. Only
that event and the gateway's own closes run a listener of the proxy and arm the
kill timer (`proxy.ts:393-405`, `304-310`); `UpstreamEnds`, `ClientEnds` and the
last case of `ClientSays` do not. `held` and `heldClose` is what arrived early. Messages are numbered by their sender: `said` and `heard`
are what the upstream has sent and the client has got, `asked` and `told` the
other way. Whether a message is over `messageRateLimit`, or finds more than
`maxBufferedBytes` waiting, is a choice at each message, and closes both sides;
the limiter is in memory and answers before the next event of a socket.
Synchronous runs of Node (the turn in which the upstream opens and the client is
accepted) are marked by `SameTurn`, so nothing comes between. `Takes` is the guard of
`relay`: a side that is not open is sent nothing, though it may still be heard.

**HotReload.** `Reload` is the watcher's callback to its end: parsing,
`assertHotReloadable`, `buildRuntimeState`, closing the old balancers. It has no
await, which is why the `reloading` flag never skips an event. A request keeps
the route it matched and reads `config` again after each await that does real
I/O (key lookup, Redis); awaits that resolve in the same turn are not steps.
`watching` is whether fs.watch is on (`server.watch`, part of the fixed sections)
and still sees the file: `Replace`, a write by rename, may go unreported and may
be the last thing it sees, as `watch.ts:22-24` says. Without it only `Sighup`
reports a write.

**UsageBuffer.** `waiting` and `running` are the pool's queue and its busy
connections: first come, first served, and after `end()` no waiting query is
served, as in node-postgres. Pushes come only while serving: Fastify runs
`onClose` after its HTTP server has closed, and both callers of `push` run
within a request. `reported` is what the module hands to `onError`. The deployed
gateway passes none (`server.ts:124`, and the default of `buffer.ts:24` does nothing),
so there a batch that fails is dropped without a trace: what is shown
of reported records is true of the module, not of any log.

**Migrations.** A transaction's statements and its record become visible
together at `Commit`; statements that create something wait for another open
transaction that creates the same, as Postgres' unique indexes make them.

## Runs

Passing runs (bounds in the `.cfg`):

| Run | Bounds | Shows |
| --- | --- | --- |
| `Upstream_safety` | a retried and a streamed call, 3 targets, 2 retries, threshold 2, reset 2 | no breaker stays closed at its threshold, half-open only with a trial and after a full timeout; refinement of `BreakerContract`; at most attempts+1 sends, 1 if not repeatable; bounded bypass of round robin |
| `Upstream_recovery` | a retried and a streamed call, 2 targets, 1 retry, 2 overlapping probes; `KeptSpec`: no half-open trial is dropped unreported | a half-open breaker has a call out; targets come back |
| `Auth_staleness` | 2 requests, TTL 3, delay 1, Redis and Postgres failing | how stale a verdict can be, either way; what a revocation does guarantee |
| `Gateway_requests` | 2 requests of 9 kinds, 3 configs (two routes, of which the first lacks POST, one route, no limits), quotas of 1 and 2, 1 reload, 1 lost connection, with and without Redis | quotas hold per key; nobody passes the gate unheld; a preflight differs from the request it announces only by a method the answering route lacks; every answer is shared with the origins of its route and no others; every request is answered, upgraded or given up |
| `RateLimit_bounds` | 2 gateways, clocks up to 1 tick ahead, limit 2, window 3, capacity 3, costs 1-2, 7 ticks, at most 8 admitted | admitted requests per interval, for the log under any skew; both stores agree; `retryAfterMs` suffices, except where noted below |
| `Cache_shared` | 2 keys, 2 requests, TTL 2, 2 versions of content, Redis failing | a finished purge left nothing it saw; hits are fresh |
| `WebSocket_bridge` | 2 connections, one of which talks, 2 messages each way, `maxConnections` 1 | slots, order of relayed messages with limits and full buffers, bounded closing; refinement of `TunnelContract`; both sides end together |
| `Usage_shutdown` | 5 records, batches of 2, pool of 2 | nothing twice, nothing lost track of, a shutdown that flushes settles what came before; refinement of `UsageLedger`; no record waits for ever |
| `Migrations_race` | 3 processes, 3 files, 2 crashes | each file once, before serving; refinement of `SchemaContract`; one process serves unless one crashed |
| `Reload_sequence` | 9 configs, watched or not, 3 writes, replacements or signals, 1 request | intervals; convergence as far as fs.watch or a signal allows |

Two actors are the fewest that race; the third process of `Migrations_race` can
disturb a race of two, and the third target of `Upstream_safety` is the fewest
for which a target can be passed over more than once. Thresholds and timeouts
of two distinguish "first" from "last", and 7 ticks are two windows of 3 and a tick; nothing admits
more than 8 in that time while the clocks agree. Gateways are interchangeable there
(`SYMMETRY`), and a skew of one tick lets the clocks disagree on the window of a call.
A handshake takes the same steps as a streamed call in `Upstream`, so one of
the two is enough. Probes are off in `Upstream_safety` to make room for the
third target: `Upstream_recovery` has them, and the theorems prove types,
breaker fields and contract with them on. Requests do not act on each other in `HotReload`, so
one is enough, and so are messages of one connection in `WebSocket`: connections
share nothing but the registry and the shutdown. In `Gateway_requests` two requests share every counter: the limit
by IP is 1, so that the second one is refused, the plan's is 2, so that it is
not, and the global one is 1 again, so that keys of one request can disagree;
one reload is enough to take a route, a limit or the stores away from a request
between any two of its awaits, one lost connection to leave any subset of its
commands executed. `CHECK_DEADLOCK FALSE` stands where the system really stops:
connections that have ended, a process that has shut down, bounded writes and
crashes.

Runs in which TLC refutes what the documentation or a test says (each with its
quotation under `findings`):

| Run | What happens |
| --- | --- |
| `Upstream_stuck` | a half-open trial that is abandoned - its streamed body cut short by `limitBodySize` (`BodyTooLargeError`), or its handshake given up by the client - reports nothing: the target is refused for ever |
| `Auth_revoke_race` | a lookup that read the key before the revocation re-caches it after it |

### Further disagreements

The runs are one per question; these were met on the way. Each line names the
property and the configuration in which TLC refutes it when it stands in place
of the properties listed there.

| Property, configuration | Code | What is said |
| --- | --- | --- |
| `RevokeClearsCache`, `Auth_staleness` | `admin/routes.ts:152`: DEL fails after the row is revoked (500); the repetition finds no unrevoked row (404) and never reaches DEL | `admin/routes.ts:150-151`: revoking in the database alone is not enough |
| `NeverCrashes`, `Auth_staleness` | `auth/index.ts:133`: nobody catches a failed `touchApiKeyLastUsed` | `db/client.ts:11-14`: the only thing to do is not to crash |
| `WithinCapacity`, `WebSocket_bridge` | `websocket/proxy.ts:76`: connections are compared with `maxConnections` before an await and counted after it | `README.md:472`: the next handshake gets 503 |
| `FailedHandshakeReleased`, `WebSocket_bridge` | `websocket/proxy.ts:318`: the 'close' listener may come after the socket was destroyed; slot and upstream connection stay | `proxy.ts:316-317`: the upstream connection must not leak |
| `ShutdownCompletes`, `WebSocket_bridge` | `websocket/registry.ts:33`: a handshake accepted after `closeAll` is never closed | `README.md:481-482`: every open connection is closed, the process exits in about a second |
| `HintAlwaysSuffices`, `RateLimit_bounds` | `slidingWindowCounter.ts:36` estimates too low; the log names the departure of one entry, too early for a cost above 1 | `ratelimit/index.ts:120`: retry after ... seconds |
| `LeakySmooths`, `RateLimit_bounds` | `leakyBucket.ts:13`: a burst of the whole capacity is admitted at once | `packages/core/README.md:190-191`: smooths the output to a constant rate |
| `WithinBoundAnyClock`, `RateLimit_bounds` | `redisStore.ts:63`: each instance passes its own clock; a differing one starts a new window | `packages/core/README.md:31-32`: safe across instances |
| `PurgeEmpties`, `Cache_shared` | `server.ts:529` stores what was fetched before the purge | `README.md:577`: empties that route's cache |
| `RedisErrorsLetThrough`, `Cache_shared` | `server.ts:479` is outside the `try`: 500 while Redis is down | `README.md:290`: let requests through |
| `NothingLostAtClose`, `Usage_shutdown` | `usage/buffer.ts:55` awaits only its own flush; earlier batches that wait for a connection are dropped by `pool.end` | `usageBuffer.test.ts:63`: writes whatever is left when closed |
| `AnyRefusalRejects`, `Gateway_requests` | `ratelimit/index.ts:94`: `Promise.all` rejects with the first failed command; with `failOpen` the request passes although another of its keys has already refused it | `README.md:269-270`: rejected if any of them is over quota |
| `PreflightAgrees`, `Gateway_requests` | `matcher.ts:37`: a preflight is matched without the method it announces; of two routes with one path it may be answered by the other one (`PreflightDiffersByMethod` is what is left) | `matcher.ts:31-37`: the CORS config of the right route |
| `FullUsage`, `Gateway_requests` | `websocket/proxy.ts:118-126`: a handshake whose client gives up is hijacked and recorded by neither the hook nor the proxy | `README.md:342-343`: full usage per tenant |
| `FailedTrialResets`, `Upstream_safety` | `circuitBreaker.ts:55-58`: a failed trial opens the breaker again and leaves the count as it was | `circuitBreaker.ts:13`: half-open, error, open (counter reset) |
| `OpenForOneTimeout`, `Upstream_safety` | `circuitBreaker.ts:60-64`: the count is still at the threshold, so the late failure of an older call restarts `openedAt` of an open breaker | `packages/core/README.md:121-124`: refuses for `resetTimeoutMs`, then allows a trial |
| `EndingIsBounded`, `WebSocket_bridge` | `websocket/proxy.ts:393-405` arms the kill timer at 'close': a side that its peer or `ws` itself (`maxPayload`, `proxy.ts:113, 348`) has begun to close runs under the 30 s timer of `ws` only, and the other side stays open meanwhile | `proxy.ts:293`: a peer that does not finish the closing handshake is cut |
| `KeyedRoutesWork`, `Reload_sequence` | `server.ts:121`: the pool is made at boot, if a route needs it then; a reload adds an `apiKey` route that `server.ts:58` lets pass: 500 on every request | `auth/index.ts:75`: the gateway has no database configured |
| `QuotaIsShared`, `Reload_sequence` | `server.ts:116`: no Redis client if none was needed at boot; a limit added later counts in memory | `README.md:283-285`: a `redis` block shares quota |
| `BalancerFound`, `Reload_sequence` | `server.ts:494` reads `state` after awaits; a reload may have removed the route: 502 | the non-null assertion on that line |
| `WatchSuffices`, `Reload_sequence` | `watch.ts:22-24, 50`: fs.watch may lose a file that an editor replaces, and reports nothing from then on | `README.md:609-610`: reload on every write to the config file |
| `IntervalsExact`, `Reload_sequence` with `SameIdConfigs` | `server.ts:106`: the Map keeps one balancer per id, the interval of the other is never cleared | `server.ts:233-235`: every reload would leak a timer otherwise |

In `Upstream` three more follow from `recordSuccess` and `recordFailure`
ignoring which call reports (`circuitBreaker.ts:46, 53`) and from reports being
looked up by URL (`balancer.ts:72`): a late success closes a breaker that has
just opened, a late failure reopens one whose trial is still out and so makes
room for a second trial, and of two targets with one URL the second never
learns anything. `BreakerContract` is what is left of the promise: it lets any
call that is out on a target report, at any time.

## Fairness

Stated per action and only where the code has a timer, a timeout or a queue
behind it. Upstream: undici's headers, body and connect timeouts end every call
and probe, `sleep` ends every backoff, `setInterval` keeps probing; clients are
not obliged to call (`Recovers` assumes they do, in its premise) and may abandon
at will; `KeptSpec` leaves out the one case in which the code cannot recover, a
half-open trial that is dropped without a report (`Upstream_stuck` shows it).
WebSocket: the handshake timeout, the kill timer, the timer that `ws` itself
keeps on a closing handshake which the proxy did not begin, and the fact that a
destroyed socket emits 'close', each after the turn that accepts a client if that turn is
running; peers are obliged to nothing. UsageBuffer: the flush
interval, the pool and query completion. Gateway: lookups, Redis commands and
upstreams answer or time out - the Redis client sets no `commandTimeout`
(`server.ts:151`), so for it this rests on the loss of the connection, which
`LoseConnection` models and ioredis turns into an error; clients are not obliged to send anything and
configs not to change. Migrations: statements complete; nobody is obliged to
start or restart a process. HotReload: the event loop delivers signals, and the file
events that fs.watch has not lost.

## Proofs

TLAPS checks every invariant and action property of the passing runs, and the
four refinements, for any number of targets, calls, requests, connections and
records and any thresholds:

* **UpstreamProofs.** `TypeCorrect`, then `BreakersConsistent`: each method of
  the class keeps the three fields of one breaker in agreement
  (`MethodsConsistent`), so no order of results, probes and ticks breaks it. It is
  inductive only with what the code does and its comment denies (`FailedTrialResets`,
  above): outside the closed state the count is never below the threshold.
  `TrialsOwned` assumes distinct URLs and calls that all report their result -
  without either it is false (duplicate URLs above, `Upstream_stuck`); its
  invariant is inductive together with the first two, because a report settles
  the trial of exactly the target it names. `ContractKept` shows that `Upstream`
  refines `BreakerContract`: initial states map to initial states and every
  action to a step or a stutter, from type correctness, consistency and distinct
  URLs.
* **UpstreamProofs**, second part: facts about history. `ResendIsBounded`: in every
  phase the number of times a call was sent is determined by its attempt
  (`Counted`), and attempts stop at `MaxAttempts`. `BypassIsBounded`: a target
  that is passed over comes closer to the cursor with every pick
  (`PickApproaches`), so the picks that passed it plus the steps of the search
  still to go never exceed `N - 1` (`PassedOver`); whatever happens to the other
  targets meanwhile does not matter.
* **GatewayProofs.** `QuotaIsHeld` is not inductive: the invariant counts. The
  grants still remembered for a key are at most what its counter says, and the
  counter at most any bound that all configs keep (`Counted`); commands that
  were executed and not answered only make the counter larger. `PolicyIsHeld`
  needs what a request is while it waits (`Sound`, `Placed`): at the gate its
  keys are those waiting, granting and refusing, so an empty wait without
  refusals means that all have granted. `AnswersAreShared`: the
  header of an answer is that of a route of its id in the config of that moment
  (`HeaderShares`), which is one of the configs it has met; later reloads only add to
  those, so who was allowed stays so (`SharedSame`). `PreflightsAgree`
  follows a preflight from its arrival to its answer (`StepKinds`): it is
  answered by the first route of its path, and that route is also the first to take the
  announced method, if it takes it at all (`SameRoute`, on the least element
  of the two sets of matches). The exception stands in the property (`AcceptsAsked`)
  and the theorem assumes nothing of configs or requests.
* **WebSocketProofs.** One invariant, `Good`, for each connection by phase:
  nothing has happened before the upstream opens (`Fresh`), what was early is
  held in order (`Early`, `Handed`), a bridge counts its closed sides, closes or
  kills what is left, and has relayed a prefix both ways (`Joined`). Slots, bounded closing
  and order of messages follow for any number of connections and messages.
  `TunnelKept` shows that the proxy refines `TunnelContract`. A side that
  ends by itself cuts the tunnel without any listener of the proxy (`EndCuts`): `flows`
  of the contract is that both sides are open, and no action opens a side
  of a bridge again, so it is lost in one step and never regained. Each action then is a message said or asked, the
  link, a cut (of one connection, or of all with a slot at the shutdown), a slot
  freed, or a stutter (`TunnelStep`).
* **HotReloadProofs.** `IntervalsAreExact` assumes distinct ids (it is
  false without, see above); its invariant ties generations to events
  (`gen + Unhandled <= events`), so that no interval of a new state can be one
  of an old.
* **UsageBufferProofs.** Every record pushed is in one of four places (`Placed`)
  and in one batch (`OneBatch`), hence never written twice. `ShutdownKeepsAll`
  needs `LastIsLast`: the queue is first come, first served and nothing is
  pushed after `close()`, so once the batch it awaits is settled, all are.
  `LedgerKept` shows that buffer and pool refine `UsageLedger`: what is in the buffer,
  the queue or a connection is what the ledger keeps. A flush moves records between
  these and is a stutter (`FlushKeeps`); a batch leaves in one step, which takes from
  what is kept exactly its own records (`FinishReleases`), as no other batch has
  them (`OneBatch`), and it is never larger than `maxBatchSize` (`SmallInvariance`).
* **MigrationsProofs.** Who is about to commit a file is alone with it
  (`OnlyOne`, from the locks of Postgres), and who is past a file has seen it
  recorded (`Passed`); application once, order and complete schemas follow for
  any number of processes, files and crashes. `SchemaKept` shows from the same
  invariant that `Migrations` refines `SchemaContract`: a commit is the upgrade by
  the next file, coming to serve and dying are starts and stops, and all else
  leaves the database as it is.
* **ApiKeyAuthProofs.** The bounds on acceptance and rejection are not inductive:
  they say nothing of an entry before it is read. `StalenessInv` adds that the
  time since the key changed plus the life an entry has left never exceeds
  `CacheTTL + MaxDelay`, and that a lookup on its way to Redis is as old as what
  it carries. It is preserved by every action (`StalenessInductive`), and with
  the origin of each verdict (`VerdictOrigin`) it yields `AcceptanceIsBounded`
  and `RejectionIsBounded`. `RevocationHolds` needs `RevokedInv`: once DELETE has
  answered 204 and unless a lookup was racing, the row is revoked, no positive
  entry is left and no lookup carries one.
* **StoreProofs**, cache. `FreshHits`: the content of an entry has been outdated
  for at most the part of its lifetime it has used up plus `MaxDelay`, that of a
  body about to be stored for at most its age (`FreshInv`). `PurgeLeavesNothing`:
  the keys the scan has still to visit hold every entry older than the purge
  (`PurgeInv`).
* **StoreProofs**, rate limiter. For each algorithm: the states it keeps and what a
  call finds in one (`StateOf`, `CountAt`, `TokensAt`, ...), and what a call does in
  these terms (`FixedWindowMeans`, ...). `RateTypeCorrect` bounds counts, levels and logs.
  `WaitingSuffices` follows a refused call to the state it finds after the wait
  (`HintWorks`), or to an expired key (`NewAdmits`); it holds for any skew. The script's
  log names the lowest timestamp, which need not be the first written
  (`EarliestIs`): by then that entry at least has left (`OneLeaves`). Apart from
  the hint the script decides as the function does (`ScriptAgrees`).
  `StoresAlike` shows that what Redis drops decides nothing: nothing in a state is
  later than the clock (`Past`), and at the end of its lifetime a state is `Idle`,
  which no call can tell from none (`IdleIsNew`). `TrafficIsBounded` needs to know how much
  was admitted since every tick, not only in the stretches it bounds: `Spent`
  says that the state accounts for it - by its two windows' counts, by the tokens
  gone, the level left, or the log's entries from then on - and is kept by
  calls (`SpentByCall`) and ticks (`SpentLater`). Skews never change, so both
  theorems follow the clocks that agree, be they ahead of Redis or not
  (`SpentInvariant`), apart from those that differ. Of the five algorithms
  only the log keeps a bound then: a clock that is ahead lets it forget an entry
  too early, by no more than the skew (`LogInv`: whoever asks, the entries younger
  than a window less the skew are all in the log), so `WithinBound` gives it
  the stretch that is left. The others start a new window, refill or leak by the
  jump of the clock (`WithinBoundAnyClock`, above).
  `BucketsAlike` shows why the leaky bucket does not smooth (`LeakySmooths`, above):
  it is the token bucket counted from the other end (`Mirror`), call by call.

The assumptions are the named `ASSUME`s of the modules: numbers are naturals,
positive where the schema demands it. The type invariants of `WebSocket` and
`UsageBuffer` are proved only: their runs check the refinements instead, whose
proofs rest on them.

The sum and the filter over a log are recursive functions (`CostOf`, `Alive`). The
library's induction theorems take an operator, which the provers cannot
instantiate; `StoreProofs` derives an induction over sets of naturals from
their well-foundedness instead (`LeastNatural`, `Induct`, `InductSeq`), and with it
what the two functions do to a log that grows (`CostOfAppend`, `AliveAppend`,
`AliveTwice`, `OneLeaves`).

Only model-checked: the liveness properties (`Recovers`, `ClosesTogether`,
`EventuallySettled`, `SomeoneServes`, `Converges`, `EveryRequestAnswered`), as
fairness and ENABLED are out of this prover's reach. What the operators of `Routing` compute is
used as it stands; that a rewritten path is absolute is part of `TypeCorrect` of
`GatewayProofs`.

## Not modelled

* JWT verification: a call of the jose library; the handler sees it as a lookup
  that succeeds, fails or throws, which is in `Gateway`.
* Metrics other than the count of requests, logging, redaction: nothing reads
  them back. The gauges of open connections and breaker states follow
  state that is modelled.
* Header transforms, the CORS headers besides Allow-Origin, error bodies: texts
  of constants. `normalizeHost` and the parsing of tokens: hosts and keys are
  given as the values they denote.
* The rate-limit response headers. The counters behind a WebSocket's message
  rate, full buffer, ping and idle timeout: what they lead to is an action of
  `WebSocket`, when they do is left open.
* The framework adapters: one call of a modelled store each.
* Creation and listing of tenants, plans and keys: single statements whose
  atomicity is Postgres' own. The validation of fields by zod.
* Double-precision rounding in the rate limiters.
* The internals of Redis, Postgres, `ws`, undici, Fastify beyond what the sources
  rely on (definitions marked external).

## Plan

Done, in this order: breaker and balancer, authentication, WebSocket, rate
limits, cache, usage, migrations, reload, routing and the request handler with its
gate; proofs of every safety property of the passing runs; the contracts of the
bridge and of the usage buffer and their refinement; rate limits under clocks
that differ. What would come next:

1. A reload that changes a route's algorithm while Redis holds a record of the
   old one, of another type: every `consume` fails until the key expires.
2. The counters behind a WebSocket's idle timeout and heartbeat, so that `DeadPeer`
   and `GatewayCloses` come when they do and not at any time.
3. Several keys per client in `ApiKeyAuth`, for the verdicts that share a tenant.
