------------------------------ MODULE Upstream ------------------------------
(***************************************************************************)
(* One route's upstream side: the balancer (gateway/src/proxy/balancer.ts),*)
(* its per-target circuit breakers and health probes, and the calls that   *)
(* go through it -- forwardWithRetry (proxy/retry.ts) for HTTP requests,   *)
(* proxyWebSocket (websocket/proxy.ts) for handshakes.                     *)
(*                                                                         *)
(* Node runs one callback at a time, so everything between two awaits is   *)
(* one action: picking a target and sending to it, or a result coming back *)
(* and its report to the breaker.  What interleaves is the calls.          *)
(***************************************************************************)
EXTENDS CircuitBreaker

CONSTANTS
    N,            \* number of entries in route.upstream.targets
    Url,          \* the URL of each entry; the schema allows repeated ones
    HasBreaker,   \* route.circuitBreaker is configured
    HealthCheck,  \* route.upstream.healthCheck is configured
    Clients,      \* the calls that may be in progress at once
    Kind,         \* what each client sends, see Kinds
    Attempts,     \* route.retry.attempts
    MaxProbes     \* bound: probes of one target outstanding at once

Target == 0 .. N - 1

\* "retryable": GET/HEAD/PUT/DELETE on a route with retry, body buffered first.
\* "streamed": any other HTTP request, its body piped through limitBodySize.
\* "handshake": a WebSocket upgrade.
Kinds == {"retryable", "streamed", "handshake"}

ASSUME UpstreamAssumption ==
    /\ N \in Nat \ {0}
    /\ Url \in [Target -> Target]
    /\ HasBreaker \in BOOLEAN
    /\ HealthCheck \in BOOLEAN
    /\ Kind \in [Clients -> Kinds]
    /\ Attempts \in Nat
    /\ MaxProbes \in Nat \ {0}

VARIABLES
    breaker,      \* TargetState.breaker of each target
    healthy,      \* TargetState.healthy of each target
    cursor,       \* index at which the next round-robin search starts
    probes,       \* probes of each target that have not been answered
    client        \* progress of each call

vars == <<breaker, healthy, cursor, probes, client>>

\* idle: no call.  ready: forwardWithRetry has been entered (a retryable body
\* is being buffered).  inflight: sent to `target`, result awaited.  backoff:
\* asleep between two attempts.
ClientState ==
    [phase : {"idle", "ready", "inflight", "backoff"},
     target : Target, attempt : 1 .. Attempts + 1]

NoCall == [phase |-> "idle", target |-> 0, attempt |-> 1]

MaxAttempts(c) == IF Kind[c] = "retryable" THEN Attempts + 1 ELSE 1

Init ==
    /\ breaker = [t \in Target |-> NewBreaker]
    /\ healthy = [t \in Target |-> TRUE]
    /\ cursor = 0
    /\ probes = [t \in Target |-> IF HealthCheck THEN 1 ELSE 0]
    /\ client = [c \in Clients |-> NoCall]

-----------------------------------------------------------------------------
(* pickTarget *)

Available(t) == healthy[t] /\ (HasBreaker => Admits(breaker[t]))

\* How many steps from the cursor the search reaches index t.
Distance(t) == IF t >= cursor THEN t - cursor ELSE t + N - cursor

Picks(t) ==
    /\ Available(t)
    /\ \A u \in Target : Available(u) => Distance(t) <= Distance(u)

AdvanceStays(t) == cursor' = t                  \* faulty: the picked one is next again
AdvancePastEnd(t) == cursor' = t + 1            \* faulty: does not wrap around

Advance(t) == cursor' = (t + 1) % N

\* The pick and everything up to the await: canRequest's transition, the
\* cursor, and the request on its way.
Send(c, t) ==
    /\ Picks(t)
    /\ breaker' = IF HasBreaker THEN [breaker EXCEPT ![t] = Admit(@)]
                                ELSE breaker
    /\ Advance(t)
    /\ client' = [client EXCEPT ![c].phase = "inflight", ![c].target = t]
    /\ UNCHANGED <<healthy, probes>>

(* reportSuccess, reportFailure: targets.find((target) => target.url === url) *)

FoundBy(t) == CHOOSE u \in Target :
    Url[u] = Url[t] /\ \A v \in Target : Url[v] = Url[t] => u <= v

ReportSuccess(t) ==
    breaker' = IF HasBreaker
               THEN [breaker EXCEPT ![FoundBy(t)] = RecordSuccess(@)]
               ELSE breaker

ReportFailure(t) ==
    breaker' = IF HasBreaker
               THEN [breaker EXCEPT ![FoundBy(t)] = RecordFailure(@)]
               ELSE breaker

-----------------------------------------------------------------------------
(* The calls *)

Finish(c) == client' = [client EXCEPT ![c] = NoCall]

Arrive(c) ==
    /\ client[c].phase = "idle"
    /\ client' = [client EXCEPT ![c].phase = "ready"]
    /\ UNCHANGED <<breaker, healthy, cursor, probes>>

\* bufferStream rejects with BodyTooLargeError: 413 before any target is asked.
BufferTooLarge(c) ==
    /\ client[c].phase = "ready" /\ Kind[c] = "retryable"
    /\ Finish(c)
    /\ UNCHANGED <<breaker, healthy, cursor, probes>>

\* One turn of the retry loop.
Attempt(c) ==
    /\ client[c].phase \in {"ready", "backoff"}
    /\ \/ \E t \in Target : Send(c, t)
       \/ /\ \A t \in Target : ~Available(t)         \* NoHealthyTargetError
          /\ Finish(c)
          /\ UNCHANGED <<breaker, healthy, cursor, probes>>

\* The upstream answers below 500 (a handshake: accepted, or refused below
\* 500), which ends the call.
AnswerWell(c) ==
    /\ client[c].phase = "inflight"
    /\ ReportSuccess(client[c].target)
    /\ Finish(c)
    /\ UNCHANGED <<healthy, cursor, probes>>

\* The upstream answers with a 5xx: a failure for the breaker, passed through
\* to the client and never retried.
AnswerBadly(c) ==
    /\ client[c].phase = "inflight"
    /\ ReportFailure(client[c].target)
    /\ Finish(c)
    /\ UNCHANGED <<healthy, cursor, probes>>

FailOffByOne(c) ==              \* faulty: attempt <= maxAttempts
    /\ client[c].phase = "inflight"
    /\ ReportFailure(client[c].target)
    /\ IF client[c].attempt <= MaxAttempts(c)
       THEN client' = [client EXCEPT ![c].phase = "backoff",
                                     ![c].attempt = @ + 1]
       ELSE Finish(c)
    /\ UNCHANGED <<healthy, cursor, probes>>

FailUnreported(c) ==            \* faulty: a connection error is not reported
    /\ client[c].phase = "inflight"
    /\ Finish(c)
    /\ UNCHANGED <<breaker, healthy, cursor, probes>>

\* Connection error or timeout (for a handshake also a bad sub-protocol).
Fail(c) ==
    /\ client[c].phase = "inflight"
    /\ ReportFailure(client[c].target)
    /\ IF client[c].attempt < MaxAttempts(c)
       THEN client' = [client EXCEPT ![c].phase = "backoff",
                                     ![c].attempt = @ + 1]
       ELSE Finish(c)
    /\ UNCHANGED <<healthy, cursor, probes>>

\* The call ends while the target is still trying, and nothing is reported: a
\* streamed body crossed maxBodyBytes (BodyTooLargeError is rethrown before
\* reportFailure), or the client of a handshake hung up (ClientAbortedError).
Abandon(c) ==
    /\ client[c].phase = "inflight"
    /\ Kind[c] \in {"streamed", "handshake"}
    /\ Finish(c)
    /\ UNCHANGED <<breaker, healthy, cursor, probes>>

-----------------------------------------------------------------------------
(* Health probes and time *)

StartProbes ==
    /\ HealthCheck
    /\ \A t \in Target : probes[t] < MaxProbes
    /\ probes' = [t \in Target |-> probes[t] + 1]
    /\ UNCHANGED <<breaker, healthy, cursor, client>>

EndProbe(t, ok) ==
    /\ probes[t] > 0
    /\ probes' = [probes EXCEPT ![t] = @ - 1]
    /\ healthy' = [healthy EXCEPT ![t] = ok]
    /\ UNCHANGED <<breaker, cursor, client>>

Tick ==
    /\ breaker' = [t \in Target |-> Age(breaker[t])]
    /\ UNCHANGED <<healthy, cursor, probes, client>>

-----------------------------------------------------------------------------

Next ==
    \/ \E c \in Clients :
          \/ Arrive(c) \/ BufferTooLarge(c) \/ Attempt(c)
          \/ AnswerWell(c) \/ AnswerBadly(c) \/ Fail(c) \/ Abandon(c)
    \/ StartProbes
    \/ \E t \in Target, ok \in BOOLEAN : EndProbe(t, ok)
    \/ Tick

Spec == Init /\ [][Next]_vars

=============================================================================
