----------------------------- MODULE RateLimit -----------------------------
(***************************************************************************)
(* One rate-limited key: in the Redis store (core/.../stores/redisStore.ts *)
(* and the PEXPIRE of each script in core/.../lua), shared by gateway      *)
(* instances that each pass their own Date.now(), and, side by side on the *)
(* same calls, in the in-process store (stores/memoryStore.ts), which has  *)
(* no expiry.  A script, like the synchronous consume of the in-process    *)
(* store, is atomic.                                                       *)
(***************************************************************************)
EXTENDS RateAlgorithms

CONSTANTS
    Algorithms,  \* the algorithms under check, see AlgorithmName
    Costs,       \* costs that callers pass; the gateway always passes 1
    Instances,   \* the gateway instances that share the key
    MaxSkew,     \* how far an instance's clock may be ahead of Redis, in ticks
    Slack,       \* the 1000 ms the bucket scripts add to PEXPIRE, in ticks
    MaxTime,     \* bound: the clock stops here
    MaxAdmitted  \* bound: calls end when so much may have been admitted

AlgorithmName == {"fixedWindow", "tokenBucket", "leakyBucket",
                  "slidingWindowLog", "slidingWindowCounter"}

ASSUME RateLimitAssumption ==
    /\ Algorithms \subseteq AlgorithmName
    /\ Costs \subseteq Nat \ {0}
    /\ MaxSkew \in Nat
    /\ Slack \in Nat
    /\ MaxTime \in Nat
    /\ MaxAdmitted \in Nat

VARIABLES
    algorithm,   \* the route's rateLimit.algorithm
    skew,        \* how far each instance's clock is ahead of Redis
    now,         \* the clock of Redis
    redis,       \* the key's state in Redis
    ttl,         \* ticks until Redis drops the key; 0: it has none
    memory,      \* the key's state in the in-process store
    admitted,    \* total cost admitted up to the end of each tick
    last         \* the two answers to the last call, and the clock it gave

vars == <<algorithm, skew, now, redis, ttl, memory, admitted, last>>

NewState(a) ==
    CASE a = "fixedWindow"          -> NewFixedWindow
      [] a = "tokenBucket"          -> NewTokenBucket
      [] a = "leakyBucket"          -> NewLeakyBucket
      [] a = "slidingWindowLog"     -> NewSlidingWindowLog
      [] a = "slidingWindowCounter" -> NewSlidingWindowCounter

Apply(a, state, clock, cost) ==
    CASE a = "fixedWindow"          -> FixedWindow(state, clock, cost)
      [] a = "tokenBucket"          -> TokenBucket(state, clock, cost)
      [] a = "leakyBucket"          -> LeakyBucket(state, clock, cost)
      [] a = "slidingWindowLog"     -> SlidingWindowLog(state, clock, cost)
      [] a = "slidingWindowCounter" -> SlidingWindowCounter(state, clock, cost)

\* What the Lua script of the algorithm answers.
Script(a, state, clock, cost) ==
    IF a = "slidingWindowLog" THEN SlidingWindowLogScript(state, clock, cost)
    ELSE Apply(a, state, clock, cost)

LifetimeOneWindow(a) ==         \* faulty: the counter's script keeps one window
    IF a \in {"fixedWindow", "slidingWindowLog", "slidingWindowCounter"} THEN Window
    ELSE CeilDiv(Capacity * Window, Limit) + Slack

\* The PEXPIRE at the end of each script.
Lifetime(a) ==
    CASE a \in {"fixedWindow", "slidingWindowLog"} -> Window
      [] a = "slidingWindowCounter" -> 2 * Window
      [] a \in {"tokenBucket", "leakyBucket"} -> CeilDiv(Capacity * Window, Limit) + Slack

NoCall == [redis |-> TRUE, memory |-> TRUE, retryAfter |-> 0, clock |-> 0, cost |-> 0]

Init ==
    /\ algorithm \in Algorithms
    /\ skew \in [Instances -> 0 .. MaxSkew]
    /\ now = 0
    /\ redis = NewState(algorithm)
    /\ ttl = 0
    /\ memory = NewState(algorithm)
    /\ admitted = [t \in 0 .. MaxTime |-> 0]
    /\ last = NoCall

\* The log's script only renews the expiry when it has added an entry.
Renews(allowed) == algorithm = "slidingWindowLog" => allowed

Consume(i, cost) ==
    LET clock == now + skew[i]
        r     == Script(algorithm, redis, clock, cost)
        m     == Apply(algorithm, memory, clock, cost)
    IN  /\ admitted[MaxTime] + cost <= MaxAdmitted
        /\ redis' = r.state
        /\ ttl' = IF Renews(r.allowed) THEN Lifetime(algorithm) ELSE ttl
        /\ memory' = m.state
        /\ admitted' = [t \in 0 .. MaxTime |->
                           IF r.allowed /\ t >= now THEN admitted[t] + cost ELSE admitted[t]]
        /\ last' = [redis |-> r.allowed, memory |-> m.allowed,
                    retryAfter |-> r.retryAfter, clock |-> clock, cost |-> cost]
        /\ UNCHANGED <<algorithm, skew, now>>

\* reset() of both stores; what was admitted before no longer counts.
Reset ==
    /\ redis' = NewState(algorithm)
    /\ ttl' = 0
    /\ memory' = NewState(algorithm)
    /\ admitted' = [t \in 0 .. MaxTime |-> 0]
    /\ UNCHANGED <<algorithm, skew, now, last>>

\* A tick; Redis drops the key when its time is over.
Tick ==
    /\ now < MaxTime
    /\ now' = now + 1
    /\ ttl' = AtLeast0(ttl - 1)
    /\ redis' = IF ttl = 1 THEN NewState(algorithm) ELSE redis
    /\ UNCHANGED <<algorithm, skew, memory, admitted, last>>

Next == (\E i \in Instances, cost \in Costs : Consume(i, cost)) \/ Reset \/ Tick

Spec == Init /\ [][Next]_vars

=============================================================================
