--------------------------- MODULE RateLimitProps ---------------------------
(* The properties of RateLimit. *)
EXTENDS RateLimit

\* The gateways' clocks agree with each other, if not with that of Redis.
SameClock == \A i, j \in Instances : skew[i] = skew[j]

\* Total cost admitted from tick s to tick t.
Admitted(s, t) == admitted[t] - (IF s = 0 THEN 0 ELSE admitted[s - 1])

\* What each algorithm lets through, in Window-ths, over d ticks in a row: a
\* fixed window twice its limit across a boundary and no more, a bucket its
\* capacity and what flows meanwhile, the log never more than its limit, and
\* the weighted counter less than twice its limit.
Bound(d) ==
    CASE algorithm = "fixedWindow" -> 2 * Limit * Window
      [] algorithm \in {"tokenBucket", "leakyBucket"} -> Capacity * Window + (d - 1) * Limit
      [] algorithm = "slidingWindowLog" -> Limit * Window
      [] algorithm = "slidingWindowCounter" -> (2 * Limit - 1) * Window

\* No traffic, however it is timed, gets more than the algorithm's bound in
\* any stretch of up to Window ticks (packages/core/README.md:173-199), if the
\* instances' clocks agree.  If they do not, only the log keeps a bound: a clock
\* that is ahead makes it forget too early, but by no more than it is ahead.
WithinBound ==
    SameClock \/ algorithm = "slidingWindowLog" =>
        \A d \in 1 .. Window - (IF SameClock THEN 0 ELSE MaxSkew) : now + 1 >= d =>
            Admitted(now + 1 - d, now) * Window <= Bound(d)

\* packages/core/README.md:31-32 ("safe across instances"), whatever the clocks.
\* (The code does not keep this: see README.md.)
WithinBoundAnyClock ==
    \A d \in 1 .. Window - MaxSkew : now + 1 >= d =>
        Admitted(now + 1 - d, now) * Window <= Bound(d)

\* Redis forgets a key only when that changes nothing: as long as the clocks
\* agree, the two stores answer every call alike.
StoresAgree == SameClock => last.redis = last.memory

HintSuffices ==
    ~last.redis /\ last.cost <= AtMost(Capacity, Limit) =>
        Script(algorithm, redis, last.clock + last.retryAfter, last.cost).allowed

\* A caller that is refused, waits for retryAfterMs and finds that nobody else
\* has called meanwhile is admitted, unless it asks for more than can ever fit.
\* The weighted counter only estimates, and the log's hint is the departure of
\* its earliest entry, which makes room for a cost of 1 (see HintAlwaysSuffices).
RetryAfterSuffices ==
    /\ algorithm # "slidingWindowCounter"
    /\ algorithm = "slidingWindowLog" => last.cost = 1
    => HintSuffices

\* gateway/src/ratelimit/index.ts:120 ("Rate limit exceeded. Retry after ...
\* seconds."), whatever the algorithm.
\* (The code does not keep this: see README.md.)
HintAlwaysSuffices == HintSuffices

\* core/src/ratelimit/algorithms/leakyBucket.ts:9 ("smooths the output but does
\* not absorb bursts"), packages/core/README.md:190-191: the leaky bucket's
\* output has a constant rate, at most one token per Window/Limit ticks.
\* (The code does not keep this: see README.md.)
LeakySmooths ==
    \A d \in 1 .. Window : now + 1 >= d =>
        Admitted(now + 1 - d, now) <= CeilDiv(d * Limit, Window)

=============================================================================
