--------------------------- MODULE RateAlgorithms ---------------------------
(***************************************************************************)
(* The five rate-limiting algorithms (core/src/ratelimit/algorithms/*.ts   *)
(* and, with the same arithmetic, core/src/ratelimit/lua/*.lua; the two    *)
(* logs differ in which of their entries they call the oldest).            *)
(* Each takes a key's state, the caller's clock and a cost, and returns    *)
(* the next state and the decision.                                        *)
(*                                                                         *)
(* Time is in ticks.  Tokens and levels are counted in 1/Window of a       *)
(* token, so that the rate limit/windowMs is exactly Limit units a tick    *)
(* and every quantity is an integer; the code uses doubles.                *)
(*                                                                         *)
(* An absent key is represented by the state that behaves the same.        *)
(***************************************************************************)
EXTENDS Integers, Sequences

CONSTANTS
    Limit,      \* policy.limit
    Window,     \* policy.windowMs, in ticks
    Capacity    \* policy.burst ?? policy.limit

ASSUME RateAssumption ==
    /\ Limit \in Nat \ {0}
    /\ Window \in Nat \ {0}
    /\ Capacity \in Nat \ {0}

AtLeast0(n) == IF n < 0 THEN 0 ELSE n
AtMost(max, n) == IF n > max THEN max ELSE n
CeilDiv(n, d) == (n + d - 1) \div d
WindowStart(now) == (now \div Window) * Window

Decision(state, ok, wait) ==
    [state |-> state, allowed |-> ok, retryAfter |-> IF ok THEN 0 ELSE wait]

-----------------------------------------------------------------------------

NewFixedWindow == [start |-> 0, count |-> 0]

FixedWindow(s, now, cost) ==
    LET start == WindowStart(now)
        count == IF s.start = start THEN s.count ELSE 0
        ok    == count + cost <= Limit
    IN  Decision([start |-> start, count |-> IF ok THEN count + cost ELSE count],
                 ok, start + Window - now)

-----------------------------------------------------------------------------

NewTokenBucket == [tokens |-> Capacity * Window, last |-> 0]

TokenBucketKeepsClock(s, now, cost) ==  \* faulty: a rejection leaves lastRefillMs
    LET available == AtMost(Capacity * Window, s.tokens + AtLeast0(now - s.last) * Limit)
        ok        == available >= cost * Window
    IN  Decision([tokens |-> IF ok THEN available - cost * Window ELSE available,
                  last |-> IF ok THEN now ELSE s.last],
                 ok, CeilDiv(cost * Window - available, Limit))

TokenBucket(s, now, cost) ==
    LET available == AtMost(Capacity * Window, s.tokens + AtLeast0(now - s.last) * Limit)
        ok        == available >= cost * Window
    IN  Decision([tokens |-> IF ok THEN available - cost * Window ELSE available,
                  last |-> now],
                 ok, CeilDiv(cost * Window - available, Limit))

-----------------------------------------------------------------------------

NewLeakyBucket == [level |-> 0, last |-> 0]

LeakyBucketStrict(s, now, cost) ==      \* faulty: < for <=
    LET level == AtLeast0(s.level - AtLeast0(now - s.last) * Limit)
        ok    == level + cost * Window < Capacity * Window
    IN  Decision([level |-> IF ok THEN level + cost * Window ELSE level, last |-> now],
                 ok, CeilDiv(level + cost * Window - Capacity * Window, Limit))

LeakyBucket(s, now, cost) ==
    LET level == AtLeast0(s.level - AtLeast0(now - s.last) * Limit)
        ok    == level + cost * Window <= Capacity * Window
    IN  Decision([level |-> IF ok THEN level + cost * Window ELSE level, last |-> now],
                 ok, CeilDiv(level + cost * Window - Capacity * Window, Limit))

-----------------------------------------------------------------------------

\* Entries are <<timestamp, cost>>, in the order they were added.
NewSlidingWindowLog == << >>

CostOf(entries) ==
    LET sum[i \in 0 .. Len(entries)] == IF i = 0 THEN 0 ELSE sum[i - 1] + entries[i][2]
    IN  sum[Len(entries)]

\* entries.filter((e) => e.timestamp > since)
Alive(entries, since) ==
    LET kept[i \in 0 .. Len(entries)] ==
            IF i = 0 THEN << >>
            ELSE IF entries[i][1] > since THEN Append(kept[i - 1], entries[i])
            ELSE kept[i - 1]
    IN  kept[Len(entries)]

LogDecision(alive, now, cost, oldest) ==
    LET ok == CostOf(alive) + cost <= Limit
    IN  Decision(IF ok THEN Append(alive, <<now, cost>>) ELSE alive,
                 ok, oldest + Window - now)

SlidingWindowLog(s, now, cost) ==
    LET alive == Alive(s, now - Window)
    IN  LogDecision(alive, now, cost, IF alive = << >> THEN now ELSE alive[1][1])

\* The script keeps the entries in a sorted set, which ZRANGE lists by
\* timestamp: its oldest entry is the earliest, not the one added first.
Earliest(entries) ==
    LET times == {entries[i][1] : i \in DOMAIN entries}
    IN  CHOOSE t \in times : \A u \in times : t <= u

SlidingWindowLogScript(s, now, cost) ==
    LET alive == Alive(s, now - Window)
    IN  LogDecision(alive, now, cost, IF alive = << >> THEN now ELSE Earliest(alive))

-----------------------------------------------------------------------------

NewSlidingWindowCounter == [start |-> 0, previous |-> 0, current |-> 0]

\* carryForward
CarryForward(s, start) ==
    IF s.start = start THEN s
    ELSE [start |-> start, current |-> 0,
          previous |-> IF s.start = start - Window THEN s.current ELSE 0]

SlidingWindowCounter(s, now, cost) ==
    LET start    == WindowStart(now)
        c        == CarryForward(s, start)
        estimate == c.previous * (Window - (now - start)) + c.current * Window
        ok       == estimate + cost * Window <= Limit * Window
    IN  Decision([c EXCEPT !.current = IF ok THEN @ + cost ELSE @],
                 ok, CeilDiv(estimate + cost * Window - Limit * Window, Limit))

=============================================================================
