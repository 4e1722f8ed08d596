--------------------------- MODULE CircuitBreaker ---------------------------
(***************************************************************************)
(* packages/core/src/breaker/circuitBreaker.ts: the class CircuitBreaker   *)
(* as operators on a record.  The balancer keeps one per upstream target.  *)
(*                                                                         *)
(* Two fields are kept in a finite form that loses nothing the class can   *)
(* observe:                                                                *)
(*   sinceOpened  stands for  now - openedAt  and saturates at             *)
(*                ResetTimeout (canRequest only asks whether it is reached)*)
(*   failures     is consecutiveFailures, saturated at FailureThreshold    *)
(*                (recordFailure only asks whether it is reached).         *)
(***************************************************************************)
EXTENDS Integers

CONSTANTS
    FailureThreshold,   \* options.failureThreshold
    ResetTimeout        \* options.resetTimeoutMs, in ticks of the clock

\* config/schema.ts: both are z.number().int().positive()
ASSUME BreakerAssumption ==
    /\ FailureThreshold \in Nat \ {0}
    /\ ResetTimeout \in Nat \ {0}

Breaker ==
    [ state       : {"closed", "open", "half-open"},
      failures    : 0 .. FailureThreshold,
      sinceOpened : 0 .. ResetTimeout,
      trial       : BOOLEAN ]

NewBreaker ==
    [state |-> "closed", failures |-> 0, sinceOpened |-> 0, trial |-> FALSE]

-----------------------------------------------------------------------------
\* Faulty variants, each a plausible slip in the method below it.

AdmitsTwice(b) ==               \* forgets that a trial is already out
    \/ b.state = "closed"
    \/ b.state = "half-open"
    \/ b.state = "open" /\ b.sinceOpened >= ResetTimeout

SuccessKeepsCount(b) ==         \* forgets consecutiveFailures = 0
    [b EXCEPT !.state = "closed", !.trial = FALSE]

FailureKeepsTrial(b) ==         \* a failed trial leaves the breaker half-open
    IF b.state = "half-open" THEN b
    ELSE IF b.failures + 1 >= FailureThreshold
         THEN [b EXCEPT !.state = "open", !.failures = FailureThreshold,
                        !.sinceOpened = 0]
         ELSE [b EXCEPT !.failures = @ + 1]

-----------------------------------------------------------------------------

\* canRequest() returns true: closed, or open for long enough, or half-open
\* with its single trial not yet given away.
Admits(b) ==
    \/ b.state = "closed"
    \/ b.state = "open" /\ b.sinceOpened >= ResetTimeout
    \/ b.state = "half-open" /\ ~b.trial

\* What canRequest() leaves behind when it returns true.  (When it returns
\* false nothing changes.)
Admit(b) ==
    IF b.state = "closed" THEN b
    ELSE [b EXCEPT !.state = "half-open", !.trial = TRUE]

RecordSuccess(b) ==
    [b EXCEPT !.state = "closed", !.failures = 0, !.trial = FALSE]

\* recordFailure(): any failure clears the trial; in half-open it reopens at
\* once, otherwise it counts and may open -- also when already open, which
\* restarts the reset timeout.
RecordFailure(b) ==
    LET released == [b EXCEPT !.trial = FALSE]
        opened   == [released EXCEPT !.state = "open", !.sinceOpened = 0]
    IN  IF b.state = "half-open" THEN opened
        ELSE IF b.failures + 1 >= FailureThreshold
             THEN [opened EXCEPT !.failures = FailureThreshold]
             ELSE [released EXCEPT !.failures = @ + 1]

\* One tick of the clock.  openedAt is only read while the circuit is open.
Age(b) ==
    IF b.state = "open" /\ b.sinceOpened < ResetTimeout
    THEN [b EXCEPT !.sinceOpened = @ + 1]
    ELSE b

=============================================================================
