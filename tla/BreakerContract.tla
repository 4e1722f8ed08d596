--------------------------- MODULE BreakerContract ---------------------------
(***************************************************************************)
(* What a route's breakers promise, without the state enum, the balancer's *)
(* search, health probes or retries: after FailureThreshold failures in a  *)
(* row a target is suspended; a suspended target is left quiet for         *)
(* ResetTimeout after the last failure, then gets one call, and no other   *)
(* until some call on that target is reported.                             *)
(*                                                                         *)
(* Reports are deliberately not tied to the trial: any call still out may  *)
(* report at any time, and its report counts.                              *)
(***************************************************************************)
EXTENDS Integers

CONSTANTS Target, Clients, FailureThreshold, ResetTimeout

VARIABLES
    streak,     \* failures since the last success, up to FailureThreshold
    quiet,      \* time since the last failure of a suspended target
    trying,     \* the one call of a suspended target has been given away
    using       \* the calls each target has not answered

cvars == <<streak, quiet, trying, using>>

Suspended(t) == streak[t] = FailureThreshold

Init ==
    /\ streak = [t \in Target |-> 0]
    /\ quiet = [t \in Target |-> 0]
    /\ trying = [t \in Target |-> FALSE]
    /\ using = [t \in Target |-> {}]

Occupy(c, t) == using' = [using EXCEPT ![t] = @ \cup {c}]
Release(c, t) == c \in using[t] /\ using' = [using EXCEPT ![t] = @ \ {c}]

Call(c, t) ==
    /\ ~Suspended(t)
    /\ Occupy(c, t)
    /\ UNCHANGED <<streak, quiet, trying>>

Try(c, t) ==
    /\ Suspended(t) /\ ~trying[t] /\ quiet[t] = ResetTimeout
    /\ trying' = [trying EXCEPT ![t] = TRUE]
    /\ Occupy(c, t)
    /\ UNCHANGED <<streak, quiet>>

Good(c, t) ==
    /\ Release(c, t)
    /\ streak' = [streak EXCEPT ![t] = 0]
    /\ quiet' = [quiet EXCEPT ![t] = 0]
    /\ trying' = [trying EXCEPT ![t] = FALSE]

Bad(c, t) ==
    /\ Release(c, t)
    /\ streak' = [streak EXCEPT ![t] = IF @ < FailureThreshold THEN @ + 1 ELSE @]
    /\ quiet' = [quiet EXCEPT ![t] = 0]
    /\ trying' = [trying EXCEPT ![t] = FALSE]

GiveUp(c, t) ==
    /\ Release(c, t)
    /\ UNCHANGED <<streak, quiet, trying>>

Elapse ==
    /\ quiet' = [t \in Target |->
                    IF Suspended(t) /\ ~trying[t] /\ quiet[t] < ResetTimeout
                    THEN quiet[t] + 1 ELSE quiet[t]]
    /\ UNCHANGED <<streak, trying, using>>

Next ==
    \/ \E c \in Clients, t \in Target :
          \/ Call(c, t) \/ Try(c, t) \/ Good(c, t) \/ Bad(c, t) \/ GiveUp(c, t)
    \/ Elapse

Spec == Init /\ [][Next]_cvars

=============================================================================
