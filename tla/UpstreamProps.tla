---------------------------- MODULE UpstreamProps ----------------------------
(***************************************************************************)
(* The properties of Upstream, the fairness the gateway's timers and       *)
(* timeouts give it, and the abstract contract it implements.              *)
(***************************************************************************)
EXTENDS Upstream

-----------------------------------------------------------------------------
(* State invariants *)

TypeOK ==
    /\ breaker \in [Target -> Breaker]
    /\ healthy \in [Target -> BOOLEAN]
    /\ cursor \in Target
    /\ probes \in [Target -> 0 .. MaxProbes]
    /\ client \in [Clients -> ClientState]

\* The three breaker fields never disagree: a closed circuit has not counted
\* enough failures to open, the trial flag is up exactly while it is half-open,
\* and half-open is only reached through a full ResetTimeout.  The flag and the
\* count are written by five different branches of the class, on results that
\* arrive in any order.
BreakerConsistent ==
    \A t \in Target : LET b == breaker[t] IN
        /\ b.state = "closed" => b.failures < FailureThreshold
        /\ b.state = "half-open" <=> b.trial
        /\ b.state = "half-open" => b.sinceOpened = ResetTimeout

\* circuitBreaker.ts:13 ("half-open -> error -> open (counter is reset)"): a
\* failed trial leaves no failures counted.
\* (The code does not keep this: see README.md.)
FailedTrialResets ==
    [][\A t \in Target :
          breaker[t].state = "half-open" /\ breaker'[t].state = "open"
              => breaker'[t].failures = 0]_vars

\* packages/core/README.md:122-124: an open circuit refuses for resetTimeoutMs,
\* then allows a trial; only if that fails is it open for as long again.
\* (The code does not keep this: see README.md.)
OpenForOneTimeout ==
    [][\A t \in Target :
          breaker[t].state = "open" /\ breaker'[t].state = "open"
              => breaker'[t].sinceOpened >= breaker[t].sinceOpened]_vars

\* A half-open target always has a call out whose report will take it out of
\* half-open again; otherwise canRequest() refuses the target for ever.  (Holds
\* only where no trial is abandoned silently: see KeptSpec.)
TrialHasOwner ==
    \A t \in Target : breaker[t].state = "half-open" =>
        \E c \in Clients : client[c].phase = "inflight" /\ client[c].target = t

-----------------------------------------------------------------------------
(* Fairness and liveness *)

\* headersTimeout, handshakeTimeout and undici's connect timeout end every
\* call and probe; sleep() ends every backoff; setInterval keeps probing.
Fairness ==
    /\ \A c \in Clients :
          /\ WF_vars(Attempt(c))
          /\ WF_vars(AnswerWell(c) \/ AnswerBadly(c) \/ Fail(c))
    /\ \A t \in Target : WF_vars(\E ok \in BOOLEAN : EndProbe(t, ok))
    /\ WF_vars(StartProbes)
    /\ WF_vars(Tick)

FairSpec == Spec /\ Fairness

Trouble ==
    \/ \E c \in Clients : AnswerBadly(c) \/ Fail(c)
    \/ \E t \in Target : EndProbe(t, FALSE)

\* README.md:514-519: a target is "back in [rotation] once it recovers".  If
\* from some time on no upstream fails any more and calls keep coming, every
\* target is eventually back in rotation for good.  (Under KeptSpec; the code
\* does not keep this under FairSpec: see README.md.)
Recovers ==
    /\ <>[][~Trouble]_vars
    /\ []<><<\E c \in Clients : Attempt(c)>>_vars
    => <>[](\A t \in Target : breaker[t].state = "closed" /\ healthy[t])

\* The runs in which no call is dropped without a report while its target
\* waits for the result of a trial.
TrialDropped ==
    \E c \in Clients : Abandon(c) /\ breaker[client[c].target].state = "half-open"

KeptSpec == Init /\ [][Next /\ ~TrialDropped]_vars /\ Fairness

-----------------------------------------------------------------------------
(* Refinement *)

DistinctUrls == \A t, u \in Target : Url[t] = Url[u] => t = u

Contract == INSTANCE BreakerContract WITH
    streak <- [t \in Target |-> breaker[t].failures],
    quiet <- [t \in Target |-> IF breaker[t].state = "closed" THEN 0
                               ELSE breaker[t].sinceOpened],
    trying <- [t \in Target |-> breaker[t].trial],
    using <- [t \in Target |-> {c \in Clients : client[c].phase = "inflight"
                                                /\ client[c].target = t}]

\* With a breaker and distinct URLs, the balancer keeps the contract, whatever
\* the cursor, the probes and the retries do.
KeepsContract == Contract!Spec

=============================================================================
