--------------------------- MODULE UpstreamProofs ---------------------------
(***************************************************************************)
(* Proofs about Upstream and UpstreamHistory: for every number of targets  *)
(* and clients, every threshold, timeout and retry count.                  *)
(***************************************************************************)
EXTENDS UpstreamHistory, TLAPS

-----------------------------------------------------------------------------
(* The breaker's methods *)

\* A breaker's fields agree: what BreakerConsistent says of one breaker, and that
\* nothing but a success takes the count below the threshold again.
Consistent(b) ==
    /\ b.state = "closed" <=> b.failures < FailureThreshold
    /\ b.state = "half-open" <=> b.trial
    /\ b.state = "half-open" => b.sinceOpened = ResetTimeout

\* Every method of the class, and the passing of time, takes a well-formed
\* breaker to a well-formed one.
LEMMA MethodsType ==
    ASSUME NEW b \in Breaker
    PROVE  /\ NewBreaker \in Breaker
           /\ Admit(b) \in Breaker
           /\ RecordSuccess(b) \in Breaker
           /\ RecordFailure(b) \in Breaker
           /\ Age(b) \in Breaker
<1>1. /\ 0 \in 0 .. FailureThreshold /\ 0 \in 0 .. ResetTimeout
      /\ FailureThreshold \in 0 .. FailureThreshold
  BY BreakerAssumption
<1>2. NewBreaker \in Breaker
  BY <1>1 DEF NewBreaker, Breaker
<1>3. Admit(b) \in Breaker
  BY DEF Admit, Breaker
<1>4. RecordSuccess(b) \in Breaker
  BY <1>1 DEF RecordSuccess, Breaker
<1>5. RecordFailure(b) \in Breaker
  <2>1. CASE b.state = "half-open"
    BY <1>1, <2>1 DEF RecordFailure, Breaker
  <2>2. CASE b.state # "half-open" /\ b.failures + 1 >= FailureThreshold
    BY <1>1, <2>2 DEF RecordFailure, Breaker
  <2>3. CASE b.state # "half-open" /\ ~(b.failures + 1 >= FailureThreshold)
    <3>1. b.failures + 1 \in 0 .. FailureThreshold
      BY <2>3, BreakerAssumption DEF Breaker
    <3> QED
      BY <2>3, <3>1 DEF RecordFailure, Breaker
  <2> QED
    BY <2>1, <2>2, <2>3
<1>6. Age(b) \in Breaker
  <2>1. CASE b.state = "open" /\ b.sinceOpened < ResetTimeout
    <3>1. b.sinceOpened + 1 \in 0 .. ResetTimeout
      BY <2>1, BreakerAssumption DEF Breaker
    <3> QED
      BY <2>1, <3>1 DEF Age, Breaker
  <2>2. CASE ~(b.state = "open" /\ b.sinceOpened < ResetTimeout)
    BY <2>2 DEF Age
  <2> QED
    BY <2>1, <2>2
<1> QED
  BY <1>2, <1>3, <1>4, <1>5, <1>6

\* Every method keeps the fields in agreement; admission only when canRequest
\* said yes.
LEMMA MethodsConsistent ==
    ASSUME NEW b \in Breaker, Consistent(b)
    PROVE  /\ Consistent(NewBreaker)
           /\ Admits(b) => Consistent(Admit(b))
           /\ Consistent(RecordSuccess(b))
           /\ Consistent(RecordFailure(b))
           /\ Consistent(Age(b))
BY BreakerAssumption
   DEF Breaker, Consistent, NewBreaker, Admits, Admit, RecordSuccess,
       RecordFailure, Age

-----------------------------------------------------------------------------
(* Type correctness *)

\* Advancing the cursor stays within the targets.
LEMMA CursorWraps ==
    ASSUME NEW t \in Target
    PROVE  (t + 1) % N \in Target
BY UpstreamAssumption DEF Target

\* A report changes only breakers, and keeps them well-formed, whichever
\* entry the URL search finds.
LEMMA ReportType ==
    ASSUME NEW t \in Target, breaker \in [Target -> Breaker],
           ReportSuccess(t) \/ ReportFailure(t)
    PROVE  breaker' \in [Target -> Breaker]
BY MethodsType DEF ReportSuccess, ReportFailure

LEMMA FinishType ==
    ASSUME NEW c \in Clients, client \in [Clients -> ClientState], Finish(c)
    PROVE  client' \in [Clients -> ClientState]
BY UpstreamAssumption DEF Finish, NoCall, ClientState, Target

LEMMA InitTypeOK == Init => TypeOK
<1> SUFFICES ASSUME Init PROVE TypeOK
  OBVIOUS
<1>1. NewBreaker \in Breaker
  BY BreakerAssumption DEF NewBreaker, Breaker
<1>2. NoCall \in ClientState
  BY UpstreamAssumption DEF NoCall, ClientState, Target
<1> QED
  BY <1>1, <1>2, UpstreamAssumption DEF Init, TypeOK, Target

LEMMA NextTypeOK == TypeOK /\ [Next]_vars => TypeOK'
<1> SUFFICES ASSUME TypeOK, [Next]_vars PROVE TypeOK'
  OBVIOUS
<1> USE DEF TypeOK
<1>1. ASSUME NEW c \in Clients, Arrive(c) PROVE TypeOK'
  BY <1>1 DEF Arrive, ClientState
<1>2. ASSUME NEW c \in Clients, BufferTooLarge(c) \/ Abandon(c) PROVE TypeOK'
  BY <1>2, FinishType DEF BufferTooLarge, Abandon
<1>3. ASSUME NEW c \in Clients, Attempt(c) PROVE TypeOK'
  <2>1. CASE \E t \in Target : Send(c, t)
    <3> PICK t \in Target : Send(c, t)
      BY <2>1
    <3>1. breaker' \in [Target -> Breaker]
      BY MethodsType DEF Send
    <3>2. cursor' \in Target
      BY CursorWraps DEF Send, Advance
    <3>3. client' \in [Clients -> ClientState]
      BY DEF Send, ClientState
    <3> QED
      BY <3>1, <3>2, <3>3 DEF Send
  <2>2. CASE ~\E t \in Target : Send(c, t)
    BY <1>3, <2>2, FinishType DEF Attempt
  <2> QED
    BY <2>1, <2>2
<1>4. ASSUME NEW c \in Clients, AnswerWell(c) \/ AnswerBadly(c) PROVE TypeOK'
  <2>1. client[c].target \in Target
    BY DEF ClientState
  <2> QED
    BY <1>4, <2>1, FinishType, ReportType DEF AnswerWell, AnswerBadly
<1>5. ASSUME NEW c \in Clients, Fail(c) PROVE TypeOK'
  <2>1. client[c].target \in Target
    BY DEF ClientState
  <2>2. breaker' \in [Target -> Breaker]
    BY <1>5, <2>1, ReportType DEF Fail
  <2>3. client' \in [Clients -> ClientState]
    <3>1. CASE client[c].attempt < MaxAttempts(c)
      <4>1. client[c].attempt + 1 \in 1 .. Attempts + 1
        BY <3>1, UpstreamAssumption DEF ClientState, MaxAttempts
      <4> QED
        BY <1>5, <3>1, <4>1 DEF Fail, ClientState
    <3>2. CASE ~(client[c].attempt < MaxAttempts(c))
      BY <1>5, <3>2, FinishType DEF Fail
    <3> QED
      BY <3>1, <3>2
  <2> QED
    BY <1>5, <2>2, <2>3 DEF Fail
<1>6. ASSUME StartProbes PROVE TypeOK'
  BY <1>6, UpstreamAssumption DEF StartProbes
<1>7. ASSUME NEW t \in Target, NEW ok \in BOOLEAN, EndProbe(t, ok) PROVE TypeOK'
  BY <1>7, UpstreamAssumption DEF EndProbe
<1>8. ASSUME Tick PROVE TypeOK'
  BY <1>8, MethodsType DEF Tick
<1>9. CASE UNCHANGED vars
  BY <1>9 DEF vars
<1> QED
  BY <1>1, <1>2, <1>3, <1>4, <1>5, <1>6, <1>7, <1>8, <1>9 DEF Next

\* Every variable keeps its type: the cursor stays within the targets, no call
\* exceeds its attempts.
THEOREM TypeCorrect == Spec => []TypeOK
BY InitTypeOK, NextTypeOK, PTL DEF Spec

-----------------------------------------------------------------------------
(* What a step can do to one breaker *)

\* Every step leaves a target's breaker alone, ages it, or applies one method
\* of the class to it, admission only when canRequest() says yes.
LEMMA BreakerStep ==
    ASSUME TypeOK, [Next]_vars, NEW t \in Target
    PROVE  \/ breaker'[t] = breaker[t]
           \/ breaker'[t] = Age(breaker[t])
           \/ Admits(breaker[t]) /\ breaker'[t] = Admit(breaker[t])
           \/ breaker'[t] = RecordSuccess(breaker[t])
           \/ breaker'[t] = RecordFailure(breaker[t])
<1> USE DEF TypeOK
<1>1. ASSUME NEW c \in Clients, Attempt(c)
      PROVE  \/ breaker'[t] = breaker[t]
             \/ Admits(breaker[t]) /\ breaker'[t] = Admit(breaker[t])
  BY <1>1 DEF Attempt, Send, Picks, Available
<1>2. ASSUME NEW u \in Target, ReportSuccess(u)
      PROVE  breaker'[t] = breaker[t] \/ breaker'[t] = RecordSuccess(breaker[t])
  BY <1>2 DEF ReportSuccess
<1>3. ASSUME NEW u \in Target, ReportFailure(u)
      PROVE  breaker'[t] = breaker[t] \/ breaker'[t] = RecordFailure(breaker[t])
  BY <1>3 DEF ReportFailure
<1>4. ASSUME NEW c \in Clients, AnswerWell(c) \/ AnswerBadly(c) \/ Fail(c)
      PROVE  \/ breaker'[t] = breaker[t]
             \/ breaker'[t] = RecordSuccess(breaker[t])
             \/ breaker'[t] = RecordFailure(breaker[t])
  <2>1. client[c].target \in Target
    BY DEF ClientState
  <2> QED
    BY <1>2, <1>3, <1>4, <2>1 DEF AnswerWell, AnswerBadly, Fail
<1>5. ASSUME \/ \E c \in Clients : Arrive(c) \/ BufferTooLarge(c) \/ Abandon(c)
             \/ StartProbes
             \/ \E u \in Target, ok \in BOOLEAN : EndProbe(u, ok)
             \/ UNCHANGED vars
      PROVE  breaker'[t] = breaker[t]
  BY <1>5 DEF Arrive, BufferTooLarge, Abandon, StartProbes, EndProbe, vars
<1>6. ASSUME Tick PROVE breaker'[t] = Age(breaker[t])
  BY <1>6 DEF Tick
<1> QED
  BY <1>1, <1>4, <1>5, <1>6 DEF Next

AllConsistent == \A t \in Target : Consistent(breaker[t])

LEMMA StayConsistent == Spec => []AllConsistent
<1>1. Init => AllConsistent
  BY BreakerAssumption DEF Init, NewBreaker, AllConsistent, Consistent
<1>2. TypeOK /\ AllConsistent /\ [Next]_vars => AllConsistent'
  <2> SUFFICES ASSUME TypeOK, AllConsistent, [Next]_vars, NEW t \in Target
               PROVE  Consistent(breaker'[t])
    BY DEF AllConsistent
  <2>1. breaker[t] \in Breaker /\ Consistent(breaker[t])
    BY DEF TypeOK, AllConsistent
  <2> QED
    BY <2>1, BreakerStep, MethodsConsistent
<1> QED
  BY <1>1, <1>2, TypeCorrect, PTL DEF Spec

\* The three fields of every breaker agree in every reachable state, however
\* late and in whatever order the reports arrive.
THEOREM BreakersConsistent == Spec => []BreakerConsistent
<1>1. AllConsistent => BreakerConsistent
  BY DEF AllConsistent, Consistent, BreakerConsistent
<1> QED
  BY <1>1, StayConsistent, PTL

-----------------------------------------------------------------------------
(* The trial of a half-open target *)

\* A report settles a target: it is not half-open afterwards.
LEMMA ReportSettles ==
    ASSUME NEW b \in Breaker
    PROVE  /\ RecordSuccess(b).state # "half-open"
           /\ RecordFailure(b).state # "half-open"
BY DEF Breaker, RecordSuccess, RecordFailure

\* With distinct URLs a report reaches the target the call was sent to.
LEMMA FoundByItself ==
    ASSUME DistinctUrls, NEW t \in Target
    PROVE  FoundBy(t) = t
<1>1. \A v \in Target : Url[v] = Url[t] => t <= v
  BY UpstreamAssumption DEF DistinctUrls, Target
<1> QED
  BY <1>1 DEF FoundBy, DistinctUrls

\* Where every call reports, a half-open target always has a call out that
\* will settle it: the trial slot is never lost.
THEOREM TrialsOwned ==
    ASSUME HasBreaker, DistinctUrls, \A c \in Clients : Kind[c] = "retryable"
    PROVE  Spec => []TrialHasOwner
<1>1. Init => TrialHasOwner
  BY DEF Init, NewBreaker, TrialHasOwner
<1>2. TypeOK /\ TrialHasOwner /\ [Next]_vars => TrialHasOwner'
  <2> SUFFICES ASSUME TypeOK, TrialHasOwner, [Next]_vars, NEW t \in Target,
                      breaker'[t].state = "half-open"
               PROVE  \E c \in Clients : /\ client'[c].phase = "inflight"
                                         /\ client'[c].target = t
    BY DEF TrialHasOwner
  <2> USE DEF TypeOK
  <2>1. ASSUME NEW c \in Clients, NEW u \in Target, Send(c, u),
               client[c].phase # "inflight"
        PROVE  \E d \in Clients : /\ client'[d].phase = "inflight"
                                  /\ client'[d].target = t
    <3>1. CASE u = t
      BY <2>1, <3>1 DEF Send, ClientState
    <3>2. CASE u # t
      <4>1. breaker'[t] = breaker[t]
        BY <2>1, <3>2 DEF Send
      <4>2. PICK d \in Clients : client[d].phase = "inflight" /\ client[d].target = t
        BY <4>1 DEF TrialHasOwner
      <4>3. client'[d] = client[d]
        BY <2>1, <4>2 DEF Send
      <4> QED
        BY <4>2, <4>3
    <3> QED
      BY <3>1, <3>2
  <2>2. ASSUME NEW c \in Clients, client[c].phase = "inflight",
               \/ ReportSuccess(client[c].target)
               \/ ReportFailure(client[c].target),
               \A d \in Clients \ {c} : client'[d] = client[d]
        PROVE  \E d \in Clients : /\ client'[d].phase = "inflight"
                                  /\ client'[d].target = t
    <3> DEFINE u == client[c].target
    <3>1. u \in Target /\ FoundBy(u) = u
      BY FoundByItself DEF ClientState
    <3>2. u # t
      BY <2>2, <3>1, ReportSettles, HasBreaker DEF ReportSuccess, ReportFailure
    <3>3. breaker'[t] = breaker[t]
      BY <2>2, <3>1, <3>2 DEF ReportSuccess, ReportFailure
    <3>4. PICK d \in Clients : client[d].phase = "inflight" /\ client[d].target = t
      BY <3>3 DEF TrialHasOwner
    <3>5. d # c
      BY <3>2, <3>4
    <3> QED
      BY <2>2, <3>4, <3>5
  <2>3. ASSUME breaker'[t] = breaker[t] \/ breaker'[t] = Age(breaker[t]),
               \A d \in Clients : client[d].phase = "inflight" => client'[d] = client[d]
        PROVE  \E d \in Clients : /\ client'[d].phase = "inflight"
                                  /\ client'[d].target = t
    <3>1. breaker[t].state = "half-open"
      BY <2>3 DEF Age, Breaker
    <3> QED
      BY <2>3, <3>1 DEF TrialHasOwner
  <2>4. ASSUME NEW c \in Clients, Arrive(c) \/ BufferTooLarge(c) PROVE TrialHasOwner'
    BY <2>3, <2>4 DEF Arrive, BufferTooLarge, Finish, TrialHasOwner
  <2>5. ASSUME NEW c \in Clients, Attempt(c)
        PROVE  \E d \in Clients : /\ client'[d].phase = "inflight"
                                  /\ client'[d].target = t
    BY <2>1, <2>3, <2>5 DEF Attempt, Finish
  <2>6. ASSUME NEW c \in Clients, AnswerWell(c) \/ AnswerBadly(c) \/ Fail(c)
        PROVE  \E d \in Clients : /\ client'[d].phase = "inflight"
                                  /\ client'[d].target = t
    BY <2>2, <2>6 DEF AnswerWell, AnswerBadly, Fail, Finish
  <2>7. ASSUME NEW c \in Clients, Abandon(c) PROVE FALSE
    BY <2>7 DEF Abandon
  <2>8. CASE \/ StartProbes
             \/ \E u \in Target, ok \in BOOLEAN : EndProbe(u, ok)
             \/ Tick
             \/ UNCHANGED vars
    BY <2>3, <2>8 DEF StartProbes, EndProbe, Tick, vars
  <2> QED
    BY <2>4, <2>5, <2>6, <2>7, <2>8 DEF Next, TrialHasOwner
<1> QED
  BY <1>1, <1>2, TypeCorrect, PTL DEF Spec

-----------------------------------------------------------------------------
(* The contract *)

Quiet(b) == IF b.state = "closed" THEN 0 ELSE b.sinceOpened

Using(t) == {c \in Clients : client[c].phase = "inflight" /\ client[c].target = t}

\* What each method does to the streak, the quiet period and the trial of the
\* contract.
LEMMA MethodsKeepContract ==
    ASSUME NEW b \in Breaker, Consistent(b)
    PROVE  /\ Admits(b) =>
                \/ b.failures # FailureThreshold /\ Admit(b) = b
                \/ /\ b.failures = FailureThreshold /\ ~b.trial
                   /\ Quiet(b) = ResetTimeout
                   /\ Admit(b).failures = b.failures
                   /\ Admit(b).trial = TRUE
                   /\ Quiet(Admit(b)) = Quiet(b)
           /\ /\ RecordSuccess(b).failures = 0
              /\ RecordSuccess(b).trial = FALSE
              /\ Quiet(RecordSuccess(b)) = 0
           /\ /\ RecordFailure(b).failures =
                    IF b.failures < FailureThreshold THEN b.failures + 1 ELSE b.failures
              /\ RecordFailure(b).trial = FALSE
              /\ Quiet(RecordFailure(b)) = 0
           /\ /\ Age(b).failures = b.failures
              /\ Age(b).trial = b.trial
              /\ Quiet(Age(b)) =
                    IF b.failures = FailureThreshold /\ ~b.trial /\ Quiet(b) < ResetTimeout
                    THEN Quiet(b) + 1 ELSE Quiet(b)
<1> USE BreakerAssumption DEF Breaker, Consistent, Quiet
<1>1. Admits(b) =>
                \/ b.failures # FailureThreshold /\ Admit(b) = b
                \/ /\ b.failures = FailureThreshold /\ ~b.trial
                   /\ Quiet(b) = ResetTimeout
                   /\ Admit(b).failures = b.failures
                   /\ Admit(b).trial = TRUE
                   /\ Quiet(Admit(b)) = Quiet(b)
  BY DEF Admits, Admit
<1>2. /\ RecordSuccess(b).failures = 0
      /\ RecordSuccess(b).trial = FALSE
      /\ Quiet(RecordSuccess(b)) = 0
  BY DEF RecordSuccess
<1>3. /\ RecordFailure(b).failures =
            IF b.failures < FailureThreshold THEN b.failures + 1 ELSE b.failures
      /\ RecordFailure(b).trial = FALSE
      /\ Quiet(RecordFailure(b)) = 0
  BY DEF RecordFailure
<1>4. /\ Age(b).failures = b.failures
      /\ Age(b).trial = b.trial
      /\ Quiet(Age(b)) =
            IF b.failures = FailureThreshold /\ ~b.trial /\ Quiet(b) < ResetTimeout
            THEN Quiet(b) + 1 ELSE Quiet(b)
  BY DEF Age
<1> QED
  BY <1>1, <1>2, <1>3, <1>4

\* The balancer implements the contract: a suspended target is left quiet for
\* ResetTimeout and then gets a single call, whatever the cursor, the health
\* probes and the retries of other calls do.
THEOREM ContractKept ==
    ASSUME HasBreaker, DistinctUrls
    PROVE  Spec => KeepsContract
<1> DEFINE Step == [Contract!Next]_(Contract!cvars)
           streak == [t \in Target |-> breaker[t].failures]
           quiet == [t \in Target |-> Quiet(breaker[t])]
           trying == [t \in Target |-> breaker[t].trial]
           using == [t \in Target |-> Using(t)]
<1>1. Init => Contract!Init
  BY BreakerAssumption DEF Init, Contract!Init, NewBreaker, NoCall
<1>2. TypeOK /\ AllConsistent /\ [Next]_vars => Step
  <2> SUFFICES ASSUME TypeOK, AllConsistent, [Next]_vars PROVE Step
    OBVIOUS
  <2>0. \A t \in Target : breaker[t] \in Breaker /\ Consistent(breaker[t])
    BY DEF TypeOK, AllConsistent
  <2> USE DEF Contract!Next, Contract!cvars
  <2>1. ASSUME NEW c \in Clients, NEW t \in Target, Send(c, t),
               client[c].phase # "inflight"
        PROVE  Step
    <3> DEFINE b == breaker[t]
    <3>1. using' = [using EXCEPT ![t] = @ \cup {c}]
      <4>1. client' = [client EXCEPT ![c].phase = "inflight", ![c].target = t]
        BY <2>1 DEF Send
      <4>2. client \in [Clients -> ClientState]
        BY DEF TypeOK
      <4>3. /\ client'[c].phase = "inflight" /\ client'[c].target = t
            /\ \A d \in Clients \ {c} : client'[d] = client[d]
        BY <4>1, <4>2 DEF ClientState
      <4>4. \A u \in Target : Using(u)' = IF u = t THEN Using(u) \cup {c} ELSE Using(u)
        BY <2>1, <4>3 DEF Using
      <4> HIDE DEF Using
      <4> QED
        BY <4>4
    <3>2. breaker' = [breaker EXCEPT ![t] = Admit(b)] /\ Admits(b)
      <4>1. Picks(t) /\ breaker' = [breaker EXCEPT ![t] = Admit(b)]
        BY <2>1 DEF Send
      <4> QED
        BY <4>1 DEF Picks, Available
    <3>3. CASE b.failures # FailureThreshold /\ Admit(b) = b
      <4>1. breaker' = breaker
        BY <3>2, <3>3 DEF TypeOK
      <4>2. Contract!Call(c, t)
        BY <3>1, <3>3, <4>1 DEF Contract!Call, Contract!Suspended, Contract!Occupy, Using, Quiet
      <4> QED
        BY <4>2
    <3>4. CASE /\ b.failures = FailureThreshold /\ ~b.trial
               /\ Quiet(b) = ResetTimeout
               /\ Admit(b).failures = b.failures
               /\ Admit(b).trial = TRUE
               /\ Quiet(Admit(b)) = Quiet(b)
      <4>1. streak' = streak
        BY <3>2, <3>4 DEF TypeOK
      <4>2. quiet' = quiet
        BY <3>2, <3>4 DEF TypeOK
      <4>3. trying' = [trying EXCEPT ![t] = TRUE]
        BY <3>2, <3>4 DEF TypeOK
      <4>4. Contract!Try(c, t)
        BY <3>1, <3>4, <4>1, <4>2, <4>3
           DEF Contract!Try, Contract!Suspended, Contract!Occupy, Using, Quiet
      <4> QED
        BY <4>4
    <3> QED
      BY <2>0, <3>2, <3>3, <3>4, MethodsKeepContract
  <2>2. ASSUME NEW c \in Clients, client[c].phase = "inflight",
               client'[c].phase # "inflight",
               \A d \in Clients \ {c} : client'[d] = client[d],
               NEW t \in Target, t = client[c].target
        PROVE  c \in using[t] /\ using' = [using EXCEPT ![t] = @ \ {c}]
    <3>1. c \in Using(t)
      BY <2>2 DEF Using
    <3>2. ASSUME NEW u \in Target
          PROVE  Using(u)' = IF u = t THEN Using(t) \ {c} ELSE Using(u)
      BY <2>2 DEF Using
    <3> QED
      BY <3>1, <3>2
  <2>3. ASSUME NEW c \in Clients, AnswerWell(c) \/ AnswerBadly(c) \/ Fail(c)
        PROVE  Step
    <3>1. PICK t \in Target : t = client[c].target /\ FoundBy(t) = t
      BY FoundByItself DEF TypeOK, ClientState
    <3> DEFINE b == breaker[t]
    <3>2. /\ client[c].phase = "inflight" /\ client'[c].phase # "inflight"
          /\ \A d \in Clients \ {c} : client'[d] = client[d]
      BY <2>3 DEF AnswerWell, AnswerBadly, Fail, Finish, NoCall, TypeOK, ClientState
    <3>3. c \in using[t] /\ using' = [using EXCEPT ![t] = @ \ {c}]
      BY <2>2, <3>1, <3>2
    <3>4. \/ breaker' = [breaker EXCEPT ![t] = RecordSuccess(b)]
          \/ breaker' = [breaker EXCEPT ![t] = RecordFailure(b)]
      BY <2>3, <3>1 DEF AnswerWell, AnswerBadly, Fail, ReportSuccess, ReportFailure
    <3>5. CASE breaker' = [breaker EXCEPT ![t] = RecordSuccess(b)]
      <4> DEFINE s == RecordSuccess(b)
      <4>1. s.failures = 0 /\ s.trial = FALSE /\ Quiet(s) = 0
        BY <2>0, <3>1, MethodsKeepContract
      <4>2. \A u \in Target : breaker'[u] = IF u = t THEN s ELSE breaker[u]
        BY <3>1, <3>5 DEF TypeOK
      <4> HIDE DEF s
      <4>3. /\ streak' = [streak EXCEPT ![t] = 0]
            /\ quiet' = [quiet EXCEPT ![t] = 0]
            /\ trying' = [trying EXCEPT ![t] = FALSE]
        BY <3>1, <4>1, <4>2
      <4>4. Contract!Good(c, t)
        BY <3>1, <3>3, <4>3 DEF Contract!Good, Contract!Release, Using, Quiet
      <4> QED
        BY <3>1, <4>4
    <3>6. CASE breaker' = [breaker EXCEPT ![t] = RecordFailure(b)]
      <4> DEFINE s == RecordFailure(b)
      <4>1. /\ s.failures = IF b.failures < FailureThreshold
                            THEN b.failures + 1 ELSE b.failures
            /\ s.trial = FALSE /\ Quiet(s) = 0
        BY <2>0, <3>1, MethodsKeepContract
      <4>2. \A u \in Target : breaker'[u] = IF u = t THEN s ELSE breaker[u]
        BY <3>1, <3>6 DEF TypeOK
      <4> HIDE DEF s
      <4>3. /\ streak' = [streak EXCEPT ![t] =
                             IF @ < FailureThreshold THEN @ + 1 ELSE @]
            /\ quiet' = [quiet EXCEPT ![t] = 0]
            /\ trying' = [trying EXCEPT ![t] = FALSE]
        BY <3>1, <4>1, <4>2
      <4>4. Contract!Bad(c, t)
        BY <3>1, <3>3, <4>3 DEF Contract!Bad, Contract!Release, Using, Quiet
      <4> QED
        BY <3>1, <4>4
    <3> QED
      BY <3>4, <3>5, <3>6
  <2>4. ASSUME NEW c \in Clients, Abandon(c)
        PROVE  Step
    <3>1. PICK t \in Target : t = client[c].target
      BY DEF TypeOK, ClientState
    <3>2. /\ client[c].phase = "inflight" /\ client'[c].phase # "inflight"
          /\ \A d \in Clients \ {c} : client'[d] = client[d]
      BY <2>4 DEF Abandon, Finish, NoCall, TypeOK
    <3>3. c \in using[t] /\ using' = [using EXCEPT ![t] = @ \ {c}]
      BY <2>2, <3>1, <3>2
    <3>4. Contract!GiveUp(c, t)
      BY <2>4, <3>1, <3>3 DEF Abandon, Contract!GiveUp, Contract!Release, Using
    <3> QED
      BY <3>1, <3>4
  <2>5. ASSUME Tick PROVE Step
    <3>1. \A t \in Target : breaker'[t] = Age(breaker[t])
      BY <2>5 DEF Tick
    <3>2. ASSUME NEW t \in Target
          PROVE  /\ streak'[t] = streak[t]
                 /\ trying'[t] = trying[t]
                 /\ quiet'[t] = IF streak[t] = FailureThreshold /\ ~trying[t]
                                    /\ quiet[t] < ResetTimeout
                                THEN quiet[t] + 1 ELSE quiet[t]
      <4> DEFINE b == breaker[t]
                 a == Age(b)
      <4>1. /\ a.failures = b.failures /\ a.trial = b.trial
            /\ Quiet(a) = IF b.failures = FailureThreshold /\ ~b.trial
                             /\ Quiet(b) < ResetTimeout
                          THEN Quiet(b) + 1 ELSE Quiet(b)
        BY <2>0, MethodsKeepContract
      <4>2. breaker'[t] = a
        BY <3>1
      <4> HIDE DEF a
      <4> QED
        BY <4>1, <4>2
    <3>3. using' = using
      BY <2>5 DEF Tick, Using
    <3>4. Contract!Elapse
      BY <3>2, <3>3 DEF Contract!Elapse, Contract!Suspended, Using, Quiet
    <3> QED
      BY <3>4
  <2>6. ASSUME breaker' = breaker,
               \A c \in Clients : /\ client[c].phase = "inflight" <=> client'[c].phase = "inflight"
                                  /\ client'[c].phase = "inflight" => client'[c].target = client[c].target
        PROVE  Step
    <3>1. \A t \in Target : Using(t)' = Using(t)
      BY <2>6 DEF Using
    <3> QED
      BY <2>6, <3>1 DEF Using
  <2>7. ASSUME NEW c \in Clients, Arrive(c) \/ BufferTooLarge(c) PROVE Step
    <3>1. breaker' = breaker
      BY <2>7 DEF Arrive, BufferTooLarge
    <3>2. /\ client[c].phase # "inflight" /\ client'[c].phase # "inflight"
          /\ \A d \in Clients \ {c} : client'[d] = client[d]
      <4>1. CASE Arrive(c)
        BY <4>1 DEF Arrive, TypeOK, ClientState
      <4>2. CASE BufferTooLarge(c)
        BY <4>2 DEF BufferTooLarge, Finish, NoCall, TypeOK
      <4> QED
        BY <2>7, <4>1, <4>2
    <3> QED
      BY <2>6, <3>1, <3>2
  <2>8. ASSUME NEW c \in Clients, Attempt(c) PROVE Step
    <3>1. CASE \E t \in Target : Send(c, t)
      BY <2>1, <2>8, <3>1 DEF Attempt
    <3>2. CASE ~\E t \in Target : Send(c, t)
      BY <2>6, <2>8, <3>2 DEF Attempt, Finish, NoCall, TypeOK, ClientState
    <3> QED
      BY <3>1, <3>2
  <2>9. CASE \/ StartProbes
             \/ \E t \in Target, ok \in BOOLEAN : EndProbe(t, ok)
             \/ UNCHANGED vars
    BY <2>6, <2>9 DEF StartProbes, EndProbe, vars
  <2> QED
    BY <2>3, <2>4, <2>5, <2>7, <2>8, <2>9 DEF Next
<1> QED
  BY <1>1, <1>2, TypeCorrect, StayConsistent, PTL DEF Spec, KeepsContract, Contract!Spec

-----------------------------------------------------------------------------
(* What a step can do to one call *)

Moved(c) ==
    \/ client'[c] = client[c]
    \/ client[c].phase = "idle" /\ client'[c] = [client[c] EXCEPT !.phase = "ready"]
    \/ client'[c] = NoCall
    \/ /\ client[c].phase \in {"ready", "backoff"}
       /\ \E t \in Target :
             client'[c] = [client[c] EXCEPT !.phase = "inflight", !.target = t]
    \/ /\ client[c].phase = "inflight" /\ client[c].attempt < MaxAttempts(c)
       /\ client'[c] = [client[c] EXCEPT !.phase = "backoff", !.attempt = @ + 1]

LEMMA CallStep ==
    ASSUME TypeOK, Next, NEW c \in Clients
    PROVE  Moved(c)
<1> USE DEF TypeOK
<1>1. ASSUME NEW d \in Clients, Arrive(d) PROVE Moved(c)
  BY <1>1 DEF Arrive, Moved
<1>2. ASSUME NEW d \in Clients, Finish(d) PROVE Moved(c)
  BY <1>2 DEF Finish, Moved
<1>3. ASSUME NEW d \in Clients, Attempt(d) PROVE Moved(c)
  <2>1. ASSUME NEW t \in Target, Send(d, t) PROVE Moved(c)
    BY <1>3, <2>1 DEF Attempt, Send, Moved
  <2> QED
    BY <1>2, <1>3, <2>1 DEF Attempt
<1>4. ASSUME NEW d \in Clients, Fail(d) PROVE Moved(c)
  <2>1. CASE client[d].attempt < MaxAttempts(d)
    BY <1>4, <2>1 DEF Fail, Moved
  <2>2. CASE ~(client[d].attempt < MaxAttempts(d))
    BY <1>2, <1>4, <2>2 DEF Fail
  <2> QED
    BY <2>1, <2>2
<1>5. ASSUME NEW d \in Clients,
             BufferTooLarge(d) \/ AnswerWell(d) \/ AnswerBadly(d) \/ Abandon(d)
      PROVE  Moved(c)
  BY <1>2, <1>5 DEF BufferTooLarge, AnswerWell, AnswerBadly, Abandon
<1>6. ASSUME StartProbes \/ Tick \/ \E t \in Target, ok \in BOOLEAN : EndProbe(t, ok)
      PROVE  Moved(c)
  BY <1>6 DEF StartProbes, EndProbe, Tick, Moved
<1> QED
  BY <1>1, <1>3, <1>4, <1>5, <1>6 DEF Next

-----------------------------------------------------------------------------
(* How often a call is sent: as often as its attempts say *)

Counted(c) ==
    /\ sent[c] \in Nat /\ answered[c] \in BOOLEAN
    /\ client[c].attempt <= MaxAttempts(c)
    /\ client[c].phase \in {"idle", "ready"} => client[c].attempt = 1
    /\ client[c].phase = "idle" => sent[c] <= MaxAttempts(c)
    /\ client[c].phase = "ready" => sent[c] = 0
    /\ client[c].phase = "inflight" => sent[c] = client[c].attempt
    /\ client[c].phase = "backoff" => sent[c] = client[c].attempt - 1
    /\ answered[c] => client[c].phase = "idle"

SentInv ==
    /\ TypeOK
    /\ sent \in [Clients -> Nat] /\ answered \in [Clients -> BOOLEAN]
    /\ \A c \in Clients : Counted(c)

LEMMA MaxAttemptsType == \A c \in Clients : MaxAttempts(c) \in Nat \ {0}
BY UpstreamAssumption DEF MaxAttempts

LEMMA InitSent == HInit => SentInv
<1> SUFFICES ASSUME HInit PROVE SentInv
  OBVIOUS
<1>1. TypeOK
  BY InitTypeOK DEF HInit
<1>2. \A c \in Clients : client[c] = NoCall /\ sent[c] = 0 /\ answered[c] = FALSE
  BY DEF HInit, Init
<1>3. ASSUME NEW c \in Clients PROVE Counted(c)
  <2>1. client[c].phase = "idle" /\ client[c].attempt = 1
    BY <1>2 DEF NoCall
  <2>2. sent[c] = 0 /\ sent[c] \in Nat /\ 1 <= MaxAttempts(c) /\ 0 <= MaxAttempts(c)
    BY <1>2, MaxAttemptsType
  <2>3. answered[c] \in BOOLEAN /\ ~answered[c]
    BY <1>2
  <2> QED
    BY <2>1, <2>2, <2>3 DEF Counted
<1>4. sent \in [Clients -> Nat] /\ answered \in [Clients -> BOOLEAN]
  <2>1. 0 \in Nat /\ FALSE \in BOOLEAN
    OBVIOUS
  <2> QED
    BY <2>1 DEF HInit
<1> QED
  BY <1>1, <1>3, <1>4 DEF SentInv

LEMMA NextSent == SentInv /\ [HNext]_hvars => SentInv'
<1> SUFFICES ASSUME SentInv, [HNext]_hvars PROVE SentInv'
  OBVIOUS
<1>1. CASE UNCHANGED hvars
  BY <1>1 DEF hvars, vars, SentInv, TypeOK, Counted, MaxAttempts
<1>2. CASE HNext
  <2>1. Next /\ TypeOK /\ TypeOK'
    BY <1>2, NextTypeOK DEF HNext, SentInv
  <2>2. ASSUME NEW c \in Clients
        PROVE  sent'[c] \in Nat /\ answered'[c] \in BOOLEAN /\ Counted(c)'
    <3>1. PICK r \in ClientState : r = client[c]
      BY <2>1 DEF TypeOK
    <3>2. PICK q \in ClientState : q = client'[c]
      BY <2>1 DEF TypeOK
    <3>3. /\ sent'[c] = IF r.phase = "idle" /\ q.phase # "idle" THEN 0
                        ELSE IF r.phase # "inflight" /\ q.phase = "inflight" THEN sent[c] + 1
                        ELSE sent[c]
      BY <1>2, <3>1, <3>2 DEF HNext, StartedNow, SentNow
    <3>4. AnsweredNow(c) => q.phase = "idle"
      BY <2>1, <3>2 DEF AnsweredNow, AnswerWell, AnswerBadly, Finish, NoCall, TypeOK
    <3>5. /\ answered'[c] \in BOOLEAN
          /\ answered'[c] => (answered[c] /\ ~(r.phase = "idle" /\ q.phase # "idle")) \/ q.phase = "idle"
      <4>1. answered[c] \in BOOLEAN
        BY DEF SentInv
      <4>2. answered'[c] = IF StartedNow(c) THEN FALSE ELSE answered[c] \/ AnsweredNow(c)
        BY <1>2 DEF HNext
      <4>3. StartedNow(c) <=> r.phase = "idle" /\ q.phase # "idle"
        BY <3>1, <3>2 DEF StartedNow
      <4> QED
        BY <3>4, <4>1, <4>2, <4>3
    <3>6. /\ sent[c] \in Nat /\ r.attempt \in Nat /\ r.attempt <= MaxAttempts(c)
          /\ r.phase \in {"idle", "ready"} => r.attempt = 1
          /\ r.phase = "idle" => sent[c] <= MaxAttempts(c)
          /\ r.phase = "ready" => sent[c] = 0
          /\ r.phase = "inflight" => sent[c] = r.attempt
          /\ r.phase = "backoff" => sent[c] = r.attempt - 1
          /\ answered[c] => r.phase = "idle"
      BY <3>1 DEF SentInv, Counted, ClientState
    <3>7. /\ r.phase \in {"idle", "ready", "inflight", "backoff"}
          /\ MaxAttempts(c) \in Nat \ {0}
      BY <3>1, MaxAttemptsType DEF ClientState
    <3>8. \/ q = r
          \/ r.phase = "idle" /\ q.phase = "ready" /\ q.attempt = r.attempt
          \/ q.phase = "idle" /\ q.attempt = 1
          \/ /\ r.phase \in {"ready", "backoff"} /\ q.phase = "inflight" /\ q.attempt = r.attempt
          \/ /\ r.phase = "inflight" /\ r.attempt < MaxAttempts(c)
             /\ q.phase = "backoff" /\ q.attempt = r.attempt + 1
      <4>1. Moved(c)
        BY <2>1, CallStep
      <4>2. CASE client'[c] = NoCall
        BY <3>2, <4>2 DEF NoCall
      <4>3. CASE client'[c] # NoCall
        BY <3>1, <3>2, <4>1, <4>3 DEF ClientState, Moved
      <4> QED
        BY <4>2, <4>3
    <3>9. /\ sent'[c] \in Nat
          /\ q.attempt <= MaxAttempts(c)
          /\ q.phase \in {"idle", "ready"} => q.attempt = 1
          /\ q.phase = "idle" => sent'[c] <= MaxAttempts(c)
          /\ q.phase = "ready" => sent'[c] = 0
          /\ q.phase = "inflight" => sent'[c] = q.attempt
          /\ q.phase = "backoff" => sent'[c] = q.attempt - 1
      BY <3>3, <3>6, <3>7, <3>8
    <3>10. ASSUME answered'[c] PROVE q.phase = "idle"
      <4>1. CASE answered[c] /\ ~(r.phase = "idle" /\ q.phase # "idle")
        BY <3>6, <4>1
      <4> QED
        BY <3>5, <3>10, <4>1
    <3>11. MaxAttempts(c)' = MaxAttempts(c)
      BY DEF MaxAttempts
    <3> QED
      BY <3>2, <3>5, <3>9, <3>10, <3>11 DEF Counted
  <2>3. sent' \in [Clients -> Nat] /\ answered' \in [Clients -> BOOLEAN]
    BY <1>2, <2>2 DEF HNext
  <2> QED
    BY <2>1, <2>2, <2>3 DEF SentInv
<1> QED
  BY <1>1, <1>2

\* A call is sent at most once per attempt, and not again once it is answered.
THEOREM ResendIsBounded == HSpec => []ResendBounded
<1>1. SentInv => ResendBounded
  <2> SUFFICES ASSUME SentInv, NEW c \in Clients
               PROVE  /\ sent[c] <= IF Kind[c] = "retryable" THEN Attempts + 1 ELSE 1
                      /\ answered[c] => client[c].phase = "idle"
    BY DEF ResendBounded
  <2>1. Counted(c) /\ client[c] \in ClientState
    BY DEF SentInv, TypeOK
  <2>2. sent[c] <= MaxAttempts(c)
    BY <2>1, MaxAttemptsType DEF Counted, ClientState
  <2> QED
    BY <2>1, <2>2 DEF Counted, MaxAttempts
<1> QED
  BY <1>1, InitSent, NextSent, PTL DEF HSpec

-----------------------------------------------------------------------------
(* How often a target is passed over *)

\* Each pick of another target brings the search closer to the one passed
\* over, so the picks that passed it and the steps still to go add up.
PassedOver(t) ==
    /\ bypassed[t] \in Nat /\ bypassed[t] <= N - 1
    /\ Available(t) => bypassed[t] + Distance(t) <= N - 1

BypassInv ==
    /\ TypeOK
    /\ \A t \in Target : PassedOver(t)

LEMMA StepsBetween ==
    ASSUME NEW k \in Target, NEW t \in Target
    PROVE  (IF t >= k THEN t - k ELSE t + N - k) \in 0 .. N - 1
BY UpstreamAssumption DEF Target

LEMMA DistanceType ==
    ASSUME NEW t \in Target, cursor \in Target
    PROVE  Distance(t) \in Nat /\ Distance(t) <= N - 1
BY UpstreamAssumption DEF Distance, Target

\* A pick moves the cursor past the picked target: whatever lies behind it in
\* the search is at least one step closer.
LEMMA PickApproaches ==
    ASSUME TypeOK, NEW d \in Clients, NEW u \in Target, NEW t \in Target,
           Send(d, u), Available(t), t # u
    PROVE  Distance(t)' <= Distance(t) - 1
<1>1. Distance(u) <= Distance(t)
  BY DEF Send, Picks
<1>2. /\ cursor \in 0 .. N - 1 /\ t \in 0 .. N - 1 /\ u \in 0 .. N - 1
      /\ N \in Nat \ {0}
  BY UpstreamAssumption DEF TypeOK, Target
<1>3. cursor' = IF u + 1 = N THEN 0 ELSE u + 1
  <2>1. cursor' = (u + 1) % N
    BY DEF Send, Advance
  <2>2. CASE u + 1 = N
    BY <1>2, <2>1, <2>2
  <2>3. CASE u + 1 # N
    BY <1>2, <2>1, <2>3
  <2> QED
    BY <2>2, <2>3
<1>4. Distance(t)' = IF t >= cursor' THEN t - cursor' ELSE t + N - cursor'
  BY DEF Distance
<1>5. /\ Distance(t) = IF t >= cursor THEN t - cursor ELSE t + N - cursor
      /\ Distance(u) = IF u >= cursor THEN u - cursor ELSE u + N - cursor
  BY DEF Distance
<1> QED
  BY <1>1, <1>2, <1>3, <1>4, <1>5

\* Only a pick moves the cursor or puts a call in flight.
LEMMA SendOrNot ==
    ASSUME TypeOK, Next
    PROVE  \/ \E d \in Clients, u \in Target :
                 Send(d, u) /\ client[d].phase \in {"ready", "backoff"}
           \/ cursor' = cursor /\ \A c \in Clients : ~SentNow(c)
<1> USE DEF TypeOK
<1>1. ASSUME NEW d \in Clients, Arrive(d)
      PROVE  cursor' = cursor /\ \A c \in Clients : ~SentNow(c)
  BY <1>1 DEF Arrive, SentNow
<1>2. ASSUME NEW d \in Clients, Finish(d)
      PROVE  \A c \in Clients : ~SentNow(c)
  <2>1. NoCall.phase # "inflight"
    BY DEF NoCall
  <2> QED
    BY <1>2, <2>1 DEF Finish, SentNow
<1>3. ASSUME NEW d \in Clients, Attempt(d)
      PROVE  \/ \E u \in Target : Send(d, u) /\ client[d].phase \in {"ready", "backoff"}
             \/ cursor' = cursor /\ \A c \in Clients : ~SentNow(c)
  BY <1>2, <1>3 DEF Attempt
<1>4. ASSUME NEW d \in Clients, Fail(d)
      PROVE  cursor' = cursor /\ \A c \in Clients : ~SentNow(c)
  <2>1. CASE client[d].attempt < MaxAttempts(d)
    BY <1>4, <2>1 DEF Fail, SentNow
  <2>2. CASE ~(client[d].attempt < MaxAttempts(d))
    BY <1>2, <1>4, <2>2 DEF Fail
  <2> QED
    BY <2>1, <2>2
<1>5. ASSUME NEW d \in Clients,
             BufferTooLarge(d) \/ AnswerWell(d) \/ AnswerBadly(d) \/ Abandon(d)
      PROVE  cursor' = cursor /\ \A c \in Clients : ~SentNow(c)
  BY <1>2, <1>5 DEF BufferTooLarge, AnswerWell, AnswerBadly, Abandon
<1>6. ASSUME StartProbes \/ Tick \/ \E t \in Target, ok \in BOOLEAN : EndProbe(t, ok)
      PROVE  cursor' = cursor /\ \A c \in Clients : ~SentNow(c)
  BY <1>6 DEF StartProbes, EndProbe, Tick, SentNow
<1> QED
  BY <1>1, <1>3, <1>4, <1>5, <1>6 DEF Next

LEMMA InitBypass == HInit => BypassInv
<1>1. ASSUME HInit PROVE TypeOK
  BY <1>1, InitTypeOK DEF HInit
<1> SUFFICES ASSUME HInit, NEW t \in Target PROVE PassedOver(t)
  BY <1>1 DEF BypassInv
<1>2. bypassed[t] = 0 /\ Distance(t) \in Nat /\ Distance(t) <= N - 1
  BY <1>1, DistanceType DEF HInit, TypeOK
<1> QED
  BY <1>1, <1>2, UpstreamAssumption DEF PassedOver

LEMMA NextBypass == BypassInv /\ [HNext]_hvars => BypassInv'
<1>3. ASSUME BypassInv, [HNext]_hvars PROVE TypeOK'
  BY <1>3, NextTypeOK DEF HNext, hvars, BypassInv
<1> SUFFICES ASSUME BypassInv, [HNext]_hvars, NEW t \in Target
             PROVE  PassedOver(t)'
  BY <1>3 DEF BypassInv, Target
<1>1. CASE UNCHANGED hvars
  BY <1>1 DEF hvars, vars, BypassInv, PassedOver, Available, Distance
<1>2. CASE HNext
  <2>1. TypeOK /\ Next /\ TypeOK' /\ PassedOver(t)
    BY <1>2, <1>3 DEF HNext, BypassInv
  <2>2. /\ bypassed'[t] = IF ~Available(t) \/ SentTo(t) THEN 0
                          ELSE IF \E c \in Clients : SentNow(c) THEN bypassed[t] + 1
                          ELSE bypassed[t]
    BY <1>2 DEF HNext
  <2>3. Distance(t)' \in Nat /\ Distance(t)' <= N - 1 /\ N \in Nat \ {0}
    <3>1. cursor' \in Target /\ N \in Nat \ {0}
      BY <2>1, UpstreamAssumption DEF TypeOK
    <3>2. (IF t >= cursor' THEN t - cursor' ELSE t + N - cursor') \in 0 .. N - 1
      BY <3>1, StepsBetween
    <3>3. Distance(t)' \in 0 .. N - 1
      BY <3>2 DEF Distance
    <3> QED
      BY <3>1, <3>3
  <2>4. Distance(t) \in Nat /\ Distance(t) <= N - 1
    BY <2>1, DistanceType DEF TypeOK
  <2>5. CASE ~Available(t) \/ SentTo(t)
    BY <2>1, <2>2, <2>3, <2>5 DEF PassedOver
  <2>6. CASE Available(t) /\ ~SentTo(t)
    <3>1. bypassed[t] \in Nat /\ bypassed[t] + Distance(t) <= N - 1
      BY <2>1, <2>6 DEF PassedOver
    <3>2. CASE \E d \in Clients, u \in Target :
                  Send(d, u) /\ client[d].phase \in {"ready", "backoff"}
      <4>1. PICK d \in Clients, u \in Target :
                  Send(d, u) /\ client[d].phase \in {"ready", "backoff"}
        BY <3>2
      <4>2. SentNow(d) /\ client'[d].target = u
        BY <2>1, <4>1 DEF Send, SentNow, TypeOK, ClientState
      <4>3. t # u
        BY <2>6, <4>2 DEF SentTo
      <4>4. Distance(t)' <= Distance(t) - 1
        BY <2>1, <2>6, <4>1, <4>3, PickApproaches
      <4>5. bypassed'[t] = bypassed[t] + 1
        BY <2>2, <2>6, <4>2
      <4>6. bypassed'[t] + Distance(t)' <= N - 1 /\ bypassed'[t] \in Nat
        BY <2>3, <2>4, <3>1, <4>4, <4>5
      <4> QED
        BY <2>1, <2>3, <4>6 DEF PassedOver
    <3>3. CASE cursor' = cursor /\ \A c \in Clients : ~SentNow(c)
      <4>1. bypassed'[t] = bypassed[t]
        BY <2>2, <2>6, <3>3
      <4>2. Distance(t)' = Distance(t)
        BY <3>3 DEF Distance
      <4>3. bypassed'[t] + Distance(t)' <= N - 1 /\ bypassed'[t] \in Nat
        BY <3>1, <4>1, <4>2
      <4> QED
        BY <2>1, <2>3, <4>3 DEF PassedOver
    <3> QED
      BY <2>1, <3>2, <3>3, SendOrNot
  <2> QED
    BY <2>5, <2>6
<1> QED
  BY <1>1, <1>2

\* An available target is passed over at most N - 1 times in a row, whatever
\* the other targets' breakers and probes do meanwhile.
THEOREM BypassIsBounded == HSpec => []BypassBounded
<1>1. BypassInv => BypassBounded
  BY DEF BypassInv, PassedOver, BypassBounded
<1> QED
  BY <1>1, InitBypass, NextBypass, PTL DEF HSpec

=============================================================================
