-------------------------- MODULE ApiKeyAuthProofs --------------------------
(***************************************************************************)
(* Proofs about ApiKeyAuth: for any set of requests, TTL and delay, and    *)
(* with Redis and Postgres failing at will.                                *)
(***************************************************************************)
EXTENDS ApiKeyAuthProps, TLAPS

-----------------------------------------------------------------------------
(* Type correctness *)

LEMMA EntryTypes ==
    /\ NoEntry \in Entry
    /\ \A v \in {"valid", "invalid"} : [verdict |-> v, ttl |-> CacheTTL] \in Entry
BY AuthAssumption DEF NoEntry, Entry

LEMMA RowTypes ==
    ASSUME NEW k \in KeyRow, NEW b \in BOOLEAN
    PROVE  /\ [k EXCEPT !.revoked = b] \in KeyRow
           /\ [k EXCEPT !.expired = b] \in KeyRow
           /\ [k EXCEPT !.suspended = b] \in KeyRow
BY DEF KeyRow

LEMMA LookupTypes ==
    /\ \A p \in {"idle", "getting", "querying", "storing"} : Fresh(p) \in Lookup
    /\ \A f \in BOOLEAN : [Fresh("storing") EXCEPT !.found = f] \in Lookup
    /\ \A v \in {"accepted", "rejected", "error"} : Result(v) \in Lookup
    /\ \A ok \in BOOLEAN : Verdict(ok) \in {"accepted", "rejected"}
<1>1. 0 \in 0 .. MaxDelay
  BY AuthAssumption
<1> QED
  BY <1>1 DEF Fresh, Result, Lookup, Verdict

LEMMA InitTypeOK == Init => TypeOK
BY EntryTypes, LookupTypes, AuthAssumption DEF Init, TypeOK, KeyRow, NoEntry

LEMMA NextTypeOK == TypeOK /\ [Next]_vars => TypeOK'
<1> SUFFICES ASSUME TypeOK, [Next]_vars PROVE TypeOK'
  OBVIOUS
<1> USE DEF TypeOK
<1>1. ASSUME NEW r \in Requests, NEW e \in Lookup, Set(r, e)
      PROVE  lookup' \in [Requests -> Lookup]
  BY <1>1 DEF Set
<1>0. ASSUME NEW s \in {204, 404, 500}, answers' = answers \cup {s}
      PROVE  answers' \subseteq {204, 404, 500}
  <2>1. answers \subseteq {204, 404, 500}
    OBVIOUS
  <2> HIDE DEF TypeOK
  <2> QED
    BY <1>0, <2>1
<1>2. ASSUME NEW r \in Requests, Begin(r) \/ CacheMiss(r) PROVE TypeOK'
  BY <1>1, <1>2, LookupTypes DEF Begin, CacheMiss
<1>3. ASSUME NEW r \in Requests, CacheHit(r) PROVE TypeOK'
  <2>1. PICK v : v = Verdict(cache.verdict = "valid")
    OBVIOUS
  <2>2. v \in {"accepted", "rejected"}
    BY <2>1 DEF Verdict
  <2>3. Result(v) \in Lookup
    BY <2>2, LookupTypes
  <2>4. lookup' \in [Requests -> Lookup]
    BY <1>1, <1>3, <2>1, <2>3 DEF CacheHit
  <2>5. UNCHANGED <<key, cache, revoker, answers, touches, running>>
    BY <1>3 DEF CacheHit
  <2> QED
    BY <2>4, <2>5
<1>4. ASSUME NEW r \in Requests, DbRead(r) PROVE TypeOK'
  <2>1. Active \in BOOLEAN
    BY DEF Active, ActiveRow, KeyRow
  <2> QED
    BY <1>1, <1>4, <2>1, LookupTypes DEF DbRead
<1>5. ASSUME NEW r \in Requests, DbError(r) PROVE TypeOK'
  BY <1>1, <1>5, LookupTypes DEF DbError
<1>6. ASSUME NEW r \in Requests, Store(r) PROVE TypeOK'
  <2>1. lookup[r].found \in BOOLEAN
    BY DEF Lookup
  <2>2. lookup' \in [Requests -> Lookup]
    BY <1>1, <1>6, <2>1, LookupTypes DEF Store
  <2>3. cache' \in Entry /\ (cache'.verdict # "none" => cache'.ttl > 0)
    BY <1>6, EntryTypes, AuthAssumption DEF Store
  <2>4. touches' \in 0 .. MaxTouches
    BY <1>6, AuthAssumption DEF Store
  <2> QED
    BY <1>6, <2>2, <2>3, <2>4 DEF Store
<1>7. ASSUME Touched PROVE TypeOK'
  BY <1>7, AuthAssumption DEF Touched
<1>8. ASSUME TouchFails PROVE TypeOK'
  <2>1. lookup' \in [Requests -> Lookup] /\ touches' \in 0 .. MaxTouches
    BY <1>8, LookupTypes, AuthAssumption DEF TouchFails, Crash
  <2>2. UNCHANGED <<key, cache, answers>> /\ revoker' = "idle" /\ running' = FALSE
    BY <1>8 DEF TouchFails, Crash
  <2> QED
    BY <2>1, <2>2
<1>9. ASSUME Restart \/ RevokeAgain PROVE TypeOK'
  <2>1. CASE Restart
    BY <2>1 DEF Restart
  <2>2. CASE RevokeAgain
    <3>1. answers' = answers \cup {404}
      BY <2>2 DEF RevokeAgain
    <3>2. answers' \subseteq {204, 404, 500}
      BY <1>0, <3>1
    <3>3. UNCHANGED <<key, cache, lookup, revoker, touches, running>>
      BY <2>2 DEF RevokeAgain
    <3> QED
      BY <3>2, <3>3
  <2> QED
    BY <1>9, <2>1, <2>2
<1>10. ASSUME Revoke PROVE TypeOK'
  <2>1. key' \in KeyRow
    <3>1. key' = [key EXCEPT !.revoked = TRUE] /\ key \in KeyRow
      BY <1>10 DEF Revoke
    <3> QED
      BY <3>1, RowTypes
  <2>2. revoker' = "deleting" /\ UNCHANGED <<cache, lookup, answers, touches, running>>
    BY <1>10 DEF Revoke
  <2> QED
    BY <2>1, <2>2
<1>11. ASSUME DeleteEntry \/ DeleteFails PROVE TypeOK'
  <2>1. answers' \subseteq {204, 404, 500} /\ revoker' = "idle"
    <3>1. answers' = answers \cup {204} \/ answers' = answers \cup {500}
      BY <1>11 DEF DeleteEntry, DeleteFails
    <3>2. answers' \subseteq {204, 404, 500}
      BY <1>0, <3>1
    <3> QED
      BY <1>11, <3>2 DEF DeleteEntry, DeleteFails
  <2>2. cache' \in Entry /\ (cache'.verdict # "none" => cache'.ttl > 0)
    BY <1>11, EntryTypes DEF DeleteEntry, DeleteFails, NoEntry
  <2>3. UNCHANGED <<key, lookup, touches, running>>
    BY <1>11 DEF DeleteEntry, DeleteFails
  <2> QED
    BY <2>1, <2>2, <2>3
<1>12. ASSUME NEW s \in BOOLEAN, SetTenantStatus(s) PROVE TypeOK'
  <2>1. key' \in KeyRow
    BY <1>12, RowTypes DEF SetTenantStatus
  <2>2. UNCHANGED <<cache, lookup, revoker, answers, touches, running>>
    BY <1>12 DEF SetTenantStatus
  <2> QED
    BY <2>1, <2>2
<1>13. ASSUME Expire PROVE TypeOK'
  <2>1. key' \in KeyRow
    BY <1>13, RowTypes DEF Expire
  <2>2. UNCHANGED <<cache, lookup, revoker, answers, touches, running>>
    BY <1>13 DEF Expire
  <2> QED
    BY <2>1, <2>2
<1>14. ASSUME Tick PROVE TypeOK'
  <2>1. cache' \in Entry /\ (cache'.verdict # "none" => cache'.ttl > 0)
    <3>1. CASE cache.ttl > 1
      <4>1. cache.ttl - 1 \in 0 .. CacheTTL /\ cache.ttl - 1 > 0
        BY <3>1, AuthAssumption DEF Entry
      <4> QED
        BY <1>14, <3>1, <4>1 DEF Tick, Entry
    <3>2. CASE ~(cache.ttl > 1)
      BY <1>14, <3>2, EntryTypes DEF Tick, NoEntry
    <3> QED
      BY <3>1, <3>2
  <2>2. lookup' \in [Requests -> Lookup]
    <3> SUFFICES ASSUME NEW r \in Requests,
                        lookup[r].phase = "storing"
                 PROVE  [lookup[r] EXCEPT !.age = @ + 1] \in Lookup
      BY <1>14 DEF Tick
    <3>1. lookup[r].age + 1 \in 0 .. MaxDelay
      BY <1>14, AuthAssumption DEF Tick, Lookup
    <3> QED
      BY <3>1 DEF Lookup
  <2> QED
    BY <1>14, <2>1, <2>2 DEF Tick
<1>15. CASE UNCHANGED vars
  BY <1>15 DEF vars
<1> QED
  BY <1>2, <1>3, <1>4, <1>5, <1>6, <1>7, <1>8, <1>9, <1>10, <1>11, <1>12,
     <1>13, <1>14, <1>15 DEF Next

\* Every variable keeps its type; a cached verdict always has time left.
THEOREM TypeCorrect == HSpec => []TypeOK
<1>1. HInit => TypeOK
  BY InitTypeOK DEF HInit
<1>2. TypeOK /\ [HNext]_hvars => TypeOK'
  BY NextTypeOK DEF HNext, hvars
<1> QED
  BY <1>1, <1>2, PTL DEF HSpec

-----------------------------------------------------------------------------
(* Staleness *)

\* The inductive invariant behind both bounds.  A lookup that read the key as
\* active is no older than its SELECT; a positive entry was written at most
\* MaxDelay after such a SELECT and loses a tick of TTL for each tick the key
\* may have been inactive; and the same with active and inactive exchanged.
StalenessInv ==
    /\ inactiveFor \in Nat /\ activeFor \in Nat
    /\ cache.verdict = "valid" => inactiveFor + cache.ttl <= CacheTTL + MaxDelay
    /\ cache.verdict = "invalid" => activeFor + cache.ttl <= CacheTTL + MaxDelay
    /\ \A r \in Requests : lookup[r].phase = "storing" =>
          /\ lookup[r].found => inactiveFor <= lookup[r].age
          /\ ~lookup[r].found => activeFor <= lookup[r].age

\* A step that is not a tick of the clock never makes either history clock
\* advance.
LEMMA ClocksOnlyTick ==
    ASSUME HNext, ~Tick, inactiveFor \in Nat, activeFor \in Nat
    PROVE  /\ inactiveFor' \in Nat /\ inactiveFor' <= inactiveFor
           /\ activeFor' \in Nat /\ activeFor' <= activeFor
           /\ ActiveRow(key') => inactiveFor' = 0
           /\ ~ActiveRow(key') => activeFor' = 0
BY DEF HNext

\* What a step other than a tick can do to the entry and to one lookup.
LEMMA StalenessStep ==
    ASSUME TypeOK, Next, ~Tick
    PROVE  /\ \/ cache' = cache
              \/ cache' = NoEntry
              \/ \E r \in Requests :
                    /\ lookup[r].phase = "storing"
                    /\ cache' = [verdict |-> IF lookup[r].found THEN "valid" ELSE "invalid",
                                 ttl |-> CacheTTL]
           /\ \A r \in Requests : lookup'[r].phase = "storing" =>
                 \/ lookup'[r] = lookup[r]
                 \/ /\ lookup'[r] = [Fresh("storing") EXCEPT !.found = Active]
                    /\ key' = key
<1> USE DEF TypeOK
<1>1. ASSUME NEW r \in Requests, Begin(r) \/ CacheHit(r) \/ CacheMiss(r) \/ DbError(r)
      PROVE  /\ cache' = cache
             /\ \A q \in Requests : lookup'[q].phase = "storing" => lookup'[q] = lookup[q]
  BY <1>1 DEF Begin, CacheHit, CacheMiss, DbError, Set, Fresh, Result
<1>2. ASSUME NEW r \in Requests, DbRead(r)
      PROVE  /\ cache' = cache
             /\ \A q \in Requests : lookup'[q].phase = "storing" =>
                   \/ lookup'[q] = lookup[q]
                   \/ /\ lookup'[q] = [Fresh("storing") EXCEPT !.found = Active]
                      /\ key' = key
  BY <1>2 DEF DbRead, Set
<1>3. ASSUME NEW r \in Requests, Store(r)
      PROVE  /\ \/ cache' = cache
                \/ /\ lookup[r].phase = "storing"
                   /\ cache' = [verdict |-> IF lookup[r].found THEN "valid" ELSE "invalid",
                                ttl |-> CacheTTL]
             /\ \A q \in Requests : lookup'[q].phase = "storing" => lookup'[q] = lookup[q]
  BY <1>3 DEF Store, Set, Result
<1>4. ASSUME TouchFails
      PROVE  /\ cache' = cache
             /\ \A q \in Requests : lookup'[q].phase # "storing"
  BY <1>4 DEF TouchFails, Crash, Fresh
<1>5. ASSUME \/ Touched \/ Restart \/ Revoke \/ RevokeAgain \/ DeleteFails \/ Expire
             \/ \E s \in BOOLEAN : SetTenantStatus(s)
      PROVE  cache' = cache /\ lookup' = lookup
  BY <1>5 DEF Touched, Restart, Revoke, RevokeAgain, DeleteFails, Expire, SetTenantStatus
<1>6. ASSUME DeleteEntry PROVE cache' = NoEntry /\ lookup' = lookup
  BY <1>6 DEF DeleteEntry
<1> QED
  BY <1>1, <1>2, <1>3, <1>4, <1>5, <1>6 DEF Next

\* An entry written now starts with its whole TTL.
LEMMA FreshEntryBound ==
    ASSUME NEW n \in Nat, n <= MaxDelay
    PROVE  n + CacheTTL <= CacheTTL + MaxDelay
<1>1. CacheTTL \in Nat /\ MaxDelay \in Nat
  BY AuthAssumption
<1> QED
  BY <1>1

LEMMA StalenessInductive == TypeOK /\ StalenessInv /\ [HNext]_hvars => StalenessInv'
<1> SUFFICES ASSUME TypeOK, StalenessInv, [HNext]_hvars PROVE StalenessInv'
  OBVIOUS
<1>1. CASE HNext /\ Tick
  <2>1. /\ inactiveFor' \in Nat /\ inactiveFor' <= inactiveFor + 1
        /\ activeFor' \in Nat /\ activeFor' <= activeFor + 1
    BY <1>1, AuthAssumption DEF HNext, Later, StalenessInv
  <2>2. /\ cache'.verdict = "valid" => inactiveFor' + cache'.ttl <= CacheTTL + MaxDelay
        /\ cache'.verdict = "invalid" => activeFor' + cache'.ttl <= CacheTTL + MaxDelay
    <3>1. CASE cache.ttl > 1
      <4>1. cache'.verdict = cache.verdict /\ cache'.ttl = cache.ttl - 1
        BY <1>1, <3>1 DEF Tick, TypeOK, Entry
      <4>2. cache.ttl \in Nat
        BY AuthAssumption DEF TypeOK, Entry
      <4> QED
        BY <2>1, <4>1, <4>2, AuthAssumption DEF StalenessInv
    <3>2. CASE ~(cache.ttl > 1)
      BY <1>1, <3>2 DEF Tick, NoEntry
    <3> QED
      BY <3>1, <3>2
  <2>3. ASSUME NEW r \in Requests, lookup'[r].phase = "storing"
        PROVE  /\ lookup'[r].found => inactiveFor' <= lookup'[r].age
               /\ ~lookup'[r].found => activeFor' <= lookup'[r].age
    <3>1. /\ lookup[r].phase = "storing" /\ lookup'[r].found = lookup[r].found
          /\ lookup'[r].age = lookup[r].age + 1
      BY <1>1, <2>3 DEF Tick, TypeOK, Lookup
    <3>2. lookup[r].age \in Nat
      BY AuthAssumption DEF TypeOK, Lookup
    <3> QED
      BY <2>1, <3>1, <3>2 DEF StalenessInv
  <2> QED
    BY <2>1, <2>2, <2>3 DEF StalenessInv
<1>2. CASE HNext /\ ~Tick
  <2>1. /\ inactiveFor' \in Nat /\ inactiveFor' <= inactiveFor
        /\ activeFor' \in Nat /\ activeFor' <= activeFor
        /\ ActiveRow(key') => inactiveFor' = 0
        /\ ~ActiveRow(key') => activeFor' = 0
    BY <1>2, ClocksOnlyTick DEF StalenessInv
  <2>2. /\ cache'.verdict = "valid" => inactiveFor' + cache'.ttl <= CacheTTL + MaxDelay
        /\ cache'.verdict = "invalid" => activeFor' + cache'.ttl <= CacheTTL + MaxDelay
    <3>1. CASE cache' = cache
      <4>1. cache.ttl \in Nat
        BY AuthAssumption DEF TypeOK, Entry
      <4> QED
        BY <2>1, <3>1, <4>1, AuthAssumption DEF StalenessInv
    <3>2. CASE cache' = NoEntry
      BY <3>2 DEF NoEntry
    <3>3. ASSUME NEW r \in Requests, lookup[r].phase = "storing",
                 cache' = [verdict |-> IF lookup[r].found THEN "valid" ELSE "invalid",
                           ttl |-> CacheTTL]
          PROVE  /\ cache'.verdict = "valid" => inactiveFor' + cache'.ttl <= CacheTTL + MaxDelay
                 /\ cache'.verdict = "invalid" => activeFor' + cache'.ttl <= CacheTTL + MaxDelay
      <4>1. lookup[r].age \in Nat /\ lookup[r].age <= MaxDelay
        BY AuthAssumption DEF TypeOK, Lookup
      <4>2. cache'.ttl = CacheTTL
        BY <3>3
      <4>3. CASE lookup[r].found
        <5>1. cache'.verdict = "valid" /\ inactiveFor <= lookup[r].age
          BY <3>3, <4>3 DEF StalenessInv
        <5>2. inactiveFor \in Nat
          BY DEF StalenessInv
        <5>3. inactiveFor' <= MaxDelay
          BY <2>1, <4>1, <5>1, <5>2, AuthAssumption
        <5>4. inactiveFor' + CacheTTL <= CacheTTL + MaxDelay
          BY <2>1, <5>3, FreshEntryBound
        <5> QED
          BY <4>2, <5>1, <5>4
      <4>4. CASE ~lookup[r].found
        <5>1. cache'.verdict = "invalid" /\ activeFor <= lookup[r].age
          BY <3>3, <4>4 DEF StalenessInv
        <5>2. activeFor \in Nat
          BY DEF StalenessInv
        <5>3. activeFor' <= MaxDelay
          BY <2>1, <4>1, <5>1, <5>2, AuthAssumption
        <5>4. activeFor' + CacheTTL <= CacheTTL + MaxDelay
          BY <2>1, <5>3, FreshEntryBound
        <5> QED
          BY <4>2, <5>1, <5>4
      <4> QED
        BY <4>3, <4>4
    <3> QED
      BY <1>2, <3>1, <3>2, <3>3, StalenessStep DEF HNext
  <2>3. ASSUME NEW r \in Requests, lookup'[r].phase = "storing"
        PROVE  /\ lookup'[r].found => inactiveFor' <= lookup'[r].age
               /\ ~lookup'[r].found => activeFor' <= lookup'[r].age
    <3>1. CASE lookup'[r] = lookup[r]
      <4>1. lookup[r].age \in Nat
        BY AuthAssumption DEF TypeOK, Lookup
      <4> QED
        BY <2>1, <2>3, <3>1, <4>1 DEF StalenessInv
    <3>2. CASE lookup'[r] = [Fresh("storing") EXCEPT !.found = Active] /\ key' = key
      <4>1. lookup'[r].found = Active /\ lookup'[r].age = 0
        BY <3>2 DEF Fresh
      <4>2. Active => inactiveFor' = 0
        BY <2>1, <3>2 DEF Active
      <4>3. ~Active => activeFor' = 0
        BY <2>1, <3>2 DEF Active
      <4> QED
        BY <4>1, <4>2, <4>3
    <3> QED
      BY <1>2, <2>3, <3>1, <3>2, StalenessStep DEF HNext
  <2> QED
    BY <2>1, <2>2, <2>3 DEF StalenessInv
<1>3. CASE UNCHANGED hvars
  BY <1>3 DEF hvars, vars, StalenessInv
<1> QED
  BY <1>1, <1>2, <1>3

\* Whatever a cache entry asserts has been false for at most MaxDelay plus the
\* part of CacheTTL it has used up.
THEOREM StalenessInvariant == HSpec => []StalenessInv
<1>1. HInit => StalenessInv
  BY AuthAssumption DEF HInit, Init, StalenessInv, NoEntry, Fresh, Horizon
<1> QED
  BY <1>1, StalenessInductive, TypeCorrect, PTL DEF HSpec

\* A verdict comes either from the entry or from the request's own SELECT.
LEMMA VerdictOrigin ==
    ASSUME TypeOK, Next, NEW r \in Requests, NEW ok \in BOOLEAN,
           Ends(r, IF ok THEN "accepted" ELSE "rejected")
    PROVE  \/ cache.verdict = (IF ok THEN "valid" ELSE "invalid")
           \/ lookup[r].phase = "storing" /\ lookup[r].found = ok
<1> USE DEF TypeOK, Ends
<1>1. ASSUME NEW q \in Requests, CacheHit(q)
      PROVE  cache.verdict = (IF ok THEN "valid" ELSE "invalid")
  BY <1>1 DEF CacheHit, Set, Result, Verdict, Entry
<1>2. ASSUME NEW q \in Requests, Store(q)
      PROVE  lookup[r].phase = "storing" /\ lookup[r].found = ok
  BY <1>2 DEF Store, Set, Result, Verdict, Lookup
<1>3. ASSUME NEW q \in Requests, Begin(q) \/ CacheMiss(q) \/ DbRead(q) \/ DbError(q)
      PROVE  FALSE
  BY <1>3 DEF Begin, CacheMiss, DbRead, DbError, Set, Fresh, Result
<1>4. ASSUME TouchFails PROVE FALSE
  BY <1>4 DEF TouchFails, Crash, Fresh
<1>5. ASSUME Tick PROVE FALSE
  BY <1>5 DEF Tick
<1>6. ASSUME \/ Touched \/ Restart \/ Revoke \/ RevokeAgain \/ DeleteEntry \/ DeleteFails
             \/ Expire \/ \E s \in BOOLEAN : SetTenantStatus(s)
      PROVE  FALSE
  BY <1>6 DEF Touched, Restart, Revoke, RevokeAgain, DeleteEntry, DeleteFails, Expire,
              SetTenantStatus
<1> QED
  BY <1>1, <1>2, <1>3, <1>4, <1>5, <1>6 DEF Next

\* An accepted key was active at most CacheTTL + MaxDelay ticks ago.
THEOREM AcceptanceIsBounded == HSpec => AcceptanceBounded
<1>1. TypeOK /\ StalenessInv /\ [HNext]_hvars =>
        [\A r \in Requests :
            Ends(r, "accepted") => inactiveFor <= CacheTTL + MaxDelay]_hvars
  <2> SUFFICES ASSUME TypeOK, StalenessInv, HNext, NEW r \in Requests,
                      Ends(r, "accepted")
               PROVE  inactiveFor <= CacheTTL + MaxDelay
    OBVIOUS
  <2>1. \/ cache.verdict = "valid"
        \/ lookup[r].phase = "storing" /\ lookup[r].found = TRUE
    BY VerdictOrigin DEF HNext
  <2>2. cache.ttl \in Nat /\ lookup[r].age \in 0 .. MaxDelay
    BY AuthAssumption DEF TypeOK, Entry, Lookup
  <2> QED
    BY <2>1, <2>2, AuthAssumption DEF StalenessInv
<1> QED
  BY <1>1, TypeCorrect, StalenessInvariant, PTL DEF HSpec, AcceptanceBounded

\* A rejected key was inactive at most CacheTTL + MaxDelay ticks ago.
THEOREM RejectionIsBounded == HSpec => RejectionBounded
<1>1. TypeOK /\ StalenessInv /\ [HNext]_hvars =>
        [\A r \in Requests :
            Ends(r, "rejected") => activeFor <= CacheTTL + MaxDelay]_hvars
  <2> SUFFICES ASSUME TypeOK, StalenessInv, HNext, NEW r \in Requests,
                      Ends(r, "rejected")
               PROVE  activeFor <= CacheTTL + MaxDelay
    OBVIOUS
  <2>1. \/ cache.verdict = "invalid"
        \/ lookup[r].phase = "storing" /\ lookup[r].found = FALSE
    BY VerdictOrigin DEF HNext
  <2>2. cache.ttl \in Nat /\ lookup[r].age \in 0 .. MaxDelay
    BY AuthAssumption DEF TypeOK, Entry, Lookup
  <2> QED
    BY <2>1, <2>2, AuthAssumption DEF StalenessInv
<1> QED
  BY <1>1, TypeCorrect, StalenessInvariant, PTL DEF HSpec, RejectionBounded

-----------------------------------------------------------------------------
(* Revocation *)

\* The inductive invariant.  A DELETE under way or answered with 204 has
\* revoked the row, for good; unless a lookup was racing with it, no lookup
\* can still write the row as active, and once the entry has been deleted
\* nothing puts a positive one back.
RevokedInv ==
    /\ racing \in BOOLEAN
    /\ \A r \in Requests : informed[r] \subseteq answers
    /\ revoker = "deleting" \/ 204 \in answers => key.revoked
    /\ key.revoked /\ ~racing =>
          \A r \in Requests : lookup[r].phase = "storing" => ~lookup[r].found
    /\ 204 \in answers /\ ~racing => cache.verdict # "valid"

\* What a step can do to the row's revocation and to the revocation's progress.
LEMMA RevocationStep ==
    ASSUME TypeOK, Next
    PROVE  /\ key'.revoked = key.revoked \/ Revoke
           /\ revoker' = "deleting" => revoker = "deleting" \/ Revoke
           /\ answers \subseteq answers'
           /\ 204 \in answers' => 204 \in answers \/ DeleteEntry
           /\ Revoke => key'.revoked /\ lookup' = lookup
<1> USE DEF TypeOK
<1>1. ASSUME NEW r \in Requests, \/ Begin(r) \/ CacheHit(r) \/ CacheMiss(r)
                                 \/ DbRead(r) \/ DbError(r) \/ Store(r)
      PROVE  UNCHANGED <<key, revoker, answers>>
  BY <1>1 DEF Begin, CacheHit, CacheMiss, DbRead, DbError, Store
<1>2. ASSUME Touched \/ TouchFails \/ Restart \/ Tick
      PROVE  /\ UNCHANGED <<key, answers>>
             /\ revoker' = revoker \/ revoker' = "idle"
  BY <1>2 DEF Touched, TouchFails, Crash, Restart, Tick
<1>3. ASSUME RevokeAgain \/ DeleteFails
      PROVE  /\ key' = key /\ (revoker' = revoker \/ revoker' = "idle")
             /\ answers \subseteq answers' /\ (204 \in answers' => 204 \in answers)
  BY <1>3 DEF RevokeAgain, DeleteFails
<1>4. ASSUME Expire \/ \E s \in BOOLEAN : SetTenantStatus(s)
      PROVE  key'.revoked = key.revoked /\ UNCHANGED <<revoker, answers>>
  BY <1>4 DEF Expire, SetTenantStatus, KeyRow
<1>5. ASSUME Revoke
      PROVE  key'.revoked /\ UNCHANGED <<lookup, answers>>
  BY <1>5 DEF Revoke, KeyRow
<1>6. ASSUME DeleteEntry
      PROVE  key' = key /\ revoker' = "idle" /\ answers \subseteq answers'
  BY <1>6 DEF DeleteEntry
<1>7. Revoke => key'.revoked /\ lookup' = lookup
  BY <1>5
<1>8. CASE \E r \in Requests : \/ Begin(r) \/ CacheHit(r) \/ CacheMiss(r)
                               \/ DbRead(r) \/ DbError(r) \/ Store(r)
  BY <1>1, <1>7, <1>8
<1>9. CASE Touched \/ TouchFails \/ Restart \/ Tick
  BY <1>2, <1>7, <1>9
<1> QED
  BY <1>3, <1>4, <1>5, <1>6, <1>7, <1>8, <1>9 DEF Next

\* What a tick leaves alone.
LEMMA TickKeeps ==
    ASSUME TypeOK, Tick
    PROVE  /\ cache'.verdict = cache.verdict \/ cache' = NoEntry
           /\ \A r \in Requests : /\ lookup'[r].phase = lookup[r].phase
                                  /\ lookup'[r].found = lookup[r].found
BY DEF Tick, TypeOK, Entry, Lookup

LEMMA RevokedInductive == TypeOK /\ RevokedInv /\ [HNext]_hvars => RevokedInv'
<1> SUFFICES ASSUME TypeOK, RevokedInv, HNext PROVE RevokedInv'
  BY DEF hvars, vars, RevokedInv
<1>1. /\ key'.revoked = key.revoked \/ Revoke
      /\ revoker' = "deleting" => revoker = "deleting" \/ Revoke
      /\ answers \subseteq answers'
      /\ 204 \in answers' => 204 \in answers \/ DeleteEntry
      /\ Revoke => key'.revoked /\ lookup' = lookup
  BY RevocationStep DEF HNext
<1>2. racing' \in BOOLEAN /\ (~racing' => ~racing)
  BY DEF HNext, RevokedInv
<1>3. \A r \in Requests : informed'[r] \subseteq answers'
  BY <1>1 DEF HNext, RevokedInv
<1>4. revoker' = "deleting" \/ 204 \in answers' => key'.revoked
  <2>1. DeleteEntry => revoker = "deleting" /\ key' = key
    BY DEF DeleteEntry
  <2> QED
    BY <1>1, <2>1 DEF RevokedInv
<1>5. ASSUME key'.revoked, ~racing', NEW r \in Requests, lookup'[r].phase = "storing"
      PROVE  ~lookup'[r].found
  <2>1. CASE Tick
    <3>1. key' = key
      BY <2>1 DEF Tick
    <3> QED
      BY <1>2, <1>5, <2>1, <3>1, TickKeeps DEF RevokedInv
  <2>2. CASE ~Tick
    <3>1. \/ lookup'[r] = lookup[r]
          \/ lookup'[r] = [Fresh("storing") EXCEPT !.found = Active] /\ key' = key
      BY <1>5, <2>2, StalenessStep DEF HNext
    <3>2. CASE lookup'[r] = lookup[r] /\ key.revoked
      BY <1>2, <1>5, <3>2 DEF RevokedInv
    <3>3. CASE lookup'[r] = lookup[r] /\ Revoke
      BY <1>5, <3>3 DEF HNext
    <3>4. CASE lookup'[r] = [Fresh("storing") EXCEPT !.found = Active] /\ key' = key
      <4>1. ~Active
        BY <1>5, <3>4 DEF Active, ActiveRow
      <4> QED
        BY <3>4, <4>1 DEF Fresh
    <3> QED
      BY <1>1, <1>5, <3>1, <3>2, <3>3, <3>4
  <2> QED
    BY <2>1, <2>2
<1>6. ASSUME 204 \in answers', ~racing' PROVE cache'.verdict # "valid"
  <2>1. CASE DeleteEntry
    BY <2>1 DEF DeleteEntry, NoEntry
  <2>2. CASE Tick
    <3>1. answers' = answers
      BY <2>2 DEF Tick
    <3> QED
      BY <1>2, <1>6, <2>2, <3>1, TickKeeps DEF RevokedInv, NoEntry
  <2>3. CASE ~DeleteEntry /\ ~Tick
    <3>1. 204 \in answers /\ key.revoked /\ ~racing
      BY <1>1, <1>2, <1>6, <2>3 DEF RevokedInv
    <3>2. \/ cache' = cache
          \/ cache' = NoEntry
          \/ \E r \in Requests :
                /\ lookup[r].phase = "storing"
                /\ cache' = [verdict |-> IF lookup[r].found THEN "valid" ELSE "invalid",
                             ttl |-> CacheTTL]
      BY <2>3, StalenessStep DEF HNext
    <3> QED
      BY <3>1, <3>2 DEF RevokedInv, NoEntry
  <2> QED
    BY <2>1, <2>2, <2>3
<1> QED
  BY <1>2, <1>3, <1>4, <1>5, <1>6 DEF RevokedInv

\* The invariant holds for any number of requests, failures and restarts.
THEOREM RevokedInvariant == HSpec => []RevokedInv
<1>1. ASSUME HInit PROVE RevokedInv
  <2>1. racing \in BOOLEAN
    BY <1>1, Zenon DEF HInit
  <2>2. answers = {} /\ revoker = "idle" /\ ~key.revoked
    BY <1>1 DEF HInit, Init
  <2>3. \A r \in Requests : informed[r] \subseteq answers
    BY <1>1 DEF HInit
  <2> QED
    BY <2>1, <2>2, <2>3 DEF RevokedInv
<1> QED
  BY <1>1, RevokedInductive, TypeCorrect, PTL DEF HSpec

\* A request that begins after DELETE has answered 204 is accepted only if a
\* lookup stood between its SELECT and its SET when the row was revoked.
THEOREM RevocationHolds == HSpec => RevokedUnlessRacing
<1>1. TypeOK /\ RevokedInv /\ [HNext]_hvars =>
        [\A r \in Requests :
            Ends(r, "accepted") /\ 204 \in informed[r] => racing]_hvars
  <2> SUFFICES ASSUME TypeOK, RevokedInv, HNext, NEW r \in Requests,
                      Ends(r, "accepted"), 204 \in informed[r]
               PROVE  racing
    OBVIOUS
  <2>1. 204 \in answers /\ key.revoked
    BY DEF RevokedInv
  <2>2. \/ cache.verdict = "valid"
        \/ lookup[r].phase = "storing" /\ lookup[r].found = TRUE
    BY VerdictOrigin DEF HNext
  <2> QED
    BY <2>1, <2>2 DEF RevokedInv
<1> QED
  BY <1>1, TypeCorrect, RevokedInvariant, PTL DEF HSpec, RevokedUnlessRacing

=============================================================================
