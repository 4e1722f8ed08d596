--------------------------- MODULE HotReloadProofs ---------------------------
(***************************************************************************)
(* Proofs about HotReload: for any configs, requests, writes and signals.  *)
(***************************************************************************)
EXTENDS HotReloadProps, TLAPS

-----------------------------------------------------------------------------
(* Type correctness.  The generation counts reloads, and each of them has  *)
(* used up an event.                                                       *)

Route == {Idle.route} \cup UNION {{c.routes[i] : i \in DOMAIN c.routes} : c \in Configs}

RequestState ==
    [at : {"idle", "auth", "limit", "cache", "upstream", "done", "misconfigured", "bad_gateway"},
     route : Route, asked : {"none", "redis", "memory"}]

Unhandled == IF changed THEN 1 ELSE 0

Typed ==
    /\ file \in Configs \cup {Broken} /\ booted \in Configs /\ config \in Configs
    /\ watching \in BOOLEAN /\ changed \in BOOLEAN /\ events \in 0 .. MaxEvents
    /\ gen \in Nat /\ gen + Unhandled <= events
    /\ phase \in {"serving", "draining", "closed"}
    /\ \A i \in intervals : i[1] \in 0 .. gen
    /\ req \in [Requests -> RequestState]

LEMMA RouteOn == \A route \in Route : route.on \subseteq Feature
<1>1. ASSUME NEW c \in Configs, NEW i \in DOMAIN c.routes
      PROVE  c.routes[i].on \subseteq Feature
  BY HotReloadAssumption
<1>2. Idle.route.on = {}
  BY DEF Idle
<1> QED
  BY <1>1, <1>2 DEF Route

LEMMA IdleState == Idle \in RequestState
<1>1. /\ Idle = [at |-> "idle", route |-> Idle.route, asked |-> "none"]
      /\ Idle.route \in Route
  BY DEF Idle, Route
<1> QED
  BY <1>1 DEF RequestState

\* The operators that take a request on to its next await.
LEMMA RequestSteps ==
    ASSUME Typed, NEW q \in RequestState
    PROVE  /\ Dispatch(q) \in RequestState /\ LookUp(q) \in RequestState
           /\ Limit(q) \in RequestState /\ Begin(q) \in RequestState
<1>1. \A p \in RequestState : Dispatch(p) \in RequestState
  BY DEF Dispatch, RequestState
<1>2. \A p \in RequestState : LookUp(p) \in RequestState
  BY <1>1 DEF LookUp, RequestState
<1>3. \A p \in RequestState : Limit(p) \in RequestState
  <2> TAKE p \in RequestState
  <2>1. /\ [p EXCEPT !.at = "limit", !.asked = "redis"] \in RequestState
        /\ [p EXCEPT !.asked = "memory"] \in RequestState
    BY DEF RequestState
  <2> QED
    BY <1>2, <2>1 DEF Limit
<1>4. Begin(q) \in RequestState
  BY <1>3 DEF Begin, RequestState
<1> QED
  BY <1>1, <1>2, <1>3, <1>4

LEMMA BecomesTyped ==
    ASSUME Typed, NEW r \in Requests, NEW q \in RequestState, Becomes(r, q)
    PROVE  Typed'
BY DEF Becomes, Typed, Unhandled

LEMMA InitTyped == Init => Typed
<1> SUFFICES ASSUME Init PROVE Typed
  OBVIOUS
<1>1. \A i \in intervals : i[1] \in 0 .. gen
  BY DEF Init, IntervalsOf
<1>2. /\ booted \in Configs /\ config = booted /\ file = booted /\ gen = 0
      /\ changed = FALSE /\ events = 0 /\ phase = "serving"
      /\ req \in [Requests -> RequestState]
  BY IdleState DEF Init
<1>3. events \in 0 .. MaxEvents /\ gen \in Nat
  BY <1>2, HotReloadAssumption
<1>4. gen + Unhandled <= events
  BY <1>2 DEF Unhandled
<1>5. changed \in BOOLEAN /\ watching \in BOOLEAN
  BY <1>2, HotReloadAssumption DEF Init
<1> QED
  BY <1>1, <1>2, <1>3, <1>4, <1>5 DEF Typed

LEMMA NextTyped == Typed /\ [Next]_vars => Typed'
<1> SUFFICES ASSUME Typed, [Next]_vars PROVE Typed'
  OBVIOUS
<1>1. ASSUME NEW c \in Configs \cup {Broken}, Write(c) \/ Replace(c) PROVE Typed'
  <2>1. /\ events < MaxEvents /\ events' = events + 1 /\ file' = c
        /\ UNCHANGED <<booted, config, gen, intervals, phase, req>>
    BY <1>1 DEF Write, Replace
  <2>2. changed' \in BOOLEAN /\ watching' \in BOOLEAN
    BY <1>1, Zenon DEF Write, Replace, Typed
  <2>3. gen + Unhandled' <= events'
    <3>1. gen \in Nat /\ events \in 0 .. MaxEvents /\ gen <= events
      BY HotReloadAssumption DEF Typed, Unhandled
    <3>2. Unhandled' = 0 \/ Unhandled' = 1
      BY DEF Unhandled
    <3>3. gen + 0 <= events + 1 /\ gen + 1 <= events + 1
      BY <3>1
    <3> QED
      BY <2>1, <3>2, <3>3
  <2> QED
    BY <2>1, <2>2, <2>3, HotReloadAssumption DEF Typed
<1>2. ASSUME Sighup PROVE Typed'
  BY <1>2, HotReloadAssumption DEF Sighup, Typed, Unhandled
<1>3. ASSUME Reload PROVE Typed'
  <2>1. /\ changed /\ changed' = FALSE
        /\ UNCHANGED <<file, watching, events, booted, phase, req>>
    BY <1>3 DEF Reload
  <2>2. changed' \in BOOLEAN
    BY <2>1
  <2>3. Unhandled = 1 /\ Unhandled' = 0
    BY <2>1 DEF Unhandled
  <2>4. CASE file # Broken /\ Compatible(file)
    <3>1. /\ config' = file /\ gen' = gen + 1
          /\ intervals' = (intervals \ Closable(gen, config)) \cup IntervalsOf(gen + 1, file)
      BY <1>3, <2>4 DEF Reload
    <3>2. gen \in Nat /\ gen + 1 <= events /\ file \in Configs
      BY <2>3, <2>4 DEF Typed
    <3>3. \A i \in IntervalsOf(gen + 1, file) : i[1] = gen + 1
      BY DEF IntervalsOf
    <3>4. \A i \in intervals : i[1] \in 0 .. gen + 1
      BY <3>2 DEF Typed
    <3>5. \A i \in intervals' : i[1] \in 0 .. gen'
      BY <3>1, <3>2, <3>3, <3>4
    <3>6. gen' + Unhandled' <= events'
      BY <2>1, <2>3, <3>1, <3>2
    <3>7. gen' \in Nat /\ config' \in Configs
      BY <3>1, <3>2
    <3> QED
      BY <2>1, <2>2, <3>5, <3>6, <3>7 DEF Typed
  <2>5. CASE ~(file # Broken /\ Compatible(file))
    <3>1. UNCHANGED <<config, gen, intervals>>
      BY <1>3, <2>5 DEF Reload
    <3>2. gen' + Unhandled' <= events'
      <4>1. gen \in Nat /\ gen + 1 <= events /\ events \in 0 .. MaxEvents
        BY <2>3 DEF Typed
      <4> QED
        BY <2>1, <2>3, <3>1, <4>1
    <3> QED
      BY <2>1, <2>2, <3>1, <3>2 DEF Typed
  <2> QED
    BY <2>4, <2>5
<1>4. ASSUME Shutdown PROVE Typed'
  BY <1>4 DEF Shutdown, Typed, Unhandled
<1>5. ASSUME Close PROVE Typed'
  BY <1>5 DEF Close, Typed, Unhandled
<1>6. ASSUME NEW r \in Requests, Arrive(r) PROVE Typed'
  <2>1. PICK i \in DOMAIN config.routes :
           Becomes(r, Begin([req[r] EXCEPT !.route = config.routes[i]]))
    BY <1>6 DEF Arrive
  <2>2. PICK q : q = [req[r] EXCEPT !.route = config.routes[i]]
    OBVIOUS
  <2>3. q \in RequestState
    BY <2>2 DEF Typed, RequestState, Route
  <2>4. PICK p : p = Begin(q)
    OBVIOUS
  <2> QED
    BY <2>1, <2>2, <2>3, <2>4, RequestSteps, BecomesTyped
<1>7. ASSUME NEW r \in Requests,
             Authenticated(r) \/ Limited(r) \/ LookedUp(r) \/ Answered(r)
      PROVE  Typed'
  <2>1. req[r] \in RequestState
    BY DEF Typed
  <2>2. Done(r) \in RequestState
    BY <2>1 DEF Done, RequestState
  <2>3. PICK q \in RequestState : Becomes(r, q)
    BY <1>7, <2>1, <2>2, RequestSteps DEF Authenticated, Limited, LookedUp, Answered
  <2> QED
    BY <2>3, BecomesTyped
<1>8. CASE UNCHANGED vars
  BY <1>8 DEF vars, Typed, Unhandled
<1> QED
  BY <1>1, <1>2, <1>3, <1>4, <1>5, <1>6, <1>7, <1>8 DEF Next

LEMMA AlwaysTyped == Spec => []Typed
BY InitTyped, NextTyped, PTL DEF Spec

\* The state of the watcher, of the runtime and of the requests is well typed.
THEOREM TypeCorrect == Spec => []TypeOK
<1>1. Typed => TypeOK
  <2> SUFFICES ASSUME Typed PROVE TypeOK
    OBVIOUS
  <2>1. gen \in 0 .. events /\ \A i \in intervals : i[1] \in 0 .. MaxEvents
    BY HotReloadAssumption DEF Typed, Unhandled
  <2>2. ASSUME NEW r \in Requests
        PROVE  /\ req[r].at \in {"idle", "auth", "limit", "cache", "upstream",
                                 "done", "misconfigured", "bad_gateway"}
               /\ req[r].route.on \subseteq Feature
               /\ req[r].asked \in {"none", "redis", "memory"}
    <3>1. req[r] \in RequestState
      BY DEF Typed
    <3>2. req[r].route \in Route
      BY <3>1 DEF RequestState
    <3> QED
      BY <3>1, <3>2, RouteOn DEF RequestState
  <2> QED
    BY <2>1, <2>2 DEF Typed, TypeOK
<1> QED
  BY <1>1, AlwaysTyped, PTL

-----------------------------------------------------------------------------
(* Safety *)

\* A Map by route id holds every balancer if the ids are distinct ...
LEMMA AllClosable ==
    ASSUME DistinctIds, NEW g, NEW c \in Configs
    PROVE  IntervalsOf(g, c) \subseteq Closable(g, c)
<1> SUFFICES ASSUME NEW k \in DOMAIN c.routes, "probed" \in c.routes[k].on
             PROVE  <<g, k>> \in Closable(g, c)
  BY DEF IntervalsOf
<1>1. \A m \in DOMAIN c.routes : c.routes[m].id = c.routes[k].id => m = k
  BY DEF DistinctIds
<1> QED
  BY <1>1, HotReloadAssumption DEF Closable

\* ... so that a reload stops exactly the intervals of the state before it.
THEOREM IntervalsAreExact ==
    ASSUME DistinctIds
    PROVE  Spec => []IntervalsExact
<1>1. Init => IntervalsExact
  BY DEF Init, IntervalsExact
<1>2. Typed /\ IntervalsExact /\ [Next]_vars => IntervalsExact'
  <2> SUFFICES ASSUME Typed, IntervalsExact, [Next]_vars PROVE IntervalsExact'
    OBVIOUS
  <2>1. IntervalsOf(gen, config) \subseteq Closable(gen, config)
    BY AllClosable DEF Typed
  <2>2. CASE Reload
    BY <2>1, <2>2 DEF Reload, IntervalsExact, IntervalsOf
  <2>3. CASE Close
    BY <2>1, <2>3 DEF Close, IntervalsExact
  <2>4. CASE Shutdown
    BY <2>4 DEF Shutdown, IntervalsExact, IntervalsOf
  <2>5. CASE UNCHANGED <<config, gen, intervals, phase>>
    BY <2>5 DEF IntervalsExact, IntervalsOf
  <2> QED
    BY <2>2, <2>3, <2>4, <2>5 DEF Next, vars, Write, Replace, Sighup, Arrive,
       Authenticated, Limited, LookedUp, Answered, Becomes
<1> QED
  BY <1>1, <1>2, AlwaysTyped, PTL DEF Spec

=============================================================================
