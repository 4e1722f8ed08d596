---------------------------- MODULE GatewayProofs ----------------------------
(***************************************************************************)
(* Proofs about Gateway: for any requests, inputs and configs, with any    *)
(* number of reloads and of connections lost.                              *)
(***************************************************************************)
EXTENDS GatewayProps, FiniteSetTheorems, WellFoundedInduction, TLAPS

-----------------------------------------------------------------------------
(* A request between two awaits *)

Headers == {"*", "none"} \cup {in.origin : in \in Inputs}
Paths == {<<>>} \cup {RewritePath(route, in.path) : route \in Routes, in \in Inputs}

RequestState ==
    [at : {"idle", "auth", "gate", "upstream", "sent", "done", "open", "gone"},
     in : Inputs \cup {NoRoute}, route : Routes \cup {NoRoute}, era : Nat,
     tenant : {"none"} \cup {in.tenant : in \in Inputs}, store : Nat,
     waiting : SUBSET Key, granted : SUBSET Key, refused : SUBSET Key,
     failed : BOOLEAN, passed : BOOLEAN, path : Paths, status : Nat, cors : Headers]

\* What HeldToAPolicy says of one request that has passed.
MayPass(q) ==
    \/ Checks(q) \subseteq q.granted
    \/ q.failed /\ redis = "open"
    \/ \E i \in q.era .. Len(log) : ~Limited(log[i], q.route.id)

\* Every request, wherever it is ...
Sound(q) ==
    /\ q \in RequestState
    /\ q.era \in 1 .. Len(log) /\ q.store \in 0 .. Len(log)
    /\ q.passed => MayPass(q)
    /\ q.at = "upstream" => q.path # <<>> /\ Head(q.path) = "/"
    /\ q.at \in {"sent", "done"} => Shared(q)

\* ... one that is being handled ...
Handled(q) == q.in \in Inputs /\ q.route \in Routes

\* ... and one at its await.
Placed(q) ==
    /\ q.at \in {"idle", "auth", "gate"} => ~q.passed
    /\ q.at \in {"idle", "auth"} => q.granted = {} /\ q.refused = {}
    /\ q.at # "idle" => q.in \in Inputs
    /\ q.at \in {"auth", "gate", "upstream"} => Handled(q)
    /\ q.at = "gate" => redis # "none" /\ Checks(q) = q.waiting \cup q.granted \cup q.refused
    /\ q.at = "upstream" => q.passed

\* The fields that a step which grants nothing leaves as they are.
SameGrants(p, q) == p.granted = q.granted /\ p.store = q.store

RoutesOK ==
    /\ log \in Seq(Configs) /\ Len(log) \in 1 .. MaxReloads + 1
    /\ redis \in {"none", "open", "closed"}
    /\ losses \in 0 .. MaxLosses

LEMMA ConfigRoutes ==
    ASSUME RoutesOK
    PROVE  Config \in Configs /\ \A i \in DOMAIN Config : Config[i] \in Routes
BY DEF RoutesOK, Config, Routes

LEMMA ChecksAreKeys ==
    ASSUME NEW q, Handled(q)
    PROVE  Checks(q) \subseteq Key
<1>1. Checks(q) \subseteq KeysOf(q.route, q.in)
  BY DEF Checks
<1> QED
  BY <1>1 DEF Handled, Key

LEMMA RewrittenPath ==
    ASSUME NEW route \in Routes, NEW in \in Inputs
    PROVE  /\ RewritePath(route, in.path) \in Paths
           /\ RewritePath(route, in.path) # <<>>
           /\ Head(RewritePath(route, in.path)) = "/"
<1>1. RewritePath(route, in.path) \in Paths
  BY DEF Paths
<1>2. in.path \in Seq(STRING) /\ in.path # <<>> /\ Head(in.path) = "/"
  BY GatewayAssumption
<1>3. route.strip \in Seq(STRING)
  BY GatewayAssumption
<1>4. CASE RewritePath(route, in.path) = in.path
  BY <1>1, <1>2, <1>4
<1>5. CASE RewritePath(route, in.path) # in.path
  <2> DEFINE rest == SubSeq(in.path, Len(route.strip) + 1, Len(in.path))
  <2>1. rest \in Seq(STRING)
    BY <1>2, <1>3
  <2>2. RewritePath(route, in.path) =
            IF rest # <<>> /\ Head(rest) = "/" THEN rest ELSE <<"/">> \o rest
    BY <1>5 DEF RewritePath
  <2> HIDE DEF rest
  <2>3. <<"/">> \o rest # <<>> /\ Head(<<"/">> \o rest) = "/"
    BY <2>1
  <2> QED
    BY <1>1, <2>2, <2>3
<1> QED
  BY <1>4, <1>5

LEMMA LeastNatural ==
    ASSUME NEW T \in SUBSET Nat, T # {}
    PROVE  \E n \in T : \A m \in T : n <= m
<1>1. IsWellFoundedOn(OpToRel(<, Nat), Nat)
  BY NatLessThanWellFounded
<1>2. PICK n \in T : \A m \in T : ~ (<<m, n>> \in OpToRel(<, Nat))
  BY <1>1, WFMin, Zenon
<1>3. ASSUME NEW m \in T PROVE n <= m
  <2>1. ~(<<m, n>> \in OpToRel(<, Nat))
    BY <1>2
  <2>2. m \in Nat /\ n \in Nat
    OBVIOUS
  <2>3. ~(m < n)
    BY <2>1, <2>2 DEF OpToRel
  <2> QED
    BY <2>2, <2>3
<1> QED
  BY <1>3

LEMMA FirstIsLeast ==
    ASSUME NEW hits \in SUBSET Nat, hits # {}
    PROVE  First(hits) \in hits /\ \A i \in hits : First(hits) <= i
<1>1. \E n \in hits : \A i \in hits : n <= i
  BY LeastNatural
<1> QED
  BY <1>1, Zenon DEF First, Min

-----------------------------------------------------------------------------
(* Who may read an answer *)

\* The header shares an answer as the current config says.
LEMMA HeaderShares ==
    ASSUME RoutesOK, NEW q, q.era \in 1 .. Len(log), q.in \in Inputs,
           NEW p, p.in = q.in, p.route = q.route, p.era = q.era, p.cors = Header(q)
    PROVE  Shared(p)
<1> DEFINE origin == q.in.origin
           named == {i \in DOMAIN Config : Config[i].id = q.route.id}
           by == {i \in named : i = First(named) /\ IsOriginAllowed(Config[i].cors, origin)}
<1>1. Header(q) = IF origin = NoOrigin \/ by = {} THEN "none"
                  ELSE AllowOrigin(Config[First(named)].cors, origin)
  BY DEF Header
<1>2. Named(Config, p.route.id) \in Met(p)
  BY DEF Met, Config, RoutesOK
<1>3. \A i \in DOMAIN Config : Config[i] \in Routes /\ i \in Nat
  BY ConfigRoutes, GatewayAssumption
<1>4. \A i \in named : Config[i] \in Named(Config, p.route.id)
  BY <1>3 DEF Named
<1>5. origin # "none"
  BY GatewayAssumption
<1>6. CASE origin # NoOrigin /\ by # {}
  <2>1. PICK i \in named : i = First(named) /\ IsOriginAllowed(Config[i].cors, origin)
    BY <1>6
  <2>2. p.cors = AllowOrigin(Config[i].cors, origin)
    BY <1>1, <1>6, <2>1
  <2>3. /\ p.cors # "none"
        /\ p.cors = "*" => origin = "*" \/ ~Config[i].cors.credentials
    BY <1>5, <2>2 DEF AllowOrigin
  <2>4. Config[i] \in Named(Config, p.route.id)
    BY <1>4, <2>1
  <2> HIDE DEF named, by
  <2>5. \E route \in Named(Config, p.route.id) :
           /\ origin # NoOrigin /\ IsOriginAllowed(route.cors, origin)
           /\ p.cors = "*" => origin = "*" \/ ~route.cors.credentials
    BY <1>6, <2>1, <2>3, <2>4
  <2> QED
    BY <1>2, <2>3, <2>5 DEF Shared
<1>7. CASE ~(origin # NoOrigin /\ by # {})
  <2>1. p.cors = "none"
    BY <1>1, <1>7
  <2>2. ASSUME origin # NoOrigin, Named(Config, p.route.id) # {},
               \A route \in Named(Config, p.route.id) : IsOriginAllowed(route.cors, origin)
        PROVE  FALSE
    <3>1. named # {} /\ named \in SUBSET Nat
      BY <1>3, <2>2 DEF Named
    <3>2. First(named) \in named
      <4> HIDE DEF named
      <4> QED
        BY <3>1, FirstIsLeast
    <3>3. IsOriginAllowed(Config[First(named)].cors, origin)
      BY <1>4, <2>2, <3>2
    <3> QED
      BY <1>7, <2>2, <3>2, <3>3
  <2> QED
    BY <1>2, <2>1, <2>2 DEF Shared
<1> QED
  BY <1>6, <1>7

LEMMA SharedSame ==
    ASSUME NEW p, NEW q, p.in = q.in, p.route = q.route, p.era = q.era, p.cors = q.cors
    PROVE  Shared(p) <=> Shared(q)
BY DEF Shared, Met

LEMMA SendSound ==
    ASSUME NEW q, NEW status \in Nat, RoutesOK, Sound(q), q.in \in Inputs
    PROVE  /\ Sound(Send(q, status)) /\ Placed(Send(q, status))
           /\ SameGrants(Send(q, status), q)
           /\ Send(q, status).at = "sent"
<1> DEFINE p == Send(q, status)
           header == Header(q)
<1>1. p = [q EXCEPT !.at = "sent", !.status = status, !.waiting = {}, !.cors = header]
  BY DEF Send
<1>2. header \in Headers
  BY DEF Header, Headers, AllowOrigin
<1> HIDE DEF p, header
<1>3. p \in RequestState
  BY <1>1, <1>2 DEF Sound, RequestState
<1>4. /\ p.at = "sent" /\ p.in = q.in /\ p.route = q.route /\ p.era = q.era
      /\ p.tenant = q.tenant /\ p.store = q.store /\ p.granted = q.granted
      /\ p.failed = q.failed /\ p.passed = q.passed /\ p.cors = header
  BY <1>1 DEF Sound, RequestState
<1>5. MayPass(q) => MayPass(p)
  BY <1>4 DEF MayPass, Checks
<1>6. Shared(p)
  BY <1>4, HeaderShares DEF Sound, header
<1> QED
  BY <1>3, <1>4, <1>5, <1>6 DEF Sound, Placed, SameGrants, p

LEMMA ForwardSound ==
    ASSUME NEW q, RoutesOK, Sound(q), Handled(q), MayPass(q)
    PROVE  /\ Sound(Forward(q)) /\ Placed(Forward(q))
           /\ SameGrants(Forward(q), q)
           /\ Forward(q).at \in {"upstream", "sent"}
<1> DEFINE p == [q EXCEPT !.passed = TRUE]
<1>1. p \in RequestState
  BY DEF Sound, RequestState
<1>2. /\ p.in = q.in /\ p.route = q.route /\ p.era = q.era /\ p.at = q.at
      /\ p.tenant = q.tenant /\ p.store = q.store /\ p.granted = q.granted
      /\ p.failed = q.failed /\ p.passed = TRUE /\ p.path = q.path /\ p.cors = q.cors
  BY DEF Sound, RequestState
<1>3. MayPass(p)
  BY <1>2 DEF MayPass, Checks
<1>4. Sound(p) /\ SameGrants(p, q)
  BY <1>1, <1>2, <1>3, SharedSame DEF Sound, SameGrants
<1>5. CASE Has(Config, q.route.id)
  <2> DEFINE path == RewritePath(q.route, q.in.path)
             s == [p EXCEPT !.at = "upstream", !.path = path]
  <2>1. Forward(q) = s
    BY <1>5 DEF Forward
  <2>2. path \in Paths /\ path # <<>> /\ Head(path) = "/"
    BY RewrittenPath DEF Handled
  <2> HIDE DEF path, p
  <2>3. s \in RequestState
    BY <1>1, <2>2 DEF RequestState
  <2>4. /\ s.in = p.in /\ s.route = p.route /\ s.era = p.era /\ s.at = "upstream"
        /\ s.tenant = p.tenant /\ s.store = p.store /\ s.granted = p.granted
        /\ s.failed = p.failed /\ s.path = path /\ s.passed
    BY <1>1, <1>2 DEF RequestState
  <2> HIDE DEF s
  <2>5. MayPass(s)
    BY <1>3, <2>4 DEF MayPass, Checks
  <2> QED
    BY <1>2, <1>4, <2>1, <2>2, <2>3, <2>4, <2>5 DEF Sound, Placed, SameGrants, Handled
<1>6. CASE ~Has(Config, q.route.id)
  <2>1. Forward(q) = Send(p, 502)
    BY <1>6 DEF Forward
  <2> HIDE DEF p
  <2>2. p.in \in Inputs
    BY <1>2 DEF Handled
  <2> QED
    BY <1>4, <2>1, <2>2, SendSound DEF SameGrants
<1> QED
  BY <1>5, <1>6

LEMMA DecideSound ==
    ASSUME NEW q, RoutesOK, Sound(q), Handled(q),
           Checks(q) = q.granted \cup q.refused
    PROVE  Sound(Decide(q)) /\ Placed(Decide(q)) /\ SameGrants(Decide(q), q)
<1>1. CASE q.refused # {}
  BY <1>1, SendSound DEF Decide, Handled
<1>2. CASE q.refused = {}
  <2>1. MayPass(q)
    BY <1>2 DEF MayPass
  <2> QED
    BY <1>2, <2>1, ForwardSound DEF Decide
<1> QED
  BY <1>1, <1>2

LEMMA DecideFailedSound ==
    ASSUME NEW q, RoutesOK, Sound(q), Handled(q), ~q.passed
    PROVE  /\ Sound(DecideFailed(q)) /\ Placed(DecideFailed(q))
           /\ SameGrants(DecideFailed(q), q)
<1> DEFINE p == [q EXCEPT !.failed = TRUE, !.waiting = {}]
<1>1. p \in RequestState
  BY DEF Sound, RequestState
<1>2. /\ p.in = q.in /\ p.route = q.route /\ p.era = q.era /\ p.at = q.at
      /\ p.store = q.store /\ p.granted = q.granted /\ p.failed = TRUE
      /\ p.passed = q.passed /\ p.path = q.path /\ p.cors = q.cors
  BY DEF Sound, RequestState
<1>3. DecideFailed(q) = IF redis = "open" THEN Forward(p) ELSE Send(p, 503)
  BY DEF DecideFailed
<1> HIDE DEF p
<1>4. Sound(p) /\ Handled(p) /\ SameGrants(p, q)
  BY <1>1, <1>2, SharedSame DEF Sound, Handled, SameGrants
<1>5. CASE redis = "open"
  <2>1. MayPass(p)
    BY <1>2, <1>5 DEF MayPass
  <2> QED
    BY <1>3, <1>4, <1>5, <2>1, ForwardSound DEF SameGrants
<1>6. CASE redis # "open"
  BY <1>3, <1>4, <1>6, SendSound DEF Handled, SameGrants
<1> QED
  BY <1>5, <1>6

\* What the gate makes of a request, in one turn or up to its await.
Gated(q, p) ==
    \/ SameGrants(p, q) /\ UNCHANGED used
    \/ /\ p.granted = {k \in Checks(q) : used[k] < Limit(q.route, k)}
       /\ Charge(q, p.granted)

LEMMA EnterSound ==
    ASSUME NEW r, NEW q, RoutesOK, Sound(q), Handled(q),
           q.granted = {}, q.refused = {}, ~q.passed, Enter(r, q)
    PROVE  \E p : Step(r, p) /\ Sound(p) /\ Placed(p) /\ Gated(q, p)
<1>1. Checks(q) \subseteq Key
  BY ChecksAreKeys
<1>2. CASE Unlimited(q) \/ Checks(q) = {}
  <2>1. MayPass(q)
    <3>1. CASE Unlimited(q) /\ q.route.keyBy # {}
      BY <3>1 DEF Unlimited, MayPass, Config, Sound, RoutesOK
    <3>2. CASE Checks(q) = {}
      BY <3>2 DEF MayPass
    <3>3. CASE q.route.keyBy = {}
      BY <3>3 DEF MayPass, Checks, KeysOf
    <3> QED
      BY <1>2, <3>1, <3>2, <3>3
  <2>2. Step(r, Forward(q)) /\ UNCHANGED used
    BY <1>2 DEF Enter
  <2> QED
    BY <2>1, <2>2, ForwardSound DEF Gated
<1>3. CASE ~(Unlimited(q) \/ Checks(q) = {}) /\ redis # "none"
  <2> DEFINE p == [q EXCEPT !.at = "gate", !.waiting = Checks(q)]
  <2>1. Step(r, p) /\ UNCHANGED used
    BY <1>3 DEF Enter
  <2>2. p \in RequestState
    BY <1>1 DEF Sound, RequestState
  <2>3. /\ p.in = q.in /\ p.route = q.route /\ p.era = q.era /\ p.at = "gate"
        /\ p.tenant = q.tenant /\ p.store = q.store /\ p.granted = q.granted
        /\ p.refused = q.refused /\ p.passed = q.passed /\ p.waiting = Checks(q)
    BY DEF Sound, RequestState
  <2> HIDE DEF p
  <2>4. Checks(p) = Checks(q)
    BY <2>3 DEF Checks
  <2>5. Sound(p)
    BY <2>2, <2>3 DEF Sound
  <2>6. Placed(p)
    BY <1>3, <2>3, <2>4 DEF Placed, Handled
  <2> QED
    BY <2>1, <2>3, <2>5, <2>6 DEF Gated, SameGrants
<1>4. CASE ~(Unlimited(q) \/ Checks(q) = {}) /\ redis = "none"
  <2> DEFINE ok == {k \in Checks(q) : used[k] < Limit(q.route, k)}
             p == [q EXCEPT !.store = Len(log), !.granted = ok, !.refused = Checks(q) \ ok]
  <2>1. Step(r, Decide(p)) /\ Charge(q, ok)
    BY <1>4 DEF Enter
  <2>2. p \in RequestState
    <3>1. ok \in SUBSET Key /\ Checks(q) \ ok \in SUBSET Key /\ Len(log) \in Nat
      BY <1>1 DEF RoutesOK
    <3> HIDE DEF ok
    <3> QED
      BY <3>1 DEF Sound, RequestState
  <2>3. /\ p.in = q.in /\ p.route = q.route /\ p.era = q.era /\ p.at = q.at
        /\ p.tenant = q.tenant /\ p.store = Len(log) /\ p.granted = ok
        /\ p.refused = Checks(q) \ ok /\ p.passed = q.passed /\ p.path = q.path
        /\ p.cors = q.cors
    BY DEF Sound, RequestState
  <2> HIDE DEF p
  <2>4. Checks(p) = p.granted \cup p.refused
    BY <2>3 DEF Checks
  <2>5. Sound(p) /\ Handled(p)
    BY <2>2, <2>3, SharedSame DEF Sound, Handled, RoutesOK
  <2>6. Decide(p).granted = ok
    BY <2>3, <2>4, <2>5, DecideSound DEF SameGrants
  <2> QED
    BY <2>1, <2>4, <2>5, <2>6, DecideSound DEF Gated
<1> QED
  BY <1>2, <1>3, <1>4

-----------------------------------------------------------------------------
(* The counters *)

Bounds(max, k) == \A route \in Holding(k) : Limit(route, k) <= max

Grants(k) == {r \in Requests : k \in req[r].granted /\ Current(req[r])}

\* A counter never exceeds what any config allows its key, and every grant that
\* is still remembered has been counted.
Counted ==
    /\ used \in [Key -> Nat]
    /\ \A k \in Key :
          /\ \A max \in Nat : Bounds(max, k) => used[k] <= max
          /\ Cardinality(Grants(k)) <= used[k]

LEMMA LimitNat ==
    ASSUME NEW route \in Routes, NEW k \in Key
    PROVE  Limit(route, k) \in Nat
<1>1. k[1] = "tenant" => k[2] \in Tenant
  BY DEF Key, KeysOf
<1> QED
  BY <1>1, GatewayAssumption DEF Limit

\* A step of one request keeps the count if whatever it newly holds is counted,
\* and nothing is counted beyond the limit of a route that has the key.
LEMMA CountKept ==
    ASSUME Counted, NEW r \in Requests, UNCHANGED <<log, redis>>,
           \A s \in Requests \ {r} : req'[s] = req[s],
           used' \in [Key -> Nat],
           \A k \in Key :
              \/ used'[k] = used[k] /\ (r \in Grants(k)' => r \in Grants(k))
              \/ /\ used'[k] = used[k] + 1
                 /\ \E route \in Holding(k) : used[k] < Limit(route, k)
    PROVE  Counted'
<1> SUFFICES ASSUME NEW k \in Key
             PROVE  /\ \A max \in Nat : Bounds(max, k) => used'[k] <= max
                    /\ Cardinality(Grants(k)') <= used'[k]
  BY DEF Counted, Bounds, Holding, Limit
<1>1. \A s \in Requests \ {r} : s \in Grants(k)' <=> s \in Grants(k)
  BY DEF Grants, Current
<1>2. IsFiniteSet(Grants(k)) /\ Cardinality(Grants(k)) \in Nat
  BY GatewayAssumption, FS_Subset, FS_CardinalityType DEF Grants
<1>3. used[k] \in Nat /\ Cardinality(Grants(k)) <= used[k]
  BY DEF Counted
<1>4. CASE used'[k] = used[k] /\ (r \in Grants(k)' => r \in Grants(k))
  <2>1. Grants(k)' \subseteq Grants(k)
    BY <1>1, <1>4 DEF Grants
  <2>2. Cardinality(Grants(k)') \in Nat /\ Cardinality(Grants(k)') <= Cardinality(Grants(k))
    BY <1>2, <2>1, FS_Subset, FS_CardinalityType
  <2> QED
    BY <1>2, <1>3, <1>4, <2>2 DEF Counted
<1>5. CASE /\ used'[k] = used[k] + 1
           /\ \E route \in Holding(k) : used[k] < Limit(route, k)
  <2>1. Grants(k)' \subseteq Grants(k) \cup {r}
    BY <1>1 DEF Grants
  <2>2. /\ IsFiniteSet(Grants(k) \cup {r})
        /\ Cardinality(Grants(k) \cup {r}) = Cardinality(Grants(k))
           \/ Cardinality(Grants(k) \cup {r}) = Cardinality(Grants(k)) + 1
    BY <1>2, FS_AddElement
  <2>3. /\ Cardinality(Grants(k)') \in Nat
        /\ Cardinality(Grants(k)') <= Cardinality(Grants(k) \cup {r})
    BY <2>1, <2>2, FS_Subset, FS_CardinalityType
  <2>4. ASSUME NEW max \in Nat, Bounds(max, k) PROVE used'[k] <= max
    <3>1. PICK route \in Holding(k) : used[k] < Limit(route, k)
      BY <1>5
    <3>2. Limit(route, k) \in Nat /\ Limit(route, k) <= max
      BY <2>4, LimitNat DEF Holding, Bounds
    <3> QED
      BY <1>3, <1>5, <3>1, <3>2
  <2> QED
    BY <1>2, <1>3, <1>5, <2>2, <2>3, <2>4
<1> QED
  BY <1>4, <1>5

-----------------------------------------------------------------------------
(* The inductive invariant *)

Inv ==
    /\ RoutesOK
    /\ req \in [Requests -> RequestState]
    /\ \A r \in Requests : Sound(req[r]) /\ Placed(req[r])
    /\ Counted

LEMMA IdleState == Idle \in RequestState
BY DEF Idle, RequestState, Paths, Headers

LEMMA InitInv == Init => Inv
<1> SUFFICES ASSUME Init PROVE Inv
  OBVIOUS
<1>1. RoutesOK
  <2>1. PICK c \in Configs : log = <<c>>
    BY DEF Init
  <2>2. log \in Seq(Configs) /\ Len(log) = 1
    BY <2>1
  <2>3. 1 \in 1 .. MaxReloads + 1 /\ 0 \in 0 .. MaxLosses
    BY GatewayAssumption
  <2> QED
    BY <2>2, <2>3 DEF Init, RoutesOK
<1>2. Sound(Idle) /\ Placed(Idle)
  BY <1>1, IdleState DEF Sound, Placed, Idle, RoutesOK
<1>3. Counted
  <2>1. used \in [Key -> Nat] /\ \A k \in Key : used[k] = 0
    BY DEF Init
  <2>2. ASSUME NEW k \in Key PROVE Cardinality(Grants(k)) = 0
    <3>1. Grants(k) = {}
      BY DEF Init, Grants, Idle
    <3> QED
      BY <3>1, FS_EmptySet
  <2>3. ASSUME NEW max \in Nat PROVE 0 <= max
    OBVIOUS
  <2> QED
    BY <2>1, <2>2, <2>3 DEF Counted
<1> QED
  BY <1>1, <1>2, <1>3, IdleState DEF Init, Inv

\* A step of one request, from one await to the next.
LEMMA StepInv ==
    ASSUME Inv, NEW r \in Requests, NEW p, Sound(p), Placed(p),
           req' = [req EXCEPT ![r] = p], UNCHANGED <<log, redis>>,
           losses' \in 0 .. MaxLosses, Counted'
    PROVE  Inv'
<1>1. RoutesOK'
  BY DEF Inv, RoutesOK
<1>2. \A q : MayPass(q)' <=> MayPass(q)
  BY DEF MayPass, Checks, Limited
<1>3. \A q : Sound(q)' <=> Sound(q)
  <2>1. \A q : Shared(q)' <=> Shared(q)
    BY DEF Shared, Met
  <2> QED
    BY <1>2, <2>1 DEF Sound
<1>4. \A q : Placed(q)' <=> Placed(q)
  BY DEF Placed, Handled, Checks
<1>5. req' \in [Requests -> RequestState]
  BY DEF Inv, Sound
<1>6. \A s \in Requests : Sound(req'[s]) /\ Placed(req'[s])
  BY DEF Inv
<1> QED
  BY <1>1, <1>3, <1>4, <1>5, <1>6 DEF Inv

\* One that counts nothing.
LEMMA PlainInv ==
    ASSUME Inv, NEW r \in Requests, NEW p, Sound(p), Placed(p),
           p.granted = {} \/ SameGrants(p, req[r]),
           req' = [req EXCEPT ![r] = p], UNCHANGED <<log, redis, used>>,
           losses' \in 0 .. MaxLosses
    PROVE  Inv'
<1>1. req'[r] = p /\ \A s \in Requests \ {r} : req'[s] = req[s]
  BY DEF Inv
<1>2. \A k \in Key : r \in Grants(k)' => r \in Grants(k)
  BY <1>1 DEF Grants, Current, SameGrants
<1>3. Counted'
  BY <1>1, <1>2, CountKept DEF Inv, Counted
<1> QED
  BY <1>3, StepInv

\* The gate.
LEMMA GatedInv ==
    ASSUME Inv, NEW r \in Requests, NEW q, Sound(q), Handled(q), q.granted = {},
           NEW p, Step(r, p), Sound(p), Placed(p), Gated(q, p)
    PROVE  Inv'
<1>1. CASE SameGrants(p, q) /\ UNCHANGED used
  BY <1>1, PlainInv DEF Step, SameGrants, Inv, RoutesOK
<1>2. CASE /\ p.granted = {k \in Checks(q) : used[k] < Limit(q.route, k)}
           /\ Charge(q, p.granted)
  <2>1. req'[r] = p /\ \A s \in Requests \ {r} : req'[s] = req[s]
    BY DEF Inv, Step
  <2>2. UNCHANGED <<log, redis, losses>>
    BY DEF Step
  <2>3. used' \in [Key -> Nat]
    BY <1>2 DEF Charge, Inv, Counted
  <2>4. ASSUME NEW k \in Key, k \in p.granted
        PROVE  /\ used'[k] = used[k] + 1
               /\ q.route \in Holding(k) /\ used[k] < Limit(q.route, k)
    BY <1>2, <2>4 DEF Charge, Holding, Handled, Checks, KeysOf
  <2>5. ASSUME NEW k \in Key, k \notin p.granted
        PROVE  used'[k] = used[k] /\ r \notin Grants(k)'
    BY <1>2, <2>1, <2>5 DEF Charge, Grants
  <2>6. Counted'
    BY <2>1, <2>2, <2>3, <2>4, <2>5, CountKept DEF Inv
  <2> QED
    BY <2>2, <2>6, StepInv DEF Step, Inv, RoutesOK
<1> QED
  BY <1>1, <1>2 DEF Gated

LEMMA ArrivedSound ==
    ASSUME Inv, NEW r, NEW in \in Inputs
    PROVE  /\ Sound(Arrived(r, in)) /\ Arrived(r, in).in = in
           /\ Arrived(r, in).at = "idle" /\ ~Arrived(r, in).passed
           /\ Arrived(r, in).granted = {} /\ Arrived(r, in).refused = {}
<1>1. Len(log) \in 1 .. Len(log) /\ Len(log) \in Nat /\ 0 \in 0 .. Len(log)
  BY DEF Inv, RoutesOK
<1>2. Arrived(r, in) \in RequestState
  BY <1>1, IdleState DEF Arrived, RequestState
<1>3. /\ Arrived(r, in).at = "idle" /\ ~Arrived(r, in).passed /\ Arrived(r, in).in = in
      /\ Arrived(r, in).era = Len(log) /\ Arrived(r, in).store = 0
      /\ Arrived(r, in).granted = {} /\ Arrived(r, in).refused = {}
  BY DEF Arrived, Idle
<1> QED
  BY <1>1, <1>2, <1>3 DEF Sound

LEMMA RoutedSound ==
    ASSUME Inv, NEW r, NEW in \in Inputs, NEW route \in Routes
    PROVE  LET q == [Arrived(r, in) EXCEPT !.route = route] IN
              /\ Sound(q) /\ Handled(q) /\ ~q.passed
              /\ q.granted = {} /\ q.refused = {} /\ q.at = "idle"
<1>1. PICK p : p = Arrived(r, in)
  OBVIOUS
<1>2. PICK q : q = [p EXCEPT !.route = route]
  OBVIOUS
<1>3. Sound(p) /\ p.in = in /\ p.at = "idle" /\ ~p.passed /\ p.granted = {} /\ p.refused = {}
  BY <1>1, ArrivedSound
<1>4. q \in RequestState
  BY <1>2, <1>3 DEF Sound, RequestState
<1>5. /\ q.at = "idle" /\ ~q.passed /\ q.in = in /\ q.route = route /\ q.era = p.era
      /\ q.store = p.store /\ q.granted = {} /\ q.refused = {}
  BY <1>2, <1>3 DEF Sound, RequestState
<1>6. Sound(q) /\ Handled(q)
  BY <1>3, <1>4, <1>5 DEF Sound, Handled
<1> QED
  BY <1>1, <1>2, <1>5, <1>6

\* An answer on arrival, before (the first) or after (the second) a route is known.
LEMMA AnsweredOnArrival ==
    ASSUME Inv, NEW r \in Requests, NEW in \in Inputs, NEW status \in Nat, UNCHANGED used,
           \/ Step(r, Send(Arrived(r, in), status))
           \/ \E route \in Routes : Step(r, Send([Arrived(r, in) EXCEPT !.route = route], status))
    PROVE  Inv'
<1>1. RoutesOK
  BY DEF Inv
<1>2. CASE Step(r, Send(Arrived(r, in), status))
  <2>1. PICK q : q = Arrived(r, in)
    OBVIOUS
  <2>2. PICK p : p = Send(q, status)
    OBVIOUS
  <2>3. Sound(q) /\ q.in \in Inputs /\ q.granted = {}
    BY <2>1, ArrivedSound
  <2>4. Sound(p) /\ Placed(p) /\ p.granted = {}
    BY <1>1, <2>2, <2>3, SendSound DEF SameGrants
  <2> QED
    BY <1>2, <2>1, <2>2, <2>4, PlainInv DEF Step, RoutesOK, Inv
<1>3. CASE \E route \in Routes : Step(r, Send([Arrived(r, in) EXCEPT !.route = route], status))
  <2>1. PICK route \in Routes : Step(r, Send([Arrived(r, in) EXCEPT !.route = route], status))
    BY <1>3
  <2>2. PICK q : q = [Arrived(r, in) EXCEPT !.route = route]
    OBVIOUS
  <2>3. PICK p : p = Send(q, status)
    OBVIOUS
  <2>4. Sound(q) /\ q.in \in Inputs /\ q.granted = {}
    BY <2>2, RoutedSound DEF Handled
  <2>5. Sound(p) /\ Placed(p) /\ p.granted = {}
    BY <1>1, <2>3, <2>4, SendSound DEF SameGrants
  <2> QED
    BY <2>1, <2>2, <2>3, <2>5, PlainInv DEF Step, RoutesOK, Inv
<1> QED
  BY <1>2, <1>3

LEMMA BeginInv ==
    ASSUME Inv, NEW r \in Requests, NEW in \in Inputs, Begin(r, in)
    PROVE  Inv'
<1>1. PICK route \in Matched(in) :
         LET q == [Arrived(r, in) EXCEPT !.route = route] IN
          IF route.auth = "none" THEN Enter(r, q)
          ELSE /\ Step(r, IF in.tenant = "none" THEN Send(q, 401)
                          ELSE [q EXCEPT !.at = "auth"])
               /\ UNCHANGED used
  BY DEF Begin
<1>2. route \in Routes
  BY ConfigRoutes DEF Inv, Matched, Matching
<1>3. PICK q : q = [Arrived(r, in) EXCEPT !.route = route]
  OBVIOUS
<1>4. /\ Sound(q) /\ Handled(q) /\ ~q.passed /\ q.granted = {} /\ q.refused = {}
  BY <1>2, <1>3, RoutedSound
<1>5. RoutesOK
  BY DEF Inv
<1>6. CASE route.auth = "none"
  <2>1. Enter(r, q)
    BY <1>1, <1>3, <1>6
  <2>2. PICK p : Step(r, p) /\ Sound(p) /\ Placed(p) /\ Gated(q, p)
    BY <1>4, <1>5, <2>1, EnterSound
  <2> QED
    BY <1>4, <2>2, GatedInv
<1>7. CASE route.auth # "none" /\ in.tenant = "none"
  <2>1. Step(r, Send([Arrived(r, in) EXCEPT !.route = route], 401)) /\ UNCHANGED used
    BY <1>1, <1>7
  <2>2. PICK status \in Nat : status = 401
    OBVIOUS
  <2>3. \E x \in Routes : Step(r, Send([Arrived(r, in) EXCEPT !.route = x], status))
    BY <1>2, <2>1, <2>2
  <2> QED
    BY <2>1, <2>3, AnsweredOnArrival
<1>8. CASE route.auth # "none" /\ in.tenant # "none"
  <2>1. PICK p : p = [q EXCEPT !.at = "auth"]
    OBVIOUS
  <2>2. Step(r, p) /\ UNCHANGED used
    BY <1>1, <1>3, <1>8, <2>1
  <2>3. p \in RequestState
    BY <1>4, <2>1 DEF Sound, RequestState
  <2>4. /\ p.at = "auth" /\ p.in = q.in /\ p.route = q.route /\ p.era = q.era
        /\ p.store = q.store /\ p.granted = {} /\ p.refused = {} /\ p.passed = q.passed
    BY <1>4, <2>1 DEF Sound, RequestState
  <2>5. Sound(p) /\ Placed(p)
    BY <1>4, <2>3, <2>4 DEF Sound, Placed, Handled
  <2> QED
    BY <2>2, <2>4, <2>5, PlainInv DEF Step, RoutesOK, Inv
<1> QED
  BY <1>6, <1>7, <1>8

LEMMA AuthenticatedInv ==
    ASSUME Inv, NEW r \in Requests, Authenticated(r)
    PROVE  Inv'
<1>1. RoutesOK /\ Sound(req[r]) /\ Placed(req[r]) /\ req[r].at = "auth"
  BY DEF Inv, Authenticated
<1>2. Handled(req[r]) /\ req[r].granted = {} /\ req[r].refused = {} /\ ~req[r].passed
  BY <1>1 DEF Placed
<1>3. CASE Enter(r, [req[r] EXCEPT !.tenant = req[r].in.tenant])
  <2>1. PICK q : q = [req[r] EXCEPT !.tenant = req[r].in.tenant]
    OBVIOUS
  <2>2. q \in RequestState
    BY <1>1, <1>2, <2>1 DEF Sound, Handled, RequestState
  <2>3. /\ q.at = "auth" /\ q.in = req[r].in /\ q.route = req[r].route
        /\ q.era = req[r].era /\ q.store = req[r].store /\ q.granted = {}
        /\ q.refused = {} /\ ~q.passed
    BY <1>1, <1>2, <2>1 DEF Sound, RequestState
  <2>4. Sound(q) /\ Handled(q)
    BY <1>1, <1>2, <2>2, <2>3 DEF Sound, Handled
  <2>5. PICK p : Step(r, p) /\ Sound(p) /\ Placed(p) /\ Gated(q, p)
    BY <1>1, <1>3, <2>1, <2>3, <2>4, EnterSound
  <2> QED
    BY <2>3, <2>4, <2>5, GatedInv
<1>4. CASE \E status \in {401, 500} : Step(r, Send(req[r], status)) /\ UNCHANGED used
  <2>1. PICK status \in Nat : Step(r, Send(req[r], status)) /\ UNCHANGED used
    BY <1>4
  <2>2. PICK p : p = Send(req[r], status)
    OBVIOUS
  <2>3. Sound(p) /\ Placed(p) /\ SameGrants(p, req[r])
    BY <1>1, <1>2, <2>2, SendSound DEF Handled
  <2> QED
    BY <2>1, <2>2, <2>3, PlainInv DEF Step, RoutesOK, Inv
<1> QED
  BY <1>3, <1>4 DEF Authenticated

LEMMA ConsumeInv ==
    ASSUME Inv, NEW r \in Requests, NEW k \in Key, Consume(r, k)
    PROVE  Inv'
<1>1. /\ RoutesOK /\ Sound(req[r]) /\ Placed(req[r])
      /\ req[r].at = "gate" /\ k \in req[r].waiting
  BY DEF Inv, Consume
<1>2. /\ Handled(req[r]) /\ ~req[r].passed /\ redis # "none"
      /\ Checks(req[r]) = req[r].waiting \cup req[r].granted \cup req[r].refused
  BY <1>1 DEF Placed
<1>3. PICK ok \in BOOLEAN : ok <=> used[k] < Limit(req[r].route, k)
  OBVIOUS
<1>4. PICK granted : granted = IF ok THEN req[r].granted \cup {k} ELSE req[r].granted
  OBVIOUS
<1>5. PICK refused : refused = IF ok THEN req[r].refused ELSE req[r].refused \cup {k}
  OBVIOUS
<1>6. PICK q : q = [req[r] EXCEPT !.waiting = req[r].waiting \ {k},
                                  !.granted = granted, !.refused = refused]
  OBVIOUS
<1>7. /\ Step(r, IF q.waiting = {} THEN Decide(q) ELSE q)
      /\ Charge(req[r], {k})
  BY <1>3, <1>4, <1>5, <1>6 DEF Consume
<1>8. q \in RequestState
  BY <1>1, <1>4, <1>5, <1>6 DEF Sound, RequestState
<1>9. /\ q.at = "gate" /\ q.in = req[r].in /\ q.route = req[r].route
      /\ q.era = req[r].era /\ q.store = req[r].store /\ q.tenant = req[r].tenant
      /\ q.waiting = req[r].waiting \ {k} /\ q.granted = granted /\ q.refused = refused
      /\ ~q.passed
  BY <1>1, <1>2, <1>6 DEF Sound, RequestState
<1>10. Checks(q) = Checks(req[r])
  BY <1>9 DEF Checks
<1>11. Checks(q) = q.waiting \cup q.granted \cup q.refused
  BY <1>1, <1>2, <1>4, <1>5, <1>9, <1>10
<1>12. Sound(q) /\ Handled(q) /\ Placed(q)
  BY <1>1, <1>2, <1>8, <1>9, <1>11 DEF Sound, Handled, Placed
<1>13. PICK p : p = IF q.waiting = {} THEN Decide(q) ELSE q
  OBVIOUS
<1>14. Sound(p) /\ Placed(p) /\ p.granted = granted /\ p.store = req[r].store
  <2>1. CASE q.waiting = {}
    BY <1>1, <1>9, <1>11, <1>12, <1>13, <2>1, DecideSound DEF SameGrants
  <2>2. CASE q.waiting # {}
    BY <1>9, <1>12, <1>13, <2>2
  <2> QED
    BY <2>1, <2>2
<1>15. /\ req' = [req EXCEPT ![r] = p] /\ UNCHANGED <<log, redis, losses>>
       /\ req'[r] = p /\ \A s \in Requests \ {r} : req'[s] = req[s]
  BY <1>7, <1>13 DEF Step, Inv
<1>16. used' \in [Key -> Nat]
  BY <1>7 DEF Charge, Inv, Counted
<1>17. ASSUME NEW l \in Key
       PROVE  \/ used'[l] = used[l] /\ (r \in Grants(l)' => r \in Grants(l))
              \/ /\ used'[l] = used[l] + 1
                 /\ \E route \in Holding(l) : used[l] < Limit(route, l)
  <2>1. CASE l = k /\ ok
    <3>1. req[r].route \in Holding(k)
      BY <1>1, <1>2 DEF Holding, Handled, Checks, KeysOf
    <3> QED
      BY <1>3, <1>7, <2>1, <3>1 DEF Charge
  <2>2. CASE ~(l = k /\ ok)
    <3>1. used'[l] = used[l]
      BY <1>3, <1>7, <2>2 DEF Charge
    <3>2. l \in granted => l \in req[r].granted
      BY <1>4, <2>2
    <3> QED
      BY <1>14, <1>15, <3>1, <3>2 DEF Grants, Current
  <2> QED
    BY <2>1, <2>2
<1>18. Counted'
  BY <1>15, <1>16, <1>17, CountKept DEF Inv
<1> QED
  BY <1>14, <1>15, <1>18, StepInv DEF Inv, RoutesOK

LEMMA LoseConnectionInv ==
    ASSUME Inv, NEW r \in Requests, LoseConnection(r)
    PROVE  Inv'
<1>1. /\ RoutesOK /\ Sound(req[r]) /\ Placed(req[r]) /\ req[r].at = "gate"
      /\ losses < MaxLosses /\ losses' = losses + 1 /\ UNCHANGED <<log, redis>>
  BY DEF Inv, LoseConnection
<1>2. Handled(req[r]) /\ ~req[r].passed
  BY <1>1 DEF Placed
<1>3. PICK p : p = DecideFailed(req[r]) /\ Sound(p) /\ Placed(p) /\ SameGrants(p, req[r])
  BY <1>1, <1>2, DecideFailedSound
<1>4. PICK executed \in SUBSET req[r].waiting : Charge(req[r], executed)
  BY DEF LoseConnection
<1>5. \E x \in {p, req[r]} : req' = [req EXCEPT ![r] = x]
  BY <1>3 DEF LoseConnection, Inv
<1>6. PICK x : /\ req' = [req EXCEPT ![r] = x]
               /\ Sound(x) /\ Placed(x) /\ SameGrants(x, req[r])
  BY <1>1, <1>3, <1>5 DEF SameGrants
<1>7. req'[r] = x /\ \A s \in Requests \ {r} : req'[s] = req[s]
  BY <1>6 DEF Inv
<1>8. used' \in [Key -> Nat]
  BY <1>4 DEF Charge, Inv, Counted
<1>9. ASSUME NEW k \in Key
      PROVE  \/ used'[k] = used[k] /\ (r \in Grants(k)' => r \in Grants(k))
             \/ /\ used'[k] = used[k] + 1
                /\ \E route \in Holding(k) : used[k] < Limit(route, k)
  <2>1. CASE k \in executed /\ used[k] < Limit(req[r].route, k)
    <3>1. k \in Checks(req[r])
      BY <1>1, <2>1 DEF Placed
    <3>2. req[r].route \in Holding(k)
      BY <1>2, <3>1 DEF Holding, Handled, Checks, KeysOf
    <3> QED
      BY <1>4, <2>1, <3>2 DEF Charge
  <2>2. CASE ~(k \in executed /\ used[k] < Limit(req[r].route, k))
    <3>1. used'[k] = used[k]
      BY <1>4, <2>2 DEF Charge
    <3> QED
      BY <1>1, <1>6, <1>7, <3>1 DEF Grants, Current, SameGrants
  <2> QED
    BY <2>1, <2>2
<1>10. Counted'
  BY <1>1, <1>7, <1>8, <1>9, CountKept DEF Inv
<1>11. losses' \in 0 .. MaxLosses
  BY <1>1, GatewayAssumption DEF RoutesOK
<1> QED
  BY <1>1, <1>6, <1>10, <1>11, StepInv

LEMMA AnsweredInv ==
    ASSUME Inv, NEW r \in Requests, Answered(r)
    PROVE  Inv'
<1>1. RoutesOK /\ Sound(req[r]) /\ Placed(req[r]) /\ req[r].at = "upstream"
  BY DEF Inv, Answered
<1>2. PICK status \in Nat : Step(r, Send(req[r], status)) /\ UNCHANGED used
  BY GatewayAssumption DEF Answered
<1>3. PICK p : p = Send(req[r], status)
  OBVIOUS
<1>4. Sound(p) /\ Placed(p) /\ SameGrants(p, req[r])
  BY <1>1, <1>3, SendSound DEF Placed
<1> QED
  BY <1>2, <1>3, <1>4, PlainInv DEF Step, RoutesOK, Inv

\* The end of a request, whoever records it.
EndsAs(r, at, status) ==
    /\ status \in Nat
    /\ \/ req[r].at = "sent" /\ at = "done" /\ status = req[r].status
       \/ req[r].at = "upstream" /\ at \in {"open", "gone"}
    /\ req' = [req EXCEPT ![r] = [req[r] EXCEPT !.at = at, !.status = status]]
    /\ UNCHANGED <<log, redis, used, losses>>

Ends(r) == \E at, status : EndsAs(r, at, status)

LEMMA EndInv ==
    ASSUME Inv, NEW r \in Requests, Ends(r)
    PROVE  Inv'
<1>1. RoutesOK /\ Sound(req[r]) /\ Placed(req[r])
  BY DEF Inv
<1> PICK at, status : EndsAs(r, at, status)
  BY DEF Ends
<1>2. PICK p : p = [req[r] EXCEPT !.at = at, !.status = status]
  OBVIOUS
<1>3. p \in RequestState
  BY <1>1, <1>2 DEF Sound, RequestState, EndsAs
<1>4. /\ p.at = at /\ p.in = req[r].in /\ p.route = req[r].route
      /\ p.era = req[r].era /\ p.store = req[r].store /\ p.tenant = req[r].tenant
      /\ p.granted = req[r].granted /\ p.failed = req[r].failed
      /\ p.passed = req[r].passed /\ p.cors = req[r].cors
  BY <1>1, <1>2 DEF Sound, RequestState
<1>5. MayPass(req[r]) => MayPass(p)
  BY <1>4 DEF MayPass, Checks
<1>6. at = "done" => Shared(p)
  BY <1>1, <1>4, SharedSame DEF Sound, EndsAs
<1>7. Sound(p) /\ Placed(p) /\ SameGrants(p, req[r])
  BY <1>1, <1>3, <1>4, <1>5, <1>6 DEF Sound, Placed, SameGrants, EndsAs
<1> QED
  BY <1>2, <1>7, PlainInv DEF RoutesOK, Inv, EndsAs

LEMMA Endings ==
    ASSUME Inv, NEW r \in Requests, Finished(r) \/ Accepted(r) \/ Gone(r)
    PROVE  Ends(r)
<1>1. req[r] \in RequestState /\ req \in [Requests -> RequestState]
  BY DEF Inv
<1>2. req[r].status \in Nat
  BY <1>1 DEF RequestState
<1>3. \A at : [req[r] EXCEPT !.at = at] = [req[r] EXCEPT !.at = at, !.status = req[r].status]
  BY <1>1 DEF RequestState
<1>4. CASE Finished(r)
  <2>1. EndsAs(r, "done", req[r].status)
    BY <1>2, <1>3, <1>4 DEF Finished, EndsAs
  <2> QED
    BY <2>1 DEF Ends
<1>5. CASE Accepted(r)
  <2>1. EndsAs(r, "open", 101)
    BY <1>1, <1>5 DEF Accepted, EndsAs
  <2> QED
    BY <2>1 DEF Ends
<1>6. CASE Gone(r)
  <2>1. EndsAs(r, "gone", req[r].status)
    BY <1>2, <1>3, <1>6 DEF Gone, Step, EndsAs
  <2> QED
    BY <2>1 DEF Ends
<1> QED
  BY <1>4, <1>5, <1>6

\* A reload makes the log longer and, in memory, forgets every grant.
LEMMA ReloadInv ==
    ASSUME Inv, NEW c \in Configs, Reload(c)
    PROVE  Inv'
<1>1. /\ log' = Append(log, c) /\ Len(log) <= MaxReloads
      /\ UNCHANGED <<redis, losses, req>>
      /\ used' = IF redis # "none" THEN used ELSE [k \in Key |-> 0]
  BY DEF Reload
<1>2. log \in Seq(Configs) /\ Len(log) \in Nat /\ RoutesOK
  BY DEF Inv, RoutesOK
<1>3. /\ log' \in Seq(Configs) /\ Len(log') = Len(log) + 1
      /\ \A i \in 1 .. Len(log) : log'[i] = log[i]
  BY <1>1, <1>2
<1>4. RoutesOK'
  BY <1>1, <1>2, <1>3, GatewayAssumption DEF RoutesOK
<1>5. ASSUME NEW r \in Requests PROVE (Sound(req[r]) /\ Placed(req[r]))'
  <2>1. Sound(req[r]) /\ Placed(req[r]) /\ req'[r] = req[r]
    BY <1>1 DEF Inv
  <2>2. MayPass(req[r]) => MayPass(req[r])'
    <3>1. \A i \in req[r].era .. Len(log) :
             i \in req[r].era .. Len(log') /\ log'[i] = log[i]
      BY <1>2, <1>3, <2>1 DEF Sound
    <3>2. ASSUME NEW i \in req[r].era .. Len(log), ~Limited(log[i], req[r].route.id)
          PROVE  MayPass(req[r])'
      <4>1. ~Limited(log'[i], req'[r].route.id)
        BY <2>1, <3>1, <3>2 DEF Limited
      <4> QED
        BY <2>1, <3>1, <4>1 DEF MayPass
    <3>3. (Checks(req[r]) \subseteq req[r].granted) => MayPass(req[r])'
      BY <2>1 DEF MayPass, Checks
    <3>4. req[r].failed /\ redis = "open" => MayPass(req[r])'
      BY <1>1, <2>1 DEF MayPass
    <3> QED
      BY <3>2, <3>3, <3>4 DEF MayPass
  <2>3. Sound(req[r])'
    <3>1. Shared(req[r]) => Shared(req[r])'
      <4>1. \A i \in req[r].era .. Len(log) : i \in req[r].era .. Len(log') /\ log'[i] = log[i]
        BY <1>2, <1>3, <2>1 DEF Sound
      <4>2. Met(req[r]) \subseteq Met(req[r])'
        BY <2>1, <4>1 DEF Met
      <4> QED
        BY <2>1, <4>2 DEF Shared
    <3> QED
      BY <1>2, <1>3, <2>1, <2>2, <3>1 DEF Sound
  <2>4. Placed(req[r])'
    BY <1>1, <2>1 DEF Placed, Handled, Checks
  <2> QED
    BY <2>3, <2>4
<1>6. Counted'
  <2>1. CASE redis # "none"
    BY <1>1, <2>1 DEF Inv, Counted, Grants, Current, Bounds, Holding, Limit
  <2>2. CASE redis = "none"
    <3>1. ASSUME NEW k \in Key PROVE Grants(k)' = {}
      <4>1. \A r \in Requests : req'[r].store # Len(log')
        <5> SUFFICES ASSUME NEW r \in Requests PROVE req[r].store # Len(log) + 1
          BY <1>1, <1>3
        <5>1. req[r].store \in 0 .. Len(log)
          BY DEF Inv, Sound
        <5> QED
          BY <1>2, <5>1
      <4>2. redis' = "none"
        BY <1>1, <2>2
      <4> QED
        BY <4>1, <4>2 DEF Grants, Current
    <3>2. Cardinality({}) = 0
      BY FS_EmptySet
    <3>3. used' \in [Key -> Nat] /\ \A k \in Key : used'[k] = 0
      BY <1>1, <2>2
    <3>4. \A max \in Nat : 0 <= max
      OBVIOUS
    <3> QED
      BY <3>1, <3>2, <3>3, <3>4 DEF Counted
  <2> QED
    BY <2>1, <2>2
<1> QED
  BY <1>1, <1>4, <1>5, <1>6 DEF Inv

LEMMA NextInv == Inv /\ [Next]_vars => Inv'
<1> SUFFICES ASSUME Inv, [Next]_vars PROVE Inv'
  OBVIOUS
<1>1. ASSUME NEW r \in Requests, NEW in \in Inputs,
             TooLarge(r, in) \/ NotFound(r, in)
      PROVE  Inv'
  <2>1. PICK status \in Nat : Step(r, Send(Arrived(r, in), status)) /\ UNCHANGED used
    BY <1>1 DEF TooLarge, NotFound
  <2> QED
    BY <2>1, AnsweredOnArrival
<1>2. ASSUME NEW r \in Requests, NEW in \in Inputs,
             Preflight(r, in) \/ UpgradeRefused(r, in)
      PROVE  Inv'
  <2>1. \A i \in DOMAIN Config : Config[i] \in Routes
    BY ConfigRoutes DEF Inv
  <2>2. PICK route \in Routes, status \in Nat :
            Step(r, Send([Arrived(r, in) EXCEPT !.route = route], status)) /\ UNCHANGED used
    <3>1. CASE Preflight(r, in)
      <4>1. PICK i \in Allowing(in) :
               Step(r, Send([Arrived(r, in) EXCEPT !.route = Config[i]], 204)) /\ UNCHANGED used
        BY <3>1 DEF Preflight
      <4>2. i \in DOMAIN Config
        BY DEF Allowing, MatchingByPath
      <4> QED
        BY <2>1, <4>1, <4>2
    <3>2. CASE UpgradeRefused(r, in)
      <4>1. PICK route \in Matched(in) : \E status \in Problem(route, in) :
               Step(r, Send([Arrived(r, in) EXCEPT !.route = route], status)) /\ UNCHANGED used
        BY <3>2 DEF UpgradeRefused
      <4>2. route \in Routes /\ Problem(route, in) \subseteq Nat
        <5>1. route \in Routes
          BY <2>1 DEF Matched, Matching
        <5>2. Problem(route, in) \subseteq {400, 403}
          BY DEF Problem
        <5> QED
          BY <5>1, <5>2
      <4> QED
        BY <4>1, <4>2
    <3> QED
      BY <1>2, <3>1, <3>2
  <2>3. \E x \in Routes : Step(r, Send([Arrived(r, in) EXCEPT !.route = x], status))
    BY <2>2
  <2> QED
    BY <2>2, <2>3, AnsweredOnArrival
<1>3. CASE UNCHANGED vars
  <2>1. UNCHANGED <<log, redis, used, losses, req>>
    BY <1>3 DEF vars
  <2>2. RoutesOK' /\ Counted'
    BY <2>1 DEF Inv, RoutesOK, Counted, Grants, Current, Bounds, Holding, Limit
  <2>3. \A q : (MayPass(q)' <=> MayPass(q)) /\ (Placed(q)' <=> Placed(q))
    BY <2>1 DEF MayPass, Placed, Handled, Checks, Limited
  <2>4. \A q : Sound(q)' <=> Sound(q)
    BY <2>1, <2>3 DEF Sound, Shared, Met
  <2> QED
    BY <2>1, <2>2, <2>3, <2>4 DEF Inv
<1>4. ASSUME NEW r \in Requests, Finished(r) \/ Accepted(r) \/ Gone(r) PROVE Inv'
  BY <1>4, Endings, EndInv
<1> QED
  BY <1>1, <1>2, <1>3, BeginInv, AuthenticatedInv, ConsumeInv, LoseConnectionInv,
     AnsweredInv, <1>4, ReloadInv DEF Next

\* The invariant from which types, quotas and policies follow.
THEOREM Invariance == Spec => []Inv
<1>1. Init => Inv
  BY InitInv
<1>2. Inv /\ [Next]_vars => Inv'
  BY NextInv
<1> QED
  BY <1>1, <1>2, PTL DEF Spec

-----------------------------------------------------------------------------
(* Theorems *)

\* The state of the handler is well typed, and every path it sends upstream
\* starts with a slash, whatever prefix a route cuts off.
THEOREM TypeCorrect == Spec => []TypeOK
<1>1. Inv => TypeOK
  <2> SUFFICES ASSUME Inv PROVE TypeOK
    OBVIOUS
  <2>1. ASSUME NEW r \in Requests
        PROVE  /\ req[r].at \in {"idle", "auth", "gate", "upstream", "sent", "done", "open", "gone"}
               /\ req[r].waiting \subseteq Key /\ req[r].granted \subseteq Key
               /\ req[r].refused \subseteq Key
               /\ req[r].at = "upstream" => req[r].path # <<>> /\ Head(req[r].path) = "/"
    BY DEF Inv, Sound, RequestState
  <2> QED
    BY <2>1 DEF TypeOK, Inv, RoutesOK, Counted
<1> QED
  BY <1>1, Invariance, PTL

\* No key grants more requests than the largest limit that any config gives it,
\* for any number of requests, keys, reloads and connections lost.
THEOREM QuotaIsHeld == Spec => []QuotaHolds
<1>1. Inv => QuotaHolds
  <2> SUFFICES ASSUME Inv, NEW k \in Key, NEW by \in Holding(k), Bounds(Limit(by, k), k)
               PROVE  Cardinality(Grants(k)) <= Limit(by, k)
    BY DEF QuotaHolds, Bounds, Grants
  <2>1. Limit(by, k) \in Nat
    BY LimitNat DEF Holding
  <2>2. used[k] \in Nat /\ used[k] <= Limit(by, k) /\ Cardinality(Grants(k)) <= used[k]
    BY <2>1 DEF Inv, Counted
  <2>3. Cardinality(Grants(k)) \in Nat
    BY GatewayAssumption, FS_Subset, FS_CardinalityType DEF Grants
  <2> QED
    BY <2>1, <2>2, <2>3
<1> QED
  BY <1>1, Invariance, PTL

\* A request passes the gate only by the grant of every key, by failOpen, or
\* where some config it has met does not limit its route.
THEOREM PolicyIsHeld == Spec => []HeldToAPolicy
<1>1. Inv => HeldToAPolicy
  BY DEF Inv, Sound, MayPass, HeldToAPolicy
<1> QED
  BY <1>1, Invariance, PTL

\* Every answer to a route, errors too, is shared with the origins that the route
\* allowed while it was handled and with no others, for any configs, whether or
\* not their ids are unique, and any number of reloads: server.ts:195-205.
THEOREM AnswersAreShared == Spec => []AnswersShared
<1>1. Inv => AnswersShared
  BY DEF Inv, Sound, AnswersShared
<1> QED
  BY <1>1, Invariance, PTL

-----------------------------------------------------------------------------
(* What a step makes of one request, as far as preflights go *)

\* Answered as a preflight.
Allowed(q) == q.at = "sent" /\ q.status = 204 /\ ~q.passed

\* A step that neither answers a preflight nor ends a request.
Goes(q, p) ==
    /\ p.in = q.in /\ p.era = q.era
    /\ p.at \in {"auth", "gate", "upstream", "sent"}
    /\ ~Allowed(p)

LEMMA SendSends ==
    ASSUME NEW q \in RequestState, NEW status
    PROVE  LET p == Send(q, status) IN
           /\ p.in = q.in /\ p.era = q.era /\ p.at = "sent" /\ p.status = status
           /\ p.passed = q.passed
BY DEF Send, RequestState

LEMMA SendGoes ==
    ASSUME NEW q \in RequestState, NEW status \in Nat, q.passed \/ status # 204
    PROVE  Goes(q, Send(q, status))
BY SendSends DEF Goes, Allowed

LEMMA ForwardGoes ==
    ASSUME NEW q \in RequestState
    PROVE  Goes(q, Forward(q))
<1> DEFINE p == [q EXCEPT !.passed = TRUE]
<1>1. p \in RequestState /\ p.passed /\ p.in = q.in /\ p.era = q.era
  BY DEF RequestState
<1>2. CASE Has(Config, q.route.id)
  <2> DEFINE s == [p EXCEPT !.at = "upstream", !.path = RewritePath(q.route, q.in.path)]
  <2>1. Forward(q) = s
    BY <1>2 DEF Forward
  <2>2. s.in = q.in /\ s.era = q.era /\ s.at = "upstream"
    BY <1>1 DEF RequestState
  <2> QED
    BY <2>1, <2>2 DEF Goes, Allowed
<1>3. CASE ~Has(Config, q.route.id)
  <2>1. Forward(q) = Send(p, 502)
    BY <1>3 DEF Forward
  <2>2. Goes(p, Send(p, 502))
    BY <1>1, SendGoes
  <2> QED
    BY <1>1, <2>1, <2>2 DEF Goes
<1> QED
  BY <1>2, <1>3

LEMMA DecideGoes ==
    ASSUME NEW q \in RequestState
    PROVE  Goes(q, Decide(q)) /\ Goes(q, DecideFailed(q))
<1>1. Goes(q, Decide(q))
  BY SendGoes, ForwardGoes DEF Decide
<1>2. Goes(q, DecideFailed(q))
  <2> DEFINE p == [q EXCEPT !.failed = TRUE, !.waiting = {}]
  <2>1. p \in RequestState /\ p.in = q.in /\ p.era = q.era
    BY DEF RequestState
  <2>2. DecideFailed(q) = IF redis = "open" THEN Forward(p) ELSE Send(p, 503)
    BY DEF DecideFailed
  <2> HIDE DEF p
  <2>3. Goes(p, DecideFailed(q))
    BY <2>1, <2>2, SendGoes, ForwardGoes
  <2> QED
    BY <2>1, <2>3 DEF Goes
<1> QED
  BY <1>1, <1>2

LEMMA EnterGoes ==
    ASSUME NEW r, NEW q \in RequestState, Handled(q), RoutesOK, Enter(r, q)
    PROVE  \E p : Step(r, p) /\ Goes(q, p)
<1>1. Checks(q) \subseteq Key
  BY ChecksAreKeys
<1>2. CASE Unlimited(q) \/ Checks(q) = {}
  BY <1>2, ForwardGoes DEF Enter
<1>3. CASE ~(Unlimited(q) \/ Checks(q) = {}) /\ redis # "none"
  <2> DEFINE p == [q EXCEPT !.at = "gate", !.waiting = Checks(q)]
  <2>1. p.in = q.in /\ p.era = q.era /\ p.at = "gate"
    BY DEF RequestState
  <2>2. Step(r, p)
    BY <1>3 DEF Enter
  <2> QED
    BY <2>1, <2>2 DEF Goes, Allowed
<1>4. CASE ~(Unlimited(q) \/ Checks(q) = {}) /\ redis = "none"
  <2> DEFINE ok == {k \in Checks(q) : used[k] < Limit(q.route, k)}
             p == [q EXCEPT !.store = Len(log), !.granted = ok, !.refused = Checks(q) \ ok]
  <2>1. Step(r, Decide(p))
    BY <1>4 DEF Enter
  <2>2. ok \in SUBSET Key /\ Checks(q) \ ok \in SUBSET Key /\ Len(log) \in Nat
    BY <1>1 DEF RoutesOK
  <2> HIDE DEF ok
  <2>3. p \in RequestState /\ p.in = q.in /\ p.era = q.era
    BY <2>2 DEF RequestState
  <2> HIDE DEF p
  <2>4. Goes(p, Decide(p))
    BY <2>3, DecideGoes
  <2> QED
    BY <2>1, <2>3, <2>4 DEF Goes
<1> QED
  BY <1>2, <1>3, <1>4

\* Every step arrives at one of these.
Arrives(r, p) ==
    /\ req[r].at = "idle" /\ p.era = Len(log) /\ p.in \in Inputs
    /\ p.at \in {"auth", "gate", "upstream", "sent"}
    /\ p.in.big \/ p.in.upgrade = "other"
       \/ (Allowed(p) <=> IsPreflight(p.in) /\ Allowing(p.in) # {})
    /\ p.at # "sent" /\ IsPreflight(p.in) => Allowing(p.in) = {}

Proceeds(r, p) ==
    req[r].at \in {"auth", "gate", "upstream"} /\ Goes(req[r], p)

LEMMA ArrivesUnanswered ==
    ASSUME Inv, NEW r \in Requests, NEW in \in Inputs, Matches(r, in),
           NEW q, q.in = in, q.era = Len(log), NEW p, Goes(q, p)
    PROVE  Arrives(r, p)
BY DEF Arrives, Goes, Matches

LEMMA StepKinds ==
    ASSUME Inv, Next
    PROVE  \/ \E c \in Configs : Reload(c)
           \/ \E r \in Requests : Ends(r)
           \/ \E r \in Requests : \E p :
                 /\ req' = [req EXCEPT ![r] = p] /\ UNCHANGED log
                 /\ Arrives(r, p) \/ Proceeds(r, p)
<1> DEFINE Kind == \E r \in Requests : \E p :
                 /\ req' = [req EXCEPT ![r] = p] /\ UNCHANGED log
                 /\ Arrives(r, p) \/ Proceeds(r, p)
<1>1. ASSUME NEW r \in Requests, NEW p, Step(r, p), Arrives(r, p) \/ Proceeds(r, p)
      PROVE  Kind
  BY <1>1 DEF Step
<1> HIDE DEF Kind
<1>2. ASSUME NEW r \in Requests, NEW in \in Inputs
      PROVE  /\ Arrived(r, in) \in RequestState /\ ~Arrived(r, in).passed
             /\ Arrived(r, in).in = in /\ Arrived(r, in).era = Len(log)
  BY ArrivedSound DEF Sound, Arrived, Idle
<1>3. ASSUME NEW r \in Requests, NEW in \in Inputs, NEW route \in Routes
      PROVE  LET q == [Arrived(r, in) EXCEPT !.route = route] IN
             /\ q \in RequestState /\ ~q.passed /\ q.in = in /\ q.era = Len(log)
             /\ Handled(q)
  <2>1. PICK a : a = Arrived(r, in)
    OBVIOUS
  <2>2. a \in RequestState /\ a.in = in /\ a.era = Len(log) /\ ~a.passed
    BY <1>2, <2>1
  <2>3. PICK q : q = [a EXCEPT !.route = route]
    OBVIOUS
  <2>4. /\ q \in RequestState /\ ~q.passed /\ q.in = in /\ q.era = Len(log)
        /\ q.route = route
    BY <2>2, <2>3 DEF RequestState
  <2> QED
    BY <2>1, <2>3, <2>4 DEF Handled
<1>4. ASSUME NEW i \in DOMAIN Config PROVE Config[i] \in Routes
  BY ConfigRoutes DEF Inv
<1>5. ASSUME NEW r \in Requests, NEW in \in Inputs, TooLarge(r, in) PROVE Kind
  <2>1. PICK p : p = Send(Arrived(r, in), 413) /\ Step(r, p)
    BY <1>5 DEF TooLarge
  <2>2. Goes(Arrived(r, in), p)
    BY <1>2, <2>1, SendGoes
  <2>3. p.at = "sent"
    BY <1>2, <2>1, SendSends
  <2> QED
    BY <1>1, <1>2, <1>5, <2>1, <2>2, <2>3 DEF TooLarge, Arrives, Goes
<1>6. ASSUME NEW r \in Requests, NEW in \in Inputs, Preflight(r, in) PROVE Kind
  <2>1. PICK i \in Allowing(in) :
           Step(r, Send([Arrived(r, in) EXCEPT !.route = Config[i]], 204))
    BY <1>6 DEF Preflight
  <2>2. Config[i] \in Routes
    BY <1>4 DEF Allowing, MatchingByPath
  <2>3. PICK q : q = [Arrived(r, in) EXCEPT !.route = Config[i]]
    OBVIOUS
  <2>4. q \in RequestState /\ ~q.passed /\ q.in = in /\ q.era = Len(log)
    BY <1>3, <2>2, <2>3
  <2>5. PICK p : p = Send(q, 204)
    OBVIOUS
  <2>6. /\ p.in = in /\ p.era = Len(log) /\ p.at = "sent" /\ p.status = 204 /\ ~p.passed
    BY <2>4, <2>5, SendSends
  <2> QED
    BY <1>1, <1>6, <2>1, <2>3, <2>5, <2>6 DEF Preflight, Arrives, Allowed
<1>7. ASSUME NEW r \in Requests, NEW in \in Inputs, NotFound(r, in) PROVE Kind
  <2>1. PICK status \in {400, 404} :
           /\ Step(r, Send(Arrived(r, in), status))
           /\ Matches(r, in) \/ (req[r].at = "idle" /\ in.upgrade = "other")
    BY <1>7 DEF NotFound
  <2>2. PICK p : p = Send(Arrived(r, in), status)
    OBVIOUS
  <2>3. Goes(Arrived(r, in), p)
    BY <1>2, <2>2, SendGoes
  <2>4. p.at = "sent"
    BY <1>2, <2>2, SendSends
  <2>5. Step(r, p)
    BY <2>1, <2>2
  <2>6. CASE Matches(r, in)
    <3>1. PICK q : q = Arrived(r, in)
      OBVIOUS
    <3>2. Arrives(r, p)
      BY <1>2, <2>3, <2>6, <3>1, ArrivesUnanswered
    <3> QED
      BY <1>1, <2>5, <3>2
  <2>7. CASE req[r].at = "idle" /\ in.upgrade = "other"
    <3>1. p.in = in /\ p.era = Len(log) /\ ~Allowed(p)
      BY <1>2, <2>3 DEF Goes
    <3>2. Arrives(r, p)
      BY <2>4, <2>7, <3>1 DEF Arrives
    <3> QED
      BY <1>1, <2>5, <3>2
  <2> QED
    BY <2>1, <2>6, <2>7
<1>8. ASSUME NEW r \in Requests, NEW in \in Inputs, UpgradeRefused(r, in) PROVE Kind
  <2>1. PICK route \in Matched(in) : \E status \in Problem(route, in) :
           Step(r, Send([Arrived(r, in) EXCEPT !.route = route], status))
    BY <1>8 DEF UpgradeRefused
  <2>2. route \in Routes
    BY <1>4 DEF Matched, Matching
  <2>3. PICK status \in {400, 403} :
           Step(r, Send([Arrived(r, in) EXCEPT !.route = route], status))
    BY <2>1 DEF Problem
  <2>4. PICK q : q = [Arrived(r, in) EXCEPT !.route = route]
    OBVIOUS
  <2>5. q \in RequestState /\ q.in = in /\ q.era = Len(log)
    BY <1>3, <2>2, <2>4
  <2>6. PICK p : p = Send(q, status)
    OBVIOUS
  <2>7. Goes(q, p)
    BY <2>5, <2>6, SendGoes
  <2>8. Arrives(r, p)
    BY <1>8, <2>5, <2>7, ArrivesUnanswered DEF UpgradeRefused
  <2> QED
    BY <1>1, <2>3, <2>4, <2>6, <2>8
<1>9. ASSUME NEW r \in Requests, NEW in \in Inputs, Begin(r, in) PROVE Kind
  <2>1. PICK route \in Matched(in) :
         LET q == [Arrived(r, in) EXCEPT !.route = route] IN
          IF route.auth = "none" THEN Enter(r, q)
          ELSE Step(r, IF in.tenant = "none" THEN Send(q, 401) ELSE [q EXCEPT !.at = "auth"])
    BY <1>9 DEF Begin
  <2>2. route \in Routes
    BY <1>4 DEF Matched, Matching
  <2>3. PICK q : q = [Arrived(r, in) EXCEPT !.route = route]
    OBVIOUS
  <2>4. q \in RequestState /\ q.in = in /\ q.era = Len(log) /\ Handled(q)
    BY <1>3, <2>2, <2>3
  <2>5. \E p : Step(r, p) /\ Goes(q, p)
    <3>1. CASE Enter(r, q)
      BY <2>4, <3>1, EnterGoes DEF Inv
    <3>2. CASE Step(r, Send(q, 401))
      BY <2>4, <3>2, SendGoes
    <3>3. CASE Step(r, [q EXCEPT !.at = "auth"])
      <4>1. PICK p : p = [q EXCEPT !.at = "auth"]
        OBVIOUS
      <4>2. p.in = q.in /\ p.era = q.era /\ p.at = "auth"
        BY <2>4, <4>1 DEF RequestState
      <4> QED
        BY <3>3, <4>1, <4>2 DEF Goes, Allowed
    <3> QED
      BY <2>1, <2>3, <3>1, <3>2, <3>3
  <2> QED
    BY <1>1, <1>9, <2>4, <2>5, ArrivesUnanswered DEF Begin
<1>10. ASSUME NEW r \in Requests PROVE req[r] \in RequestState /\ Placed(req[r])
  BY DEF Inv
<1>11. ASSUME NEW r \in Requests, Authenticated(r) PROVE Kind
  <2>1. req[r].at = "auth" /\ Handled(req[r])
    BY <1>10, <1>11 DEF Authenticated, Placed
  <2>2. CASE Enter(r, [req[r] EXCEPT !.tenant = req[r].in.tenant])
    <3>1. PICK q : q = [req[r] EXCEPT !.tenant = req[r].in.tenant]
      OBVIOUS
    <3>2. /\ q \in RequestState /\ q.in = req[r].in /\ q.era = req[r].era
          /\ q.route = req[r].route
      BY <1>10, <2>1, <3>1 DEF RequestState, Handled
    <3>3. PICK p : Step(r, p) /\ Goes(q, p)
      BY <2>1, <2>2, <3>1, <3>2, EnterGoes DEF Handled, Inv
    <3> QED
      BY <1>1, <2>1, <3>2, <3>3 DEF Proceeds, Goes
  <2>3. CASE \E status \in {401, 500} : Step(r, Send(req[r], status))
    BY <1>1, <1>10, <2>1, <2>3, SendGoes DEF Proceeds
  <2> QED
    BY <1>11, <2>2, <2>3 DEF Authenticated
<1>12. ASSUME NEW r \in Requests, NEW k \in Key, Consume(r, k) PROVE Kind
  <2>1. PICK ok \in BOOLEAN : ok <=> used[k] < Limit(req[r].route, k)
    OBVIOUS
  <2>2. PICK granted : granted = IF ok THEN req[r].granted \cup {k} ELSE req[r].granted
    OBVIOUS
  <2>3. PICK refused : refused = IF ok THEN req[r].refused ELSE req[r].refused \cup {k}
    OBVIOUS
  <2>4. PICK q : q = [req[r] EXCEPT !.waiting = req[r].waiting \ {k},
                                    !.granted = granted, !.refused = refused]
    OBVIOUS
  <2>5. Step(r, IF q.waiting = {} THEN Decide(q) ELSE q)
    BY <1>12, <2>1, <2>2, <2>3, <2>4 DEF Consume
  <2>6. req[r].at = "gate" /\ k \in req[r].waiting
    BY <1>12 DEF Consume
  <2>7. /\ q \in RequestState /\ q.in = req[r].in /\ q.era = req[r].era /\ q.at = "gate"
    <3>1. PICK w : w = req[r].waiting \ {k}
      OBVIOUS
    <3>2. req[r] \in RequestState
      BY <1>10
    <3>3. /\ req[r].waiting \subseteq Key /\ req[r].granted \subseteq Key
          /\ req[r].refused \subseteq Key
      BY <3>2 DEF RequestState
    <3>4. granted \subseteq Key /\ refused \subseteq Key
      BY <2>2, <2>3, <3>3
    <3>5. w \subseteq Key
      BY <3>1, <3>3
    <3>6. q = [req[r] EXCEPT !.waiting = w, !.granted = granted, !.refused = refused]
      BY <2>4, <3>1
    <3> QED
      BY <2>6, <3>2, <3>4, <3>5, <3>6 DEF RequestState
  <2>8. Goes(q, q) /\ Goes(q, Decide(q))
    BY <2>7, DecideGoes DEF Goes, Allowed
  <2>9. \E p : Step(r, p) /\ Goes(q, p)
    BY <2>5, <2>8
  <2> QED
    BY <1>1, <2>6, <2>7, <2>9 DEF Proceeds, Goes
<1>13. ASSUME NEW r \in Requests, LoseConnection(r) PROVE Kind
  <2>1. req[r].at = "gate" /\ UNCHANGED log
    BY <1>13 DEF LoseConnection
  <2>2. Goes(req[r], req[r]) /\ Goes(req[r], DecideFailed(req[r]))
    BY <1>10, <2>1, DecideGoes DEF Goes, Allowed
  <2>3. \E p \in {req[r], DecideFailed(req[r])} : req' = [req EXCEPT ![r] = p]
    BY <1>13 DEF LoseConnection, Inv
  <2> QED
    BY <2>1, <2>2, <2>3 DEF Kind, Proceeds
<1>14. ASSUME NEW r \in Requests, Finished(r) \/ Accepted(r) \/ Gone(r) PROVE Ends(r)
  BY <1>14, Endings
<1>15. ASSUME NEW r \in Requests, Answered(r) PROVE Kind
  <2>1. PICK status \in Nat : Step(r, Send(req[r], status))
    BY <1>15, GatewayAssumption DEF Answered
  <2>2. req[r].at = "upstream" /\ req[r].passed
    BY <1>10, <1>15 DEF Answered, Placed
  <2>3. Goes(req[r], Send(req[r], status))
    BY <1>10, <2>2, SendGoes
  <2> QED
    BY <1>1, <2>1, <2>2, <2>3 DEF Proceeds
<1> QED
  BY <1>5, <1>6, <1>7, <1>8, <1>9, <1>11, <1>12, <1>13, <1>14, <1>15 DEF Next, Kind

-----------------------------------------------------------------------------
(* Preflights *)

\* Where the announced method is accepted, the preflight and the request that it
\* announces meet the same route.
LEMMA SameRoute ==
    ASSUME RoutesOK, NEW in \in Inputs, AcceptsAsked(in)
    PROVE  Allowing(in) # {} <=>
               \E route \in Announced(in) : IsOriginAllowed(route.cors, in.origin)
<1> DEFINE hits == MatchingByPath(Config, in.path, in.host)
           both == Matching(Config, in.asks, in.path, in.host)
<1>1. Config \in Configs /\ Config \in Seq(Routes)
  BY ConfigRoutes, GatewayAssumption
<1>2. hits \in SUBSET Nat /\ both \subseteq hits
  BY <1>1 DEF Matching, MatchingByPath
<1>3. hits # {} => First(hits) \in both
  <2> SUFFICES ASSUME hits # {} PROVE First(hits) \in both
    OBVIOUS
  <2>1. First(hits) \in hits
    BY <1>2, FirstIsLeast
  <2>2. MatchesMethod(Config[First(hits)], in.asks)
    BY DEF AcceptsAsked
  <2> QED
    BY <2>1, <2>2 DEF Matching, MatchingByPath
<1>4. hits # {} => First(both) = First(hits)
  <2> SUFFICES ASSUME hits # {} PROVE First(both) = First(hits)
    OBVIOUS
  <2>1. /\ First(hits) \in hits /\ \A i \in hits : First(hits) <= i
        /\ First(both) \in both /\ \A i \in both : First(both) <= i
    BY <1>2, <1>3, FirstIsLeast
  <2>2. First(hits) \in Nat /\ First(both) \in Nat
    BY <1>2, <2>1
  <2>3. First(hits) <= First(both) /\ First(both) <= First(hits)
    BY <1>2, <1>3, <2>1
  <2> HIDE DEF hits, both
  <2> QED
    BY <2>2, <2>3
<1>5. Allowing(in) = {i \in hits : /\ i = First(hits)
                                   /\ IsOriginAllowed(Config[i].cors, in.origin)}
  BY DEF Allowing
<1>6. Announced(in) = {Config[i] : i \in {k \in both : k = First(both)}}
  BY DEF Announced
<1> HIDE DEF hits, both
<1>7. CASE hits = {}
  BY <1>2, <1>5, <1>6, <1>7
<1>8. CASE hits # {}
  <2>1. First(hits) \in hits /\ First(hits) \in both /\ First(both) = First(hits)
    BY <1>2, <1>3, <1>4, <1>8
  <2>2. Announced(in) = {Config[First(hits)]}
    BY <1>6, <2>1
  <2>3. Allowing(in) # {} <=> IsOriginAllowed(Config[First(hits)].cors, in.origin)
    BY <1>5, <2>1
  <2> QED
    BY <2>2, <2>3
<1> QED
  BY <1>7, <1>8

\* As long as no reload has come, a request that is under way was not allowed
\* as a preflight, and one that has been answered was if it could be.
Told(q) ==
    q.era = Len(log) /\ IsPreflight(q.in) /\ ~q.in.big /\ q.in.upgrade # "other" =>
        /\ q.at \in {"auth", "gate", "upstream"} => Allowing(q.in) = {}
        /\ q.at = "sent" => (Allowed(q) <=> Allowing(q.in) # {})

LEMMA ToldNext ==
    ASSUME Inv, [Next]_vars, \A r \in Requests : Told(req[r])
    PROVE  \A r \in Requests : Told(req[r])'
<1>1. ASSUME NEW c \in Configs, Reload(c) PROVE \A r \in Requests : Told(req[r])'
  <2>1. Len(log') = Len(log) + 1 /\ Len(log) \in Nat /\ req' = req
    BY <1>1 DEF Reload, Inv, RoutesOK
  <2>2. \A r \in Requests : req[r].era \in 1 .. Len(log)
    BY DEF Inv, Sound
  <2>3. \A r \in Requests : req'[r].era # Len(log')
    BY <2>1, <2>2
  <2> QED
    BY <2>3 DEF Told
<1>2. ASSUME log' = log
      PROVE  \A q : /\ Allowing(q.in)' = Allowing(q.in)
                    /\ Told(q)' <=> Told(q)
  BY <1>2 DEF Told, Allowing, Config, Allowed
<1>3. ASSUME NEW r \in Requests, Ends(r) PROVE \A s \in Requests : Told(req[s])'
  <2>1. PICK at, status :
           /\ at \in {"done", "open", "gone"} /\ log' = log
           /\ req' = [req EXCEPT ![r] = [req[r] EXCEPT !.at = at, !.status = status]]
    BY <1>3 DEF Ends, EndsAs
  <2>2. /\ req'[r].at \in {"done", "open", "gone"}
        /\ \A s \in Requests \ {r} : req'[s] = req[s]
    BY <2>1 DEF Inv, RequestState
  <2>3. \A s \in Requests : Told(req'[s])
    BY <2>2 DEF Told
  <2> QED
    BY <1>2, <2>1, <2>3 DEF Told
<1>4. ASSUME NEW r \in Requests, NEW p,
             req' = [req EXCEPT ![r] = p], UNCHANGED log,
             Arrives(r, p) \/ Proceeds(r, p)
      PROVE  \A s \in Requests : Told(req[s])'
  <2>1. req'[r] = p /\ \A s \in Requests \ {r} : req'[s] = req[s]
    BY <1>4 DEF Inv
  <2>2. Told(p)
    <3>1. CASE Arrives(r, p)
      BY <3>1 DEF Arrives, Told, Allowed
    <3>2. CASE Proceeds(r, p)
      BY <3>2 DEF Proceeds, Goes, Told
    <3> QED
      BY <1>4, <3>1, <3>2
  <2>3. \A s \in Requests : Told(req'[s])
    BY <2>1, <2>2
  <2> QED
    BY <1>2, <1>4, <2>3 DEF Told
<1>5. CASE UNCHANGED vars
  BY <1>2, <1>5 DEF vars, Told
<1> QED
  BY <1>1, <1>3, <1>4, <1>5, StepKinds

\* For any configs: a preflight is allowed exactly if the request that it announces
\* meets a route that allows the origin, or else the route that path and host lead
\* to does not accept the announced method: matcher.ts:29-37.
THEOREM PreflightsAgree == Spec => []PreflightDiffersByMethod
<1> DEFINE AllTold == \A r \in Requests : Told(req[r])
<1>1. Init => AllTold
  BY DEF Init, Told, Idle
<1>2. Inv /\ AllTold /\ [Next]_vars => AllTold'
  BY ToldNext
<1>3. Inv /\ AllTold => PreflightDiffersByMethod
  <2> SUFFICES ASSUME Inv, AllTold, NEW r \in Requests, Preflighted(req[r]),
                      AcceptsAsked(req[r].in)
               PROVE  Allowed(req[r]) <=>
                          \E route \in Announced(req[r].in) :
                              IsOriginAllowed(route.cors, req[r].in.origin)
    BY DEF PreflightDiffersByMethod, AgreesOn, Allowed, Preflighted
  <2>1. Allowed(req[r]) <=> Allowing(req[r].in) # {}
    BY DEF Told, Preflighted
  <2>2. req[r].in \in Inputs
    BY DEF Inv, Placed, Preflighted
  <2> QED
    BY <2>1, <2>2, SameRoute DEF Inv
<1> QED
  BY <1>1, <1>2, <1>3, InitInv, NextInv, PTL DEF Spec

=============================================================================
