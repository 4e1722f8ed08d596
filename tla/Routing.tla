------------------------------- MODULE Routing -------------------------------
(***************************************************************************)
(* routing/matcher.ts, routing/rewrite.ts and cors/index.ts as operators.  *)
(* A path is a sequence of pieces of text, "/" among them; a host is the   *)
(* sequence of its labels, already in lower case and without a port.  A    *)
(* pattern of a route is its text without the wildcard and a flag: wild    *)
(* for a path that ends in "/*", sub for a host that starts with "*.".     *)
(***************************************************************************)
EXTENDS Integers, Sequences, SequencesExt, FiniteSetsExt

AnyHost == <<>>
NoOrigin == "no origin"

MatchesMethod(route, method) == method \in route.methods

MatchesPath(route, path) ==
    \/ path = route.path
    \/ route.wild /\ IsPrefix(route.path \o <<"/">>, path)

\* "*.example.com" stands for every longer name, but not for example.com.
MatchesHost(route, host) ==
    \/ route.host = AnyHost
    \/ IF route.sub THEN Len(host) > Len(route.host) /\ IsSuffix(route.host, host)
       ELSE host = route.host

\* The indices of the routes that match; the first of them is the answer.
Matching(routes, method, path, host) ==
    {i \in DOMAIN routes : /\ MatchesMethod(routes[i], method)
                           /\ MatchesPath(routes[i], path)
                           /\ MatchesHost(routes[i], host)}

\* A plausible bug, which a comment there warns of: the host is ignored.
MatchingIgnoresHost(routes, path, host) ==
    {i \in DOMAIN routes : MatchesPath(routes[i], path)}

\* matchRouteByPath: a preflight comes as OPTIONS, whatever it announces.
MatchingByPath(routes, path, host) ==
    {i \in DOMAIN routes : MatchesPath(routes[i], path) /\ MatchesHost(routes[i], host)}

First(hits) == Min(hits)

\* A plausible bug: what is left of the path is taken as it is.
RewriteBare(route, path) ==
    IF IsPrefix(route.strip, path) THEN SubSeq(path, Len(route.strip) + 1, Len(path))
    ELSE path

\* rewritePath: the prefix is cut off as text, and a slash put back if needed.
RewritePath(route, path) ==
    IF route.strip # <<>> /\ IsPrefix(route.strip, path)
    THEN LET rest == SubSeq(path, Len(route.strip) + 1, Len(path)) IN
         IF rest # <<>> /\ Head(rest) = "/" THEN rest ELSE <<"/">> \o rest
    ELSE path

IsOriginAllowed(cors, origin) == cors.enabled /\ {"*", origin} \cap cors.origins # {}

\* allowOriginValue: with credentials the origin itself, never "*".
AllowOrigin(cors, origin) ==
    IF "*" \in cors.origins /\ ~cors.credentials THEN "*" ELSE origin

=============================================================================
