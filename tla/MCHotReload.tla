----------------------------- MODULE MCHotReload -----------------------------
(***************************************************************************)
(* Instances of HotReloadProps for TLC: a handful of configs among which   *)
(* every reload a team would make is found - a route added, removed, given *)
(* a limit, a key or a health check - and a change of a fixed section.     *)
(***************************************************************************)
EXTENDS HotReloadProps

CONSTANTS broken, q1

OneRequest == {q1}

Both == [watch |-> TRUE, redis |-> TRUE, db |-> TRUE, admin |-> FALSE]
NoDb == [Both EXCEPT !.db = FALSE]
Unwatched == [Both EXCEPT !.watch = FALSE]

Route(id, on) == [id |-> id, on |-> on]
Config(fixed, routes) == [fixed |-> fixed, routes |-> routes]

AllConfigs ==
    {Config(Both, <<Route("a", {})>>),
     Config(Both, <<Route("a", {"probed"})>>),
     Config(Both, <<Route("a", {"limited"})>>),
     Config(Both, <<Route("a", {"probed"}), Route("b", {"keyed", "limited", "cached"})>>),
     Config(Both, <<Route("b", {"cached", "probed"}), Route("a", {"limited", "probed"})>>),
     Config(Unwatched, <<Route("a", {})>>),
     Config(Unwatched, <<Route("a", {"probed"}), Route("b", {"cached"})>>),
     Config(NoDb, <<Route("a", {"probed"})>>),
     Config(NoDb, <<Route("a", {"keyed"})>>)}

\* Two routes given the same id, which the schema accepts.
SameIdConfigs ==
    {Config(Both, <<Route("a", {"probed"})>>),
     Config(Both, <<Route("a", {"probed"}), Route("a", {"probed"})>>)}

=============================================================================
