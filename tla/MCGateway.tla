------------------------------ MODULE MCGateway ------------------------------
(***************************************************************************)
(* Instances of GatewayProps for TLC: two routes on one host and a         *)
(* catch-all, with every kind of authentication and of key, and inputs     *)
(* that meet each way a request can be answered.                           *)
(***************************************************************************)
EXTENDS GatewayProps

CONSTANTS r1, r2

TwoRequests == {r1, r2}

Methods == {"GET", "POST", "OPTIONS"}
Cors == [enabled |-> TRUE, origins |-> {"app"}, credentials |-> TRUE]
NoCors == [Cors EXCEPT !.enabled = FALSE]
NoSockets == [enabled |-> FALSE, origins |-> {"*"}]

\* A route for every path of any host.
All == [id |-> "all", path |-> <<>>, wild |-> TRUE, host |-> AnyHost, sub |-> FALSE,
        methods |-> Methods, strip |-> <<>>, cors |-> NoCors, ws |-> NoSockets,
        auth |-> "none", keyBy |-> {}, limit |-> 1, global |-> 1]

\* /api/* of every host below site, for tenants with API keys.
Api == [All EXCEPT !.id = "api", !.path = <<"/", "api">>, !.strip = <<"/", "api">>,
                   !.host = <<"site">>, !.sub = TRUE, !.cors = Cors, !.auth = "apiKey",
                   !.keyBy = {"ip", "tenant"}, !.ws = [enabled |-> TRUE, origins |-> {"app"}]]

Counted == [All EXCEPT !.keyBy = {"ip", "global"}, !.methods = {"GET", "POST"},
                       !.strip = <<"/", "api">>]

\* The catch-all, and with it a limit by ip, goes; tokens take the place of keys
\* and with them the limit of the plan; a limit goes altogether.  In the first a
\* POST meets another route than the preflight that announces it.
ThreeConfigs ==
    {<<[Api EXCEPT !.methods = {"GET", "OPTIONS"}], Counted>>,
     <<[Api EXCEPT !.keyBy = {"tenant"}, !.auth = "jwt"]>>,
     <<[Api EXCEPT !.keyBy = {}], All>>}

Plans == [t \in {"t1"} |-> 2]

Get == [method |-> "GET", path |-> <<"/", "api", "/", "x">>, host |-> <<"a", "site">>,
        origin |-> NoOrigin, asks |-> "none", ip |-> "i1", tenant |-> "t1",
        upgrade |-> "no", big |-> FALSE]
Options == [Get EXCEPT !.method = "OPTIONS", !.origin = "app", !.asks = "POST"]

ManyInputs ==
    {Get,
     [Get EXCEPT !.host = <<"site">>, !.path = <<"/", "api">>, !.ip = "i2"],
     [Get EXCEPT !.tenant = "none", !.origin = "app"],
     [Get EXCEPT !.upgrade = "good", !.origin = "app"],
     [Get EXCEPT !.upgrade = "good", !.origin = "evil"],
     [Get EXCEPT !.upgrade = "other"],
     [Options EXCEPT !.big = TRUE],
     Options,
     [Options EXCEPT !.host = <<"site">>]}

=============================================================================
