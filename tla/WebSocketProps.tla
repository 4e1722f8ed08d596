--------------------------- MODULE WebSocketProps ---------------------------
(***************************************************************************)
(* The properties of WebSocket and the fairness its timeouts give it.      *)
(***************************************************************************)
EXTENDS WebSocket

Record ==
    [phase : Phase, socket : {"up", "ended", "destroyed", "gone"},
     client : Side, upstream : Side, closedSides : 0 .. 1, kill : BOOLEAN,
     held : Seq(1 .. MaxSaid), heldClose : Ending \cup {"none"},
     said : 0 .. MaxSaid, heard : Seq(1 .. MaxSaid),
     asked : 0 .. MaxSaid, told : Seq(1 .. MaxSaid)]

TypeOK ==
    /\ conn \in [Conns -> Record]
    /\ registry \subseteq Conns
    /\ closer \in {"serving", "closing", "drained", "stopped"}

-----------------------------------------------------------------------------
(* Safety *)

Bridged(c) == conn[c].phase = "bridged"
Alive(side) == side \in {"open", "closing"}

ClosedCount(r) == (IF r.client = "closed" THEN 1 ELSE 0)
                + (IF r.upstream = "closed" THEN 1 ELSE 0)

\* A connection holds a slot of maxConnections exactly from acceptClient until
\* both its sides have closed, whichever listener saw each side close: no early
\* close is counted twice or missed, none frees the slot too soon.
SlotsExact ==
    /\ registry = {c \in Conns : conn[c].phase \in {"bridged", "unbridged"}}
    /\ \A c \in Conns : Bridged(c) => ClosedCount(conn[c]) = conn[c].closedSides

\* proxy.ts:293-300: once one side of a bridge has closed, or the gateway has
\* begun to close one, the other cannot hang on: it is not left open, and the
\* kill timer runs.
ClosingIsBounded ==
    \A c \in Conns : LET sides == {conn[c].client, conn[c].upstream} IN
        Bridged(c) /\ sides \cap {"closed", "closing"} # {} =>
            "open" \notin sides /\ conn[c].kill

\* The comment at proxy.ts:293, taken of any closing handshake: whoever begins
\* it, a peer that does not finish it is cut when the kill timer fires.
\* (The code does not keep this: see README.md.)
EndingIsBounded ==
    \A c \in Conns :
        Bridged(c) /\ "ending" \in {conn[c].client, conn[c].upstream} => conn[c].kill

\* README.md:444-446 ("order is preserved"), across the two listeners that
\* hand over in the middle of the handshake, a message limit and full buffers:
\* each peer is given a prefix of what the other has sent, in order and once --
\* the client all of it as long as it is not being closed, the upstream as long
\* as neither is --, so nothing that follows a dropped message is ever relayed.
RelayedInOrder ==
    \A c \in Conns : LET r == conn[c] IN
        Bridged(c) =>
            /\ r.heard = [i \in 1 .. Len(r.heard) |-> i]
            /\ r.told = [i \in 1 .. Len(r.told) |-> i]
            /\ r.client = "open" => Len(r.heard) = r.said
            /\ r.client = "open" /\ r.upstream = "open" => Len(r.told) = r.asked

\* proxy.ts:261-495, README.md:440-446: whichever of the many events ends a
\* connection -- a limit, a full buffer, either peer, a timer, the shutdown, a
\* close that came before the bridge --, it ends for both directions at once and
\* for good: nothing said later is relayed, and its slot comes back after that.
View(r) ==
    [flows |-> r.client = "open" /\ r.upstream = "open",
     said |-> r.said, heard |-> r.heard, asked |-> r.asked, told |-> r.told]

Tunnels == INSTANCE TunnelContract WITH
    tunnel <- [c \in Conns |-> View(conn[c])],
    slots <- registry

KeepsTunnel == Tunnels!Spec

\* README.md:472 (`maxConnections`: "concurrent connections on this route; the
\* next handshake gets 503"): never more than maxConnections.
\* (The code does not keep this: see README.md.)
WithinCapacity == Cardinality(registry) <= MaxConnections

-----------------------------------------------------------------------------
(* Liveness *)

Over(side) == side \in {"ending", "dead"}
ClientIsOver(c) == Over(conn[c].client) /\ \E e \in Ending : ClientCloses(c, e)
UpstreamIsOver(c) == Over(conn[c].upstream) /\ \E e \in Ending : UpstreamCloses(c, e)

\* timeoutMs ends every connection attempt (handshakeTimeout), a destroyed or
\* terminated socket emits 'close', a closing handshake that the peer or `ws`
\* began is ended by the peer or by the timer that `ws` keeps itself, and timers
\* fire, if not in the turn that accepts a client (see SameTurn), then after it.
\* Peers owe nothing.
Fairness ==
    /\ \A c \in Conns :
          /\ WF_vars(ProxyWebSocket(c))
          /\ WF_vars(UpstreamOpens(c) \/ UpstreamRefuses(c) \/ ClientAborts(c))
          /\ WF_vars(Accept(c))
          /\ WF_vars(HandshakeFailed(c))
          /\ WF_vars(KillTimer(c))
          /\ WF_vars(ClientIsOver(c))
          /\ WF_vars(UpstreamIsOver(c))
    /\ WF_vars(Drain)
    /\ WF_vars(Stop)

FairSpec == Spec /\ Fairness

\* Once a side of a bridge is not open any more, the connection is let go,
\* however silent the peers are.
ClosesTogether ==
    \A c \in Conns :
        Bridged(c) /\ {conn[c].client, conn[c].upstream} # {"open"} ~> ~Bridged(c)

\* proxy.ts:318-319: if the client's handshake cannot be completed the upstream
\* connection must not leak: such a connection gives its slot back.
\* (The code does not keep this: see README.md.)
FailedHandshakeReleased ==
    \A c \in Conns : conn[c].phase = "unbridged" ~> conn[c].phase # "unbridged"

\* README.md:481-482 ("On shutdown every open connection is closed [...] and
\* the process exits in about a second instead of waiting for clients to
\* leave"), and server.ts:172.
\* (The code does not keep this: see README.md.)
ShutdownCompletes == closer = "closing" ~> closer = "stopped"

=============================================================================
