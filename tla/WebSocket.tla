----------------------------- MODULE WebSocket -----------------------------
(***************************************************************************)
(* The WebSocket proxy of one route: handshakes and bridged connections    *)
(* (gateway/src/websocket/proxy.ts), the registry that counts them         *)
(* (websocket/registry.ts) and the shutdown of the server around them      *)
(* (server.ts).  A connection has two sides, one `ws` socket to the client *)
(* and one to the upstream; each callback of either is one action.         *)
(***************************************************************************)
EXTENDS Integers, Sequences, FiniteSets

CONSTANTS
    Conns,           \* the handshakes and connections that may exist at once
    MaxConnections,  \* route.websocket.maxConnections
    Talkative,       \* bound: the connections on which the peers say something,
    MaxSaid          \* and how many messages each of them sends there

ASSUME WebSocketAssumption ==
    /\ IsFiniteSet(Conns) /\ Talkative \subseteq Conns
    /\ MaxConnections \in Nat \ {0}
    /\ MaxSaid \in Nat

VARIABLES
    conn,        \* progress of each handshake or connection
    registry,    \* the tracked connections
    closer       \* serving, or how far app.close() has come

vars == <<conn, registry, closer>>

\* waiting: routed, in auth or rate limiting.  connecting: connectUpstream.
\* opened: the upstream accepted, the client has not been answered.
\* bridged: handleUpgrade has called back.  unbridged: taken over from HTTP,
\* but handleUpgrade refused the client.
Phase == {"idle", "waiting", "connecting", "opened", "bridged", "unbridged"}

\* A side of the bridge, with the readyState CLOSING in three kinds, by what is
\* to end it.  closing: the gateway has called close(), the peer has not answered.
\* ending: the peer has, or `ws` itself over a message larger than maxPayload or
\* against the protocol; the proxy is told of it by the 'close' event only, and
\* nothing more is read.  dead: terminated or broken, 'close' still to come.
\* none: no such `ws` yet.
Side == {"none", "open", "closing", "ending", "dead", "closed"}

\* The client's TCP socket before a `ws` owns it.  ended: its FIN has come.
\* destroyed: 'close' still to be emitted.  gone: 'close' has been emitted.
Socket == {"up", "ended", "destroyed", "gone"}

\* clean: a close frame, relayed as such.  abnormal: 1006 and the like.
Ending == {"clean", "abnormal"}

NoConn ==
    [phase |-> "idle", socket |-> "up", client |-> "none", upstream |-> "none",
     closedSides |-> 0, kill |-> FALSE,
     held |-> << >>, heldClose |-> "none",      \* EarlyTraffic
     said |-> 0, heard |-> << >>,               \* messages of the upstream, and
     asked |-> 0, told |-> << >>]               \* of the client: sent, relayed

Init ==
    /\ conn = [c \in Conns |-> NoConn]
    /\ registry = {}
    /\ closer = "serving"

Update(c, r) == conn' = [conn EXCEPT ![c] = r]

-----------------------------------------------------------------------------
(* The handshake *)

\* An upgrade request reaches the route handler; Fastify answers 503 once
\* close() has begun.
Upgrade(c) ==
    /\ closer = "serving" /\ conn[c].phase = "idle"
    /\ Update(c, [NoConn EXCEPT !.phase = "waiting"])
    /\ UNCHANGED <<registry, closer>>

\* The client leaves while nobody listens to its socket: a FIN stays unread,
\* a reset emits 'close' to no one.
LeaveUnnoticed(c, how) ==
    /\ conn[c].phase = "waiting" /\ conn[c].socket = "up"
    /\ Update(c, [conn[c] EXCEPT !.socket = how])
    /\ UNCHANGED <<registry, closer>>

Capacity == Cardinality(registry) < MaxConnections

\* proxyWebSocket up to its await: capacity, pickTarget (which may find no
\* target), and the connection attempt.
ProxyWebSocket(c) ==
    /\ conn[c].phase = "waiting"
    /\ \/ Capacity /\ Update(c, [conn[c] EXCEPT !.phase = "connecting"])
       \/ Update(c, NoConn)             \* 503, no capacity or no healthy target
    /\ UNCHANGED <<registry, closer>>

\* 'end' or 'close' of the client's socket while connecting (resume() turns a
\* FIN that is already there into 'end'): both sides are torn down.
ClientAborts(c) ==
    /\ conn[c].phase = "connecting" /\ conn[c].socket \in {"up", "ended"}
    /\ Update(c, NoConn)
    /\ UNCHANGED <<registry, closer>>

\* Refused, failed, timed out, or opened with a sub-protocol nobody offered:
\* the client gets an HTTP answer.
UpstreamRefuses(c) ==
    /\ conn[c].phase = "connecting" /\ conn[c].socket # "ended"
    /\ Update(c, NoConn)
    /\ UNCHANGED <<registry, closer>>

UpstreamOpens(c) ==
    /\ conn[c].phase = "connecting" /\ conn[c].socket # "ended"
    /\ Update(c, [conn[c] EXCEPT !.phase = "opened", !.upstream = "open"])
    /\ UNCHANGED <<registry, closer>>

-----------------------------------------------------------------------------
(* Closing *)

Terminate(side) == IF side \in {"none", "closed"} THEN side ELSE "dead"
Close(side) == IF side = "open" THEN "closing" ELSE side

CloseBoth(r) ==
    [r EXCEPT !.client = Close(@), !.upstream = Close(@), !.kill = TRUE]

TerminateBoth(r) ==
    [r EXCEPT !.client = Terminate(@), !.upstream = Terminate(@)]

RelayCloseToClosed(side, ending) == side    \* faulty: the other side stays open

RelayClose(side, ending) ==
    IF side # "open" THEN side ELSE IF ending = "clean" THEN "closing" ELSE "dead"

\* What a side's 'close' event does, apart from finish().
UpstreamClosed(r, ending) ==
    [r EXCEPT !.upstream = "closed", !.client = RelayClose(@, ending),
              !.kill = TRUE, !.closedSides = @ + 1]

ClientClosedUnarmed(r, ending) ==   \* faulty: armKill() forgotten
    [r EXCEPT !.client = "closed", !.upstream = RelayClose(@, ending),
              !.closedSides = @ + 1]
ClientClosed(r, ending) ==
    [r EXCEPT !.client = "closed", !.upstream = RelayClose(@, ending),
              !.kill = TRUE, !.closedSides = @ + 1]

\* onSideClosed: finish() when both are closed.
Settle(c, r) ==
    IF r.closedSides = 2
    THEN Update(c, NoConn) /\ registry' = registry \ {c}
    ELSE Update(c, r) /\ UNCHANGED registry

-----------------------------------------------------------------------------
(* acceptClient *)

\* What the turn of handleUpgrade's callback makes of the connection before the
\* upstream's close, if that was early: the first n early messages are relayed;
\* if there are more, the client's buffer is over maxBufferedBytes.
Joining(r, n) ==
    LET b == [r EXCEPT !.phase = "bridged", !.client = "open",
                       !.heard = SubSeq(r.held, 1, n), !.held = << >>, !.heldClose = "none"]
    IN  IF n = Len(r.held) THEN b ELSE CloseBoth(b)

\* handleUpgrade called back: early traffic is delivered first, messages and
\* then, if it came, the upstream's close.
Bridge(r, n) ==
    IF r.heldClose = "none" THEN Joining(r, n)
    ELSE UpstreamClosed(Joining(r, n), r.heldClose)

\* handleUpgrade refuses: a socket that is already closed is "destroyed" again,
\* which emits nothing; a bad Sec-WebSocket-Protocol ends the socket.
Unbridged(r) ==
    [r EXCEPT !.phase = "unbridged",
              !.socket = IF @ = "up" THEN "destroyed" ELSE @]

AcceptForgetsEarly(c) ==        \* faulty: early messages are not delivered
    /\ conn[c].phase = "opened"
    /\ \/ conn[c].socket = "up" /\ Update(c, Bridge([conn[c] EXCEPT !.held = << >>], 0))
       \/ Update(c, Unbridged(conn[c]))
    /\ registry' = registry \cup {c}
    /\ UNCHANGED closer

Accept(c) ==
    /\ conn[c].phase = "opened"
    /\ \/ /\ conn[c].socket = "up"
          /\ \E n \in 0 .. Len(conn[c].held) : Update(c, Bridge(conn[c], n))
       \/ Update(c, Unbridged(conn[c]))
    /\ registry' = registry \cup {c}
    /\ UNCHANGED closer

HandshakeFailedKeepsSlot(c) ==  \* faulty: finish() is not reached
    /\ conn[c].phase = "unbridged" /\ conn[c].socket = "destroyed"
    /\ Update(c, NoConn)
    /\ UNCHANGED <<registry, closer>>

\* upgrade.socket's 'close' without a client: the upstream is not leaked, and
\* its missing other side counts as closed.
HandshakeFailed(c) ==
    /\ conn[c].phase = "unbridged" /\ conn[c].socket = "destroyed"
    /\ Update(c, NoConn)
    /\ registry' = registry \ {c}
    /\ UNCHANGED closer

-----------------------------------------------------------------------------
(* Traffic and the end of a connection *)

TakesWhileClosing(side) == side \in {"open", "closing"}   \* faulty

\* relay: a side that is not open is sent nothing any more.
Takes(side) == side = "open"

\* A message of the upstream: held until the client is there, then relayed
\* while the client's side is open -- or not, if the client reads too slowly
\* (maxBufferedBytes): both sides are closed instead.
UpstreamSays(c) ==
    LET r == conn[c]  m == r.said + 1  heard == [r EXCEPT !.said = m] IN
    /\ c \in Talkative /\ r.upstream \in {"open", "closing"} /\ r.said < MaxSaid
    /\ \/ r.phase # "bridged" /\ Update(c, [heard EXCEPT !.held = Append(@, m)])
       \/ r.phase = "bridged" /\ Takes(r.client) /\ Update(c, [heard EXCEPT !.heard = Append(@, m)])
       \/ r.phase = "bridged" /\ Takes(r.client) /\ Update(c, CloseBoth(heard))
       \/ r.phase = "bridged" /\ ~Takes(r.client) /\ Update(c, heard)
    /\ UNCHANGED <<registry, closer>>

\* A message of the client, likewise; it may also be over messageRateLimit.
\* The limiter answers before the next turn of the event loop, and the chain of
\* promises keeps the order of messages that came in one turn; but if the client's
\* 'error' comes in that turn, firstCause is set before the limiter is asked, and
\* the message (one here, for all of that turn) is dropped.
ClientSays(c) ==
    LET r == conn[c]  m == r.asked + 1  asked == [r EXCEPT !.asked = m] IN
    /\ c \in Talkative /\ r.phase = "bridged" /\ r.client \in {"open", "closing"}
    /\ r.asked < MaxSaid
    /\ \/ Takes(r.upstream) /\ Update(c, [asked EXCEPT !.told = Append(@, m)])
       \/ Takes(r.upstream) /\ Update(c, CloseBoth(asked))
       \/ ~Takes(r.upstream) /\ Update(c, asked)
       \/ r.client = "open" /\ Update(c, [asked EXCEPT !.client = "ending"])
    /\ UNCHANGED <<registry, closer>>

\* A side that is open begins to end without the gateway: its peer's close frame
\* or FIN, or an error of `ws`; or it breaks: its socket fails, or the callback of
\* a send() is told so and terminates it.  No listener of the proxy acts on it.
UpstreamEnds(c) ==
    /\ conn[c].upstream = "open"
    /\ \E side \in {"ending", "dead"} : Update(c, [conn[c] EXCEPT !.upstream = side])
    /\ UNCHANGED <<registry, closer>>

ClientEnds(c) ==
    /\ conn[c].client = "open"
    /\ \E side \in {"ending", "dead"} : Update(c, [conn[c] EXCEPT !.client = side])
    /\ UNCHANGED <<registry, closer>>

\* A 'close' event: a terminated socket can only end abnormally (or as its peer's
\* close frame said, when there is no open side left for that to matter).
CanEnd(side, ending) ==
    side \in {"closing", "ending"} \/ (side = "dead" /\ ending = "abnormal")

\* The upstream closes before the bridge exists: only remembered.
UpstreamClosesEarly(c, ending) ==
    /\ conn[c].phase \in {"opened", "unbridged"} /\ CanEnd(conn[c].upstream, ending)
    /\ Update(c, [conn[c] EXCEPT !.upstream = "closed", !.heldClose = ending])
    /\ UNCHANGED <<registry, closer>>

UpstreamCloses(c, ending) ==
    /\ conn[c].phase = "bridged" /\ CanEnd(conn[c].upstream, ending)
    /\ Settle(c, UpstreamClosed(conn[c], ending))
    /\ UNCHANGED closer

ClientCloses(c, ending) ==
    /\ conn[c].phase = "bridged" /\ CanEnd(conn[c].client, ending)
    /\ Settle(c, ClientClosed(conn[c], ending))
    /\ UNCHANGED closer

\* closeBoth: idle timeout.
GatewayCloses(c) ==
    /\ conn[c].phase = "bridged"
    /\ "open" \in {conn[c].client, conn[c].upstream}
    /\ Update(c, CloseBoth(conn[c]))
    /\ UNCHANGED <<registry, closer>>

\* The heartbeat got no pong from one of the sides.
DeadPeer(c) ==
    /\ conn[c].phase = "bridged"
    /\ Update(c, TerminateBoth(conn[c]))
    /\ UNCHANGED <<registry, closer>>

\* CLOSE_GRACE_MS after the first close.
KillTimer(c) ==
    /\ conn[c].kill /\ conn[c].phase \in {"bridged", "unbridged"}
    /\ Update(c, TerminateBoth(conn[c]))
    /\ UNCHANGED <<registry, closer>>

-----------------------------------------------------------------------------
(* app.close(): preClose runs registry.closeAll, then the HTTP server closes *)

ShutDown ==
    /\ closer = "serving"
    /\ conn' = [c \in Conns |-> IF c \in registry THEN CloseBoth(conn[c]) ELSE conn[c]]
    /\ closer' = "closing"
    /\ UNCHANGED registry

\* closeAll's loop is over: nothing is tracked any more, or the grace period
\* has passed and what is left is cut.
Drain ==
    /\ closer = "closing"
    /\ conn' = [c \in Conns |-> IF c \in registry THEN TerminateBoth(conn[c]) ELSE conn[c]]
    /\ closer' = "drained"
    /\ UNCHANGED registry

HasSocket(r) ==
    \/ r.phase \in {"waiting", "connecting", "opened", "unbridged"} /\ r.socket # "gone"
    \/ r.phase = "bridged" /\ r.client # "closed"

\* server.close() is done when no socket of a client is left.
Stop ==
    /\ closer = "drained"
    /\ \A c \in Conns : ~HasSocket(conn[c])
    /\ closer' = "stopped"
    /\ UNCHANGED <<conn, registry>>

-----------------------------------------------------------------------------

\* The promise of connectUpstream resolves within the turn of the event loop
\* that emitted 'open': until then only what that turn has already read from
\* the upstream is processed.
SameTurn(c) ==
    /\ conn[c].phase = "opened"
    /\ \/ Accept(c) \/ UpstreamSays(c) \/ UpstreamEnds(c)
       \/ \E e \in Ending : UpstreamClosesEarly(c, e)

OtherTurn ==
    /\ \A c \in Conns : conn[c].phase # "opened"
    /\ \/ \E c \in Conns :
             \/ Upgrade(c) \/ ProxyWebSocket(c) \/ ClientAborts(c)
             \/ \E how \in {"ended", "gone"} : LeaveUnnoticed(c, how)
             \/ UpstreamRefuses(c) \/ UpstreamOpens(c) \/ HandshakeFailed(c)
             \/ UpstreamSays(c) \/ ClientSays(c) \/ UpstreamEnds(c) \/ ClientEnds(c)
             \/ GatewayCloses(c) \/ DeadPeer(c) \/ KillTimer(c)
             \/ \E e \in Ending : \/ UpstreamClosesEarly(c, e)
                                  \/ UpstreamCloses(c, e) \/ ClientCloses(c, e)
       \/ ShutDown \/ Drain \/ Stop

Next == OtherTurn \/ \E c \in Conns : SameTurn(c)

Spec == Init /\ [][Next]_vars

=============================================================================
