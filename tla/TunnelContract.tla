--------------------------- MODULE TunnelContract ---------------------------
(***************************************************************************)
(* What the WebSocket proxy promises of a connection, without sockets, the *)
(* closing handshake, timers, limits or the shutdown: it takes a slot, is  *)
(* given what the upstream has already said, and flows both ways until it  *)
(* is cut.  It is cut once: what is said to a cut connection is never      *)
(* relayed, however long its sides take to close, and only a cut           *)
(* connection gives its slot back.                                         *)
(***************************************************************************)
EXTENDS Naturals, Sequences

CONSTANT Conns

VARIABLES
    tunnel,     \* of each connection: whether it flows, what the upstream has
                \* said and the client heard, the client asked, the upstream been told
    slots       \* the connections that have a slot

tvars == <<tunnel, slots>>

NoTunnel == [flows |-> FALSE, said |-> 0, heard |-> << >>, asked |-> 0, told |-> << >>]

Init ==
    /\ tunnel = [c \in Conns |-> NoTunnel]
    /\ slots = {}

Becomes(c, t) == tunnel' = [tunnel EXCEPT ![c] = t]

Cutting(t) == [t EXCEPT !.flows = FALSE]

\* One more message of the upstream, or of the client: relayed, or the
\* connection is cut -- if it was not flowing, nothing changes but the count.
Say(c) ==
    LET m == tunnel[c].said + 1
        t == [tunnel[c] EXCEPT !.said = m]
    IN  /\ \/ t.flows /\ Becomes(c, [t EXCEPT !.heard = Append(@, m)])
           \/ Becomes(c, Cutting(t))
        /\ UNCHANGED slots

Ask(c) ==
    LET m == tunnel[c].asked + 1
        t == [tunnel[c] EXCEPT !.asked = m]
    IN  /\ c \in slots
        /\ \/ t.flows /\ Becomes(c, [t EXCEPT !.told = Append(@, m)])
           \/ Becomes(c, Cutting(t))
        /\ UNCHANGED slots

\* The client is given the first n messages: all of them if it is to flow.
Link(c, n, flows) ==
    /\ c \notin slots
    /\ n <= tunnel[c].said /\ (flows => n = tunnel[c].said)
    /\ Becomes(c, [tunnel[c] EXCEPT !.heard = [i \in 1 .. n |-> i], !.flows = flows])
    /\ slots' = slots \cup {c}

Cut(S) ==
    /\ tunnel' = [c \in Conns |-> IF c \in S THEN Cutting(tunnel[c]) ELSE tunnel[c]]
    /\ UNCHANGED slots

Free(c) ==
    /\ c \in slots /\ ~tunnel[c].flows
    /\ Becomes(c, NoTunnel)
    /\ slots' = slots \ {c}

Next ==
    \/ \E c \in Conns : Say(c) \/ Ask(c) \/ Free(c)
    \/ \E c \in Conns, flows \in BOOLEAN : \E n \in 0 .. tunnel[c].said : Link(c, n, flows)
    \/ \E S \in SUBSET Conns : Cut(S)

Spec == Init /\ [][Next]_tvars

=============================================================================
