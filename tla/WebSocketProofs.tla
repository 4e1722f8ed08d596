--------------------------- MODULE WebSocketProofs ---------------------------
(***************************************************************************)
(* Proofs about WebSocket: for any number of connections and messages, and *)
(* whatever order the events of the sockets come in.                       *)
(***************************************************************************)
EXTENDS WebSocketProps, SequenceTheorems, TLAPS

-----------------------------------------------------------------------------
(* What is true of one connection at any time.  The three properties speak *)
(* of bridged connections only; what makes them inductive is what the      *)
(* handshake hands over: nothing before the upstream has opened, and then  *)
(* exactly what the early listeners have kept.                             *)

InOrder(s) == s = [i \in 1 .. Len(s) |-> i]

Fresh(r) ==
    /\ r.client = "none" /\ r.upstream = "none" /\ r.closedSides = 0 /\ ~r.kill
    /\ r.said = 0 /\ r.held = <<>> /\ r.heldClose = "none"
    /\ r.asked = 0 /\ r.told = <<>>

Early(r) ==
    /\ r.client = "none" /\ r.closedSides = 0 /\ r.upstream # "none"
    /\ r.heldClose = "none" <=> r.upstream # "closed"
    /\ r.asked = 0 /\ r.told = <<>>

Handed(r) ==
    /\ r.upstream \in {"open", "ending", "dead", "closed"} /\ ~r.kill
    /\ InOrder(r.held) /\ Len(r.held) = r.said

Joined(r) ==
    /\ r.client # "none" /\ r.upstream # "none" /\ ClosedCount(r) = r.closedSides
    /\ "closed" \in {r.client, r.upstream} => "open" \notin {r.client, r.upstream} /\ r.kill
    /\ "closing" \in {r.client, r.upstream} => "open" \notin {r.client, r.upstream} /\ r.kill
    /\ InOrder(r.heard) /\ (r.client = "open" => Len(r.heard) = r.said)
    /\ InOrder(r.told) /\ (r.client = "open" /\ r.upstream = "open" => Len(r.told) = r.asked)

Good(r) ==
    /\ r \in Record
    /\ r.phase \in {"idle", "waiting", "connecting"} => Fresh(r)
    /\ r.phase \in {"opened", "unbridged"} => Early(r)
    /\ r.phase = "opened" => Handed(r)
    /\ r.phase = "bridged" => Joined(r)

Tracked(r) == r.phase \in {"bridged", "unbridged"}

Inv ==
    /\ conn \in [Conns -> Record]
    /\ \A c \in Conns : Good(conn[c])
    /\ registry = {c \in Conns : Tracked(conn[c])}
    /\ closer \in {"serving", "closing", "drained", "stopped"}

-----------------------------------------------------------------------------
(* The functions on one connection *)

LEMMA FreshIsGood ==
    /\ Good(NoConn) /\ NoConn.phase = "idle"
    /\ Good([NoConn EXCEPT !.phase = "waiting"])
<1>1. /\ NoConn \in Record /\ NoConn.phase = "idle" /\ Fresh(NoConn)
  <2>1. 0 \in 0 .. MaxSaid /\ <<>> \in Seq(1 .. MaxSaid) /\ 0 \in 0 .. 1
    BY WebSocketAssumption
  <2> QED
    BY <2>1 DEF NoConn, Record, Phase, Side, Ending, Fresh
<1>2. [NoConn EXCEPT !.phase = "waiting"] \in Record
  BY <1>1 DEF Record, Phase
<1> QED
  BY <1>1, <1>2 DEF Good, Fresh, Record

LEMMA BothTyped ==
    ASSUME NEW r \in Record
    PROVE  /\ CloseBoth(r) \in Record /\ CloseBoth(r).phase = r.phase
           /\ TerminateBoth(r) \in Record /\ TerminateBoth(r).phase = r.phase
<1>1. /\ Close(r.client) \in Side /\ Close(r.upstream) \in Side
      /\ Terminate(r.client) \in Side /\ Terminate(r.upstream) \in Side
  BY DEF Close, Terminate, Side, Record
<1>2. PICK yes \in BOOLEAN : yes = TRUE
  OBVIOUS
<1>3. CloseBoth(r) = [r EXCEPT !.client = Close(r.client), !.upstream = Close(r.upstream),
                               !.kill = yes]
  BY <1>2 DEF CloseBoth, Record
<1>4. TerminateBoth(r) = [r EXCEPT !.client = Terminate(r.client),
                                   !.upstream = Terminate(r.upstream)]
  BY DEF TerminateBoth, Record
<1> QED
  BY <1>1, <1>3, <1>4 DEF Record

\* Closing or cutting both sides keeps a tracked connection as it should be.
LEMMA BothKeep ==
    ASSUME NEW r, Good(r), Tracked(r)
    PROVE  /\ Good(CloseBoth(r)) /\ CloseBoth(r).phase = r.phase
           /\ Good(TerminateBoth(r)) /\ TerminateBoth(r).phase = r.phase
<1>1. r \in Record
  BY DEF Good
<1>2. CloseBoth(r) \in Record /\ TerminateBoth(r) \in Record
  BY <1>1, BothTyped
<1>3. CASE r.phase = "unbridged"
  BY <1>1, <1>2, <1>3 DEF Good, Early, CloseBoth, TerminateBoth, Close, Terminate, Record
<1>4. CASE r.phase = "bridged"
  <2>1. Joined(r)
    BY <1>4 DEF Good
  <2>2. PICK p : p = CloseBoth(r)
    OBVIOUS
  <2>3. /\ p.client = Close(r.client) /\ p.upstream = Close(r.upstream) /\ p.kill
        /\ p.phase = r.phase /\ p.closedSides = r.closedSides
        /\ p.heard = r.heard /\ p.said = r.said /\ p.told = r.told /\ p.asked = r.asked
    BY <1>1, <2>2 DEF CloseBoth, Record
  <2>4. Joined(p)
    BY <2>1, <2>3 DEF Joined, ClosedCount, Close
  <2>5. PICK q : q = TerminateBoth(r)
    OBVIOUS
  <2>6. /\ q.client = Terminate(r.client) /\ q.upstream = Terminate(r.upstream)
        /\ q.kill = r.kill /\ q.phase = r.phase /\ q.closedSides = r.closedSides
        /\ q.heard = r.heard /\ q.said = r.said /\ q.told = r.told /\ q.asked = r.asked
    BY <1>1, <2>5 DEF TerminateBoth, Record
  <2>7. Joined(q)
    BY <2>1, <2>6 DEF Joined, ClosedCount, Terminate
  <2> QED
    BY <1>2, <1>4, <2>2, <2>3, <2>4, <2>5, <2>6, <2>7 DEF Good
<1> QED
  BY <1>3, <1>4 DEF Tracked

\* A side that closes is counted, and takes the other one with it.
LEMMA OneCloses ==
    ASSUME NEW r, Good(r), r.phase = "bridged", NEW e \in Ending,
           NEW q, \/ CanEnd(r.upstream, e) /\ q = UpstreamClosed(r, e)
                  \/ CanEnd(r.client, e) /\ q = ClientClosed(r, e)
    PROVE  q.closedSides # 2 => Good(q) /\ q.phase = "bridged"
<1>1. r \in Record /\ Joined(r)
  BY DEF Good
<1>2. r.closedSides \in {0, 1} /\ r.client \in Side /\ r.upstream \in Side
  BY <1>1 DEF Record
<1> SUFFICES ASSUME q.closedSides # 2 PROVE Good(q) /\ q.phase = "bridged"
  OBVIOUS
<1>3. CASE CanEnd(r.upstream, e) /\ q = UpstreamClosed(r, e)
  <2>1. r.closedSides = 0 /\ r.client # "closed" /\ r.upstream \notin {"none", "closed"}
    BY <1>1, <1>2, <1>3 DEF Joined, ClosedCount, CanEnd, UpstreamClosed, Record
  <2>2. q \in Record /\ q.phase = "bridged"
    <3>1. PICK other \in Side : other = RelayClose(r.client, e)
      BY <1>2 DEF RelayClose, Side
    <3>2. "closed" \in Side /\ 1 \in 0 .. 1 /\ TRUE \in BOOLEAN
      BY DEF Side
    <3>3. q = [r EXCEPT !.upstream = "closed", !.client = other, !.kill = TRUE, !.closedSides = 1]
      BY <1>1, <1>3, <2>1, <3>1 DEF UpstreamClosed, Record
    <3> QED
      BY <1>1, <3>1, <3>2, <3>3 DEF Record
  <2>3. Joined(q)
    BY <1>1, <1>2, <1>3, <2>1 DEF Joined, ClosedCount, UpstreamClosed, RelayClose, Ending, Record
  <2> QED
    BY <2>2, <2>3 DEF Good
<1>4. CASE CanEnd(r.client, e) /\ q = ClientClosed(r, e)
  <2>1. r.closedSides = 0 /\ r.upstream # "closed" /\ r.client \notin {"none", "closed"}
    BY <1>1, <1>2, <1>4 DEF Joined, ClosedCount, CanEnd, ClientClosed, Record
  <2>2. q \in Record /\ q.phase = "bridged"
    <3>1. PICK other \in Side : other = RelayClose(r.upstream, e)
      BY <1>2 DEF RelayClose, Side
    <3>2. "closed" \in Side /\ 1 \in 0 .. 1 /\ TRUE \in BOOLEAN
      BY DEF Side
    <3>3. q = [r EXCEPT !.client = "closed", !.upstream = other, !.kill = TRUE, !.closedSides = 1]
      BY <1>1, <1>4, <2>1, <3>1 DEF ClientClosed, Record
    <3> QED
      BY <1>1, <3>1, <3>2, <3>3 DEF Record
  <2>3. Joined(q)
    BY <1>1, <1>2, <1>4, <2>1 DEF Joined, ClosedCount, ClientClosed, RelayClose, Ending, Record
  <2> QED
    BY <2>2, <2>3 DEF Good
<1> QED
  BY <1>3, <1>4

LEMMA Grows ==
    ASSUME NEW s \in Seq(1 .. MaxSaid), NEW n \in 0 .. MaxSaid, n < MaxSaid
    PROVE  /\ n + 1 \in 0 .. MaxSaid /\ Append(s, n + 1) \in Seq(1 .. MaxSaid)
           /\ InOrder(s) /\ Len(s) = n =>
                 InOrder(Append(s, n + 1)) /\ Len(Append(s, n + 1)) = n + 1
<1>1. n + 1 \in 1 .. MaxSaid /\ n + 1 \in 0 .. MaxSaid
  BY WebSocketAssumption
<1>2. Append(s, n + 1) \in Seq(1 .. MaxSaid)
  BY <1>1
<1>3. ASSUME InOrder(s), Len(s) = n
      PROVE  InOrder(Append(s, n + 1)) /\ Len(Append(s, n + 1)) = n + 1
  <2>1. Len(Append(s, n + 1)) = n + 1
    BY <1>3
  <2>2. \A i \in 1 .. n + 1 : Append(s, n + 1)[i] = i
    <3>1. \A i \in 1 .. n : s[i] = i
      BY <1>3 DEF InOrder
    <3> QED
      BY <1>1, <1>3, <3>1
  <2> QED
    BY <1>2, <2>1, <2>2 DEF InOrder
<1> QED
  BY <1>1, <1>2, <1>3

LEMMA Prefix ==
    ASSUME NEW s \in Seq(1 .. MaxSaid), InOrder(s), NEW n \in 0 .. Len(s)
    PROVE  /\ SubSeq(s, 1, n) \in Seq(1 .. MaxSaid) /\ Len(SubSeq(s, 1, n)) = n
           /\ InOrder(SubSeq(s, 1, n))
<1>1. \A i \in 1 .. Len(s) : s[i] = i
  BY DEF InOrder
<1>2. 1 \in Int /\ n \in Int /\ \A i \in 1 .. n : s[i] \in 1 .. MaxSaid /\ s[i] = i
  <2>1. n \in Int /\ Len(s) \in Nat /\ n <= Len(s)
    OBVIOUS
  <2>2. ASSUME NEW i \in 1 .. n PROVE s[i] \in 1 .. MaxSaid /\ s[i] = i
    <3>1. i \in 1 .. Len(s)
      BY <2>1
    <3> QED
      BY <1>1, <3>1, ElementOfSeq
  <2> QED
    BY <2>1, <2>2
<1>3. /\ SubSeq(s, 1, n) \in Seq(1 .. MaxSaid)
      /\ Len(SubSeq(s, 1, n)) = IF 1 <= n THEN n - 1 + 1 ELSE 0
      /\ \A i \in 1 .. n - 1 + 1 : SubSeq(s, 1, n)[i] = s[1 + i - 1]
  BY <1>2, SubSeqProperties
<1>4. Len(SubSeq(s, 1, n)) = n /\ \A i \in 1 .. n : SubSeq(s, 1, n)[i] = i
  BY <1>2, <1>3
<1> QED
  BY <1>3, <1>4 DEF InOrder

\* The bridge takes over what the early listeners have kept: all of it, or a
\* prefix if that fills the client's buffer.
LEMMA BridgeHandsOver ==
    ASSUME NEW r, Good(r), r.phase = "opened", NEW n \in 0 .. Len(r.held)
    PROVE  /\ Good(Bridge(r, n)) /\ Bridge(r, n).phase = "bridged"
           /\ Good(Unbridged(r)) /\ Unbridged(r).phase = "unbridged"
<1>1. r \in Record /\ Early(r) /\ Handed(r)
  BY DEF Good
<1>2. Good(Unbridged(r)) /\ Unbridged(r).phase = "unbridged"
  <2>1. PICK socket \in {"up", "ended", "destroyed", "gone"} :
            socket = IF r.socket = "up" THEN "destroyed" ELSE r.socket
    BY <1>1 DEF Record
  <2>2. "unbridged" \in Phase /\ Unbridged(r) = [r EXCEPT !.phase = "unbridged", !.socket = socket]
    BY <1>1, <2>1 DEF Unbridged, Phase, Record
  <2>3. Unbridged(r) \in Record /\ Unbridged(r).phase = "unbridged"
    BY <1>1, <2>1, <2>2 DEF Record
  <2> QED
    BY <1>1, <2>2, <2>3 DEF Good, Early, Record
<1>3. PICK b : b = [r EXCEPT !.phase = "bridged", !.client = "open",
                             !.heard = SubSeq(r.held, 1, n), !.held = << >>, !.heldClose = "none"]
  OBVIOUS
<1>4. /\ SubSeq(r.held, 1, n) \in Seq(1 .. MaxSaid) /\ Len(SubSeq(r.held, 1, n)) = n
      /\ InOrder(SubSeq(r.held, 1, n))
  BY <1>1, Prefix DEF Handed, Record
<1>5. b \in Record /\ b.phase = "bridged"
  <2>1. /\ "bridged" \in Phase /\ "open" \in Side /\ <<>> \in Seq(1 .. MaxSaid)
        /\ "none" \in Ending \cup {"none"}
    BY DEF Phase, Side
  <2> QED
    BY <1>1, <1>3, <1>4, <2>1 DEF Record
<1>6. /\ b.client = "open" /\ b.upstream = r.upstream /\ b.closedSides = 0 /\ ~b.kill
      /\ b.heard = SubSeq(r.held, 1, n) /\ b.said = r.said /\ b.told = <<>> /\ b.asked = 0
  BY <1>1, <1>3 DEF Early, Handed, Record
<1>7. InOrder(b.told) /\ Len(b.told) = b.asked
  BY <1>6 DEF InOrder
<1>8. PICK d : d = Joining(r, n)
  OBVIOUS
<1>9. /\ d \in Record /\ d.phase = "bridged" /\ d.closedSides = 0
      /\ d.client \in {"open", "closing"}
      /\ r.upstream = "closed" => d.upstream = "closed"
      /\ r.upstream # "closed" => Joined(d)
      /\ InOrder(d.heard) /\ InOrder(d.told)
      /\ d.client = "open" => Len(d.heard) = d.said
  <2>1. CASE n = Len(r.held)
    <3>1. d = b
      BY <1>3, <1>8, <2>1 DEF Joining
    <3>2. InOrder(b.heard) /\ Len(b.heard) = b.said
      BY <1>1, <1>4, <1>6, <2>1 DEF Handed
    <3>3. r.upstream # "closed" => Joined(b)
      BY <1>1, <1>6, <1>7, <3>2 DEF Joined, ClosedCount, Handed
    <3> QED
      BY <1>5, <1>6, <1>7, <3>1, <3>2, <3>3
  <2>2. CASE n # Len(r.held)
    <3>1. d = CloseBoth(b)
      BY <1>3, <1>8, <2>2 DEF Joining
    <3>2. /\ "closing" \in Side /\ TRUE \in BOOLEAN
          /\ r.upstream \in {"open", "ending", "dead", "closed"}
      BY <1>1 DEF Side, Handed
    <3>3. d = [b EXCEPT !.client = "closing",
                        !.upstream = IF r.upstream = "open" THEN "closing" ELSE @, !.kill = TRUE]
      BY <1>5, <1>6, <3>1 DEF CloseBoth, Close, Record
    <3>4. d \in Record /\ d.phase = "bridged"
      BY <1>5, <3>2, <3>3 DEF Record
    <3>5. /\ d.client = "closing" /\ d.closedSides = 0 /\ d.kill
          /\ d.heard = b.heard /\ d.told = b.told /\ d.said = b.said /\ d.asked = b.asked
          /\ d.upstream = IF r.upstream = "open" THEN "closing" ELSE r.upstream
      BY <1>5, <1>6, <3>3 DEF Record
    <3>6. InOrder(d.heard) /\ InOrder(d.told)
      BY <1>4, <1>6, <1>7, <3>5
    <3>7. r.upstream # "closed" => Joined(d)
      BY <3>2, <3>5, <3>6 DEF Joined, ClosedCount
    <3> QED
      BY <3>2, <3>4, <3>5, <3>6, <3>7
  <2> QED
    BY <2>1, <2>2
<1>10. CASE r.heldClose = "none"
  <2>1. Bridge(r, n) = d /\ r.upstream # "closed"
    BY <1>1, <1>8, <1>10 DEF Bridge, Early, Handed
  <2> QED
    BY <1>2, <1>9, <2>1 DEF Good
<1>11. CASE r.heldClose # "none"
  <2>1. PICK e \in Ending : e = r.heldClose
    BY <1>1, <1>11 DEF Record
  <2>2. Bridge(r, n) = UpstreamClosed(d, e) /\ r.upstream = "closed"
    BY <1>1, <1>8, <1>11, <2>1 DEF Bridge, Early
  <2>3. PICK side \in {"closing", "dead"} : side = RelayClose(d.client, e)
    BY <1>9 DEF RelayClose
  <2>4. Bridge(r, n) = [d EXCEPT !.upstream = "closed", !.client = side,
                                 !.kill = TRUE, !.closedSides = 1]
    BY <1>9, <2>2, <2>3 DEF UpstreamClosed, Record
  <2>5. "closed" \in Side /\ side \in Side /\ 1 \in 0 .. 1
    BY <2>3 DEF Side
  <2>6. PICK p : p = Bridge(r, n)
    OBVIOUS
  <2>7. p \in Record /\ p.phase = "bridged"
    <3>1. d \in Record /\ d.phase = "bridged"
      BY <1>9
    <3>2. PICK yes \in BOOLEAN : yes = TRUE
      OBVIOUS
    <3>3. p = [d EXCEPT !.upstream = "closed", !.client = side, !.kill = yes, !.closedSides = 1]
      BY <2>4, <2>6, <3>2
    <3> QED
      BY <2>5, <3>1, <3>3 DEF Record
  <2>8. /\ p.client = side /\ p.upstream = "closed" /\ p.kill /\ p.closedSides = 1
        /\ p.heard = d.heard /\ p.said = d.said /\ p.told = d.told /\ p.asked = d.asked
    BY <1>9, <2>4, <2>6 DEF Record
  <2>9. InOrder(d.heard) /\ InOrder(d.told)
    BY <1>9
  <2>10. Joined(p)
    BY <2>3, <2>8, <2>9 DEF Joined, ClosedCount
  <2> QED
    BY <1>2, <2>6, <2>7, <2>10 DEF Good
<1> QED
  BY <1>10, <1>11

-----------------------------------------------------------------------------
(* The inductive invariant *)

\* One connection changes, and the registry with it if it has to.
LEMMA OneMoves ==
    ASSUME Inv, NEW c \in Conns, NEW q, Good(q), Update(c, q), closer' = closer,
           \/ registry' = registry /\ (Tracked(q) <=> Tracked(conn[c]))
           \/ registry' = registry \cup {c} /\ Tracked(q)
           \/ registry' = registry \ {c} /\ ~Tracked(q)
    PROVE  Inv'
<1>1. q \in Record /\ conn' = [conn EXCEPT ![c] = q] /\ conn \in [Conns -> Record]
  BY DEF Good, Update, Inv
<1>2. conn' \in [Conns -> Record] /\ \A d \in Conns : conn'[d] = IF d = c THEN q ELSE conn[d]
  BY <1>1
<1>3. \A d \in Conns : Good(conn'[d])
  BY <1>2 DEF Inv
<1>4. registry' = {d \in Conns : Tracked(conn'[d])}
  BY <1>2 DEF Inv, Tracked
<1> QED
  BY <1>2, <1>3, <1>4 DEF Inv, Tracked

\* A connection that is given up, or whose handshake begins.
LEMMA LetGo ==
    ASSUME Inv, NEW c \in Conns, closer' = closer,
           \/ Update(c, NoConn) /\ registry' = registry \ {c}
           \/ Update(c, NoConn) /\ registry' = registry /\ ~Tracked(conn[c])
           \/ /\ Update(c, [NoConn EXCEPT !.phase = "waiting"])
              /\ registry' = registry /\ ~Tracked(conn[c])
    PROVE  Inv'
<1>1. /\ Good(NoConn) /\ ~Tracked(NoConn)
      /\ Good([NoConn EXCEPT !.phase = "waiting"])
      /\ ~Tracked([NoConn EXCEPT !.phase = "waiting"])
  BY FreshIsGood DEF Tracked, NoConn
<1> QED
  BY <1>1, OneMoves

\* The handshake up to the moment the upstream opens.
LEMMA Handshakes ==
    ASSUME Inv, NEW c \in Conns,
           \/ Upgrade(c) \/ ProxyWebSocket(c) \/ ClientAborts(c) \/ UpstreamRefuses(c)
           \/ UpstreamOpens(c) \/ HandshakeFailed(c)
           \/ \E how \in {"ended", "gone"} : LeaveUnnoticed(c, how)
    PROVE  Inv'
<1>1. Good(conn[c]) /\ conn[c] \in Record
  BY DEF Inv
<1>2. CASE Upgrade(c)
  BY <1>2, LetGo DEF Upgrade, Tracked
<1>3. CASE ClientAborts(c) \/ UpstreamRefuses(c)
  BY <1>3, LetGo DEF ClientAborts, UpstreamRefuses, Tracked
<1>4. CASE HandshakeFailed(c)
  BY <1>4, LetGo DEF HandshakeFailed
<1>5. CASE ProxyWebSocket(c)
  <2>1. CASE Update(c, NoConn)
    BY <1>5, <2>1, LetGo DEF ProxyWebSocket, Tracked
  <2>2. CASE Update(c, [conn[c] EXCEPT !.phase = "connecting"])
    <3>1. Good([conn[c] EXCEPT !.phase = "connecting"])
      BY <1>1, <1>5 DEF ProxyWebSocket, Good, Fresh, Record, Phase
    <3>2. ~Tracked([conn[c] EXCEPT !.phase = "connecting"]) /\ ~Tracked(conn[c])
      BY <1>1, <1>5 DEF ProxyWebSocket, Tracked, Record
    <3> QED
      BY <1>5, <2>2, <3>1, <3>2, OneMoves DEF ProxyWebSocket
  <2> QED
    BY <1>5, <2>1, <2>2 DEF ProxyWebSocket
<1>6. ASSUME NEW how \in {"ended", "gone"}, LeaveUnnoticed(c, how) PROVE Inv'
  <2>1. Good([conn[c] EXCEPT !.socket = how])
    BY <1>1, <1>6 DEF LeaveUnnoticed, Good, Fresh, Record
  <2>2. ~Tracked([conn[c] EXCEPT !.socket = how]) /\ ~Tracked(conn[c])
    BY <1>1, <1>6 DEF LeaveUnnoticed, Tracked, Record
  <2> QED
    BY <1>6, <2>1, <2>2, OneMoves DEF LeaveUnnoticed
<1>7. CASE UpstreamOpens(c)
  <2>1. PICK q : q = [conn[c] EXCEPT !.phase = "opened", !.upstream = "open"]
    OBVIOUS
  <2>2. q \in Record /\ q.phase = "opened"
    BY <1>1, <2>1 DEF Record, Phase, Side
  <2>3. Fresh(conn[c])
    BY <1>1, <1>7 DEF UpstreamOpens, Good
  <2>4. Early(q) /\ Handed(q)
    BY <1>1, <2>1, <2>3 DEF Fresh, Early, Handed, InOrder, Record
  <2>5. Good(q) /\ ~Tracked(q) /\ ~Tracked(conn[c])
    BY <1>7, <2>2, <2>4 DEF UpstreamOpens, Good, Tracked
  <2> QED
    BY <1>7, <2>1, <2>5, OneMoves DEF UpstreamOpens
<1> QED
  BY <1>2, <1>3, <1>4, <1>5, <1>6, <1>7

LEMMA Accepts ==
    ASSUME Inv, NEW c \in Conns, Accept(c)
    PROVE  Inv'
<1>1. conn[c].phase = "opened" /\ Good(conn[c]) /\ Len(conn[c].held) \in Nat
  BY DEF Inv, Accept, Record
<1>2. ASSUME NEW n \in 0 .. Len(conn[c].held)
      PROVE  /\ Good(Bridge(conn[c], n)) /\ Tracked(Bridge(conn[c], n))
             /\ Good(Unbridged(conn[c])) /\ Tracked(Unbridged(conn[c]))
  BY <1>1, BridgeHandsOver DEF Tracked
<1>3. Good(Unbridged(conn[c])) /\ Tracked(Unbridged(conn[c]))
  BY <1>1, <1>2
<1> QED
  BY <1>2, <1>3, OneMoves DEF Accept

LEMMA Says ==
    ASSUME Inv, NEW c \in Conns, UpstreamSays(c)
    PROVE  Inv'
<1>1. Good(conn[c])
  BY DEF Inv
<1>2. PICK r \in Record : r = conn[c]
  BY <1>1 DEF Good
<1>3. /\ r.upstream \in {"open", "closing"} /\ r.said < MaxSaid /\ r.said \in 0 .. MaxSaid
      /\ r.held \in Seq(1 .. MaxSaid) /\ r.heard \in Seq(1 .. MaxSaid)
  BY <1>2 DEF UpstreamSays, Record
<1>4. PICK m \in 0 .. MaxSaid : m = r.said + 1
  BY <1>3, Grows
<1>5. /\ Append(r.held, m) \in Seq(1 .. MaxSaid)
      /\ InOrder(r.held) /\ Len(r.held) = r.said =>
            InOrder(Append(r.held, m)) /\ Len(Append(r.held, m)) = m
      /\ Append(r.heard, m) \in Seq(1 .. MaxSaid)
      /\ InOrder(r.heard) /\ Len(r.heard) = r.said =>
            InOrder(Append(r.heard, m)) /\ Len(Append(r.heard, m)) = m
  BY <1>3, <1>4, Grows
<1>6. PICK said : said = [r EXCEPT !.said = m]
  OBVIOUS
<1>7. CASE r.phase # "bridged"
  <2>1. PICK q : q = [said EXCEPT !.held = Append(@, m)]
    OBVIOUS
  <2>2. Update(c, q)
    BY <1>2, <1>4, <1>6, <1>7, <2>1 DEF UpstreamSays, Takes
  <2>3. q = [r EXCEPT !.said = m, !.held = Append(@, m)]
    BY <1>2, <1>6, <2>1 DEF Record
  <2>4. q \in Record /\ q.phase = r.phase
    BY <1>2, <1>4, <1>5, <2>3 DEF Record
  <2>5. r.phase \in {"opened", "unbridged"}
    BY <1>1, <1>2, <1>3, <1>7 DEF Good, Fresh, Record, Phase
  <2>6. Early(q)
    BY <1>1, <1>2, <2>3, <2>5 DEF Good, Early, Record
  <2>7. r.phase = "opened" => Handed(q)
    BY <1>1, <1>2, <1>5, <2>3 DEF Good, Handed, Record
  <2>8. Good(q) /\ (Tracked(q) <=> Tracked(conn[c]))
    BY <1>2, <2>4, <2>5, <2>6, <2>7 DEF Good, Tracked
  <2> QED
    BY <2>2, <2>8, OneMoves DEF UpstreamSays, Takes
<1>8. CASE r.phase = "bridged" /\ Update(c, CloseBoth(said))
  <2>1. said \in Record /\ said.phase = "bridged"
    BY <1>2, <1>4, <1>6, <1>8 DEF Record
  <2>2. Joined(CloseBoth(said)) /\ CloseBoth(said) \in Record /\ CloseBoth(said).phase = "bridged"
    <3>1. Joined(r)
      BY <1>1, <1>2, <1>8 DEF Good
    <3>2. CloseBoth(said) \in Record /\ CloseBoth(said).phase = "bridged"
      BY <2>1, BothTyped
    <3>3. PICK p : p = CloseBoth(said)
      OBVIOUS
    <3>4. /\ p.client = Close(r.client) /\ p.upstream = Close(r.upstream) /\ p.kill
          /\ p.closedSides = r.closedSides /\ p.heard = r.heard /\ p.told = r.told
          /\ p.asked = r.asked
      BY <1>2, <1>6, <2>1, <3>3 DEF CloseBoth, Record
    <3>5. Joined(p)
      BY <3>1, <3>4 DEF Joined, ClosedCount, Close
    <3> QED
      BY <3>2, <3>3, <3>5
  <2>3. Good(CloseBoth(said)) /\ (Tracked(CloseBoth(said)) <=> Tracked(conn[c]))
    BY <1>2, <1>8, <2>2 DEF Good, Tracked
  <2> QED
    BY <1>8, <2>3, OneMoves DEF UpstreamSays, Takes
<1>9. CASE r.phase = "bridged" /\ r.client = "open" /\ ~Update(c, CloseBoth(said))
  <2>1. PICK q : q = [said EXCEPT !.heard = Append(@, m)]
    OBVIOUS
  <2>2. Update(c, q)
    BY <1>2, <1>4, <1>6, <1>9, <2>1 DEF UpstreamSays, Takes
  <2>3. q = [r EXCEPT !.said = m, !.heard = Append(@, m)]
    BY <1>2, <1>6, <2>1 DEF Record
  <2>4. q \in Record /\ q.phase = "bridged"
    BY <1>2, <1>4, <1>5, <1>9, <2>3 DEF Record
  <2>5. Joined(q)
    <3>1. /\ q.client = r.client /\ q.upstream = r.upstream /\ q.kill = r.kill
          /\ q.closedSides = r.closedSides /\ q.asked = r.asked /\ q.told = r.told
          /\ q.said = m /\ q.heard = Append(r.heard, m)
      BY <1>2, <2>3 DEF Record
    <3>2. Joined(r)
      BY <1>1, <1>2, <1>9 DEF Good
    <3>3. InOrder(q.heard) /\ Len(q.heard) = q.said
      BY <1>5, <1>9, <3>1, <3>2 DEF Joined
    <3> QED
      BY <3>1, <3>2, <3>3 DEF Joined, ClosedCount
  <2>6. Good(q) /\ (Tracked(q) <=> Tracked(conn[c]))
    BY <1>2, <1>9, <2>4, <2>5 DEF Good, Tracked
  <2> QED
    BY <2>2, <2>6, OneMoves DEF UpstreamSays, Takes
<1>10. CASE r.phase = "bridged" /\ r.client # "open" /\ ~Update(c, CloseBoth(said))
  <2>1. Update(c, said)
    BY <1>2, <1>4, <1>6, <1>10 DEF UpstreamSays, Takes
  <2>2. said \in Record /\ said.phase = "bridged"
    BY <1>2, <1>4, <1>6, <1>10 DEF Record
  <2>3. Joined(said)
    BY <1>1, <1>2, <1>6, <1>10 DEF Good, Joined, ClosedCount, Record
  <2>4. Good(said) /\ (Tracked(said) <=> Tracked(conn[c]))
    BY <1>2, <1>10, <2>2, <2>3 DEF Good, Tracked
  <2> QED
    BY <2>1, <2>4, OneMoves DEF UpstreamSays, Takes
<1> QED
  BY <1>7, <1>8, <1>9, <1>10

LEMMA Asks ==
    ASSUME Inv, NEW c \in Conns, ClientSays(c)
    PROVE  Inv'
<1>1. Good(conn[c])
  BY DEF Inv
<1>2. PICK r \in Record : r = conn[c]
  BY <1>1 DEF Good
<1>3. /\ r.phase = "bridged" /\ Joined(r)
      /\ r.asked < MaxSaid /\ r.asked \in 0 .. MaxSaid /\ r.told \in Seq(1 .. MaxSaid)
  BY <1>1, <1>2 DEF ClientSays, Good, Record
<1>4. PICK m \in 0 .. MaxSaid : m = r.asked + 1
  BY <1>3, Grows
<1>5. /\ Append(r.told, m) \in Seq(1 .. MaxSaid)
      /\ InOrder(r.told) /\ Len(r.told) = r.asked =>
            InOrder(Append(r.told, m)) /\ Len(Append(r.told, m)) = m
  BY <1>3, <1>4, Grows
<1>6. PICK asked : asked = [r EXCEPT !.asked = m]
  OBVIOUS
<1>7. asked \in Record /\ asked.phase = "bridged"
  BY <1>2, <1>3, <1>4, <1>6 DEF Record
<1>8. PICK q : /\ Update(c, q)
               /\ \/ r.upstream = "open" /\ q = [asked EXCEPT !.told = Append(@, m)]
                  \/ q = CloseBoth(asked)
                  \/ r.upstream # "open" /\ q = asked
                  \/ r.client = "open" /\ q = [asked EXCEPT !.client = "ending"]
  BY <1>2, <1>4, <1>6 DEF ClientSays, Takes
<1>9. q \in Record /\ q.phase = "bridged" /\ Joined(q)
  <2>1. CASE r.upstream = "open" /\ q = [asked EXCEPT !.told = Append(@, m)]
    <3>1. q = [r EXCEPT !.asked = m, !.told = Append(@, m)]
      BY <1>2, <1>6, <2>1 DEF Record
    <3>2. q \in Record /\ q.phase = "bridged"
      BY <1>2, <1>3, <1>4, <1>5, <3>1 DEF Record
    <3>3. /\ q.client = r.client /\ q.upstream = r.upstream /\ q.kill = r.kill
          /\ q.closedSides = r.closedSides /\ q.said = r.said /\ q.heard = r.heard
          /\ q.asked = m /\ q.told = Append(r.told, m)
      BY <1>2, <3>1 DEF Record
    <3>4. InOrder(q.told) /\ Len(q.told) = q.asked
      <4>1. r.client = "open"
        BY <1>2, <1>3, <2>1 DEF ClientSays, Joined
      <4> QED
        BY <1>3, <1>5, <2>1, <3>3, <4>1 DEF Joined
    <3>5. Joined(q)
      BY <1>3, <3>3, <3>4 DEF Joined, ClosedCount
    <3> QED
      BY <3>2, <3>5
  <2>2. CASE q = CloseBoth(asked)
    <3>1. q \in Record /\ q.phase = "bridged"
      BY <1>7, <2>2, BothTyped
    <3>2. /\ q.client = Close(r.client) /\ q.upstream = Close(r.upstream) /\ q.kill
          /\ q.closedSides = r.closedSides /\ q.heard = r.heard /\ q.told = r.told
          /\ q.said = r.said
      BY <1>2, <1>6, <1>7, <2>2 DEF CloseBoth, Record
    <3>3. Joined(q)
      BY <1>3, <3>2 DEF Joined, ClosedCount, Close
    <3> QED
      BY <3>1, <3>3
  <2>3. CASE r.upstream # "open" /\ q = asked
    BY <1>2, <1>3, <1>6, <1>7, <2>3 DEF Joined, ClosedCount, Record
  <2>4. CASE r.client = "open" /\ q = [asked EXCEPT !.client = "ending"]
    <3>1. "ending" \in Side
      BY DEF Side
    <3>2. q \in Record /\ q.phase = "bridged"
      BY <1>7, <2>4, <3>1 DEF Record
    <3>3. /\ q.client = "ending" /\ q.upstream = r.upstream /\ q.kill = r.kill
          /\ q.closedSides = r.closedSides /\ q.heard = r.heard /\ q.told = r.told
          /\ q.said = r.said
      BY <1>2, <1>6, <1>7, <2>4 DEF Record
    <3>4. Joined(q)
      BY <1>3, <2>4, <3>3 DEF Joined, ClosedCount
    <3> QED
      BY <3>2, <3>4
  <2> QED
    BY <1>8, <2>1, <2>2, <2>3, <2>4
<1>10. Good(q) /\ (Tracked(q) <=> Tracked(conn[c]))
  BY <1>2, <1>3, <1>9 DEF Good, Tracked
<1> QED
  BY <1>8, <1>10, OneMoves DEF ClientSays, Takes

\* A side that ends by itself, at any time, leaves the other as it is.
LEMMA Ends ==
    ASSUME Inv, NEW c \in Conns, UpstreamEnds(c) \/ ClientEnds(c)
    PROVE  Inv'
<1>1. Good(conn[c])
  BY DEF Inv
<1>2. PICK r \in Record : r = conn[c]
  BY <1>1 DEF Good
<1>3. /\ "ending" \in Side /\ "dead" \in Side /\ "none" \in Side
  BY DEF Side
<1>4. PICK q, side : /\ Update(c, q) /\ side \in {"ending", "dead"}
                     /\ \/ r.upstream = "open" /\ q = [r EXCEPT !.upstream = side]
                        \/ r.client = "open" /\ q = [r EXCEPT !.client = side]
  BY <1>2 DEF UpstreamEnds, ClientEnds
<1>5. /\ q \in Record /\ q.phase = r.phase /\ q.kill = r.kill /\ q.closedSides = r.closedSides
      /\ q.held = r.held /\ q.heldClose = r.heldClose
      /\ q.said = r.said /\ q.heard = r.heard /\ q.asked = r.asked /\ q.told = r.told
      /\ \/ r.upstream = "open" /\ q.upstream = side /\ q.client = r.client
         \/ r.client = "open" /\ q.client = side /\ q.upstream = r.upstream
  BY <1>2, <1>3, <1>4 DEF Record
<1>6. CASE r.phase = "bridged"
  <2>1. Joined(q)
    BY <1>1, <1>2, <1>4, <1>5, <1>6 DEF Good, Joined, ClosedCount
  <2> QED
    BY <1>2, <1>4, <1>5, <1>6, <2>1, OneMoves DEF UpstreamEnds, ClientEnds, Good, Tracked
<1>7. CASE r.phase # "bridged"
  <2>1. r.client # "open" /\ (r.upstream = "open" => r.phase \in {"opened", "unbridged"})
    BY <1>1, <1>2, <1>7 DEF Good, Early, Fresh, Record, Phase
  <2>2. q.upstream \in {"ending", "dead"} /\ q.client = r.client
    BY <1>4, <1>5, <2>1
  <2>3. r.phase \in {"opened", "unbridged"} /\ r.upstream = "open"
    BY <1>5, <2>1
  <2>4. Early(q)
    BY <1>1, <1>2, <1>5, <2>2, <2>3 DEF Good, Early
  <2>5. r.phase = "opened" => Handed(q)
    BY <1>1, <1>2, <1>5, <2>2 DEF Good, Handed
  <2> QED
    BY <1>2, <1>4, <1>5, <1>7, <2>3, <2>4, <2>5, OneMoves
       DEF UpstreamEnds, ClientEnds, Good, Tracked
<1> QED
  BY <1>6, <1>7

\* The upstream's close while nobody but the early listener hears it.
LEMMA ClosesEarly ==
    ASSUME Inv, NEW c \in Conns, NEW e \in Ending, UpstreamClosesEarly(c, e)
    PROVE  Inv'
<1>1. Good(conn[c]) /\ conn[c].phase \in {"opened", "unbridged"}
  BY DEF Inv, UpstreamClosesEarly
<1>2. PICK r \in Record : r = conn[c]
  BY <1>1 DEF Good
<1>3. PICK q : q = [r EXCEPT !.upstream = "closed", !.heldClose = e]
  OBVIOUS
<1>4. q \in Record /\ q.phase = r.phase
  BY <1>2, <1>3 DEF Record, Side
<1>5. Early(q)
  BY <1>1, <1>2, <1>3 DEF Good, Early, Ending, Record
<1>6. r.phase = "opened" => Handed(q)
  BY <1>1, <1>2, <1>3 DEF Good, Handed, Record
<1>7. Good(q) /\ (Tracked(q) <=> Tracked(conn[c]))
  BY <1>1, <1>2, <1>4, <1>5, <1>6 DEF Good, Tracked
<1> QED
  BY <1>2, <1>3, <1>7, OneMoves DEF UpstreamClosesEarly

LEMMA Closes ==
    ASSUME Inv, NEW c \in Conns,
           \/ GatewayCloses(c) \/ DeadPeer(c) \/ KillTimer(c)
           \/ \E e \in Ending : UpstreamCloses(c, e) \/ ClientCloses(c, e)
    PROVE  Inv'
<1>1. Good(conn[c])
  BY DEF Inv
<1>2. CASE GatewayCloses(c) \/ DeadPeer(c) \/ KillTimer(c)
  <2>1. Tracked(conn[c])
    BY <1>2 DEF GatewayCloses, DeadPeer, KillTimer, Tracked
  <2>2. /\ Good(CloseBoth(conn[c])) /\ Tracked(CloseBoth(conn[c]))
        /\ Good(TerminateBoth(conn[c])) /\ Tracked(TerminateBoth(conn[c]))
    BY <1>1, <2>1, BothKeep DEF Tracked
  <2> QED
    BY <1>2, <2>1, <2>2, OneMoves DEF GatewayCloses, DeadPeer, KillTimer
<1>3. ASSUME NEW e \in Ending, UpstreamCloses(c, e) \/ ClientCloses(c, e) PROVE Inv'
  <2>1. PICK q : /\ conn[c].phase = "bridged" /\ Settle(c, q) /\ closer' = closer
                 /\ \/ CanEnd(conn[c].upstream, e) /\ q = UpstreamClosed(conn[c], e)
                    \/ CanEnd(conn[c].client, e) /\ q = ClientClosed(conn[c], e)
    BY <1>3 DEF UpstreamCloses, ClientCloses
  <2>2. CASE q.closedSides = 2
    BY <2>1, <2>2, LetGo DEF Settle
  <2>3. CASE q.closedSides # 2
    <3>1. Good(q) /\ q.phase = "bridged"
      BY <1>1, <2>1, <2>3, OneCloses
    <3> QED
      BY <2>1, <2>3, <3>1, OneMoves DEF Settle, Tracked
  <2> QED
    BY <2>2, <2>3
<1> QED
  BY <1>2, <1>3

\* The shutdown acts on every tracked connection at once.
LEMMA Drains ==
    ASSUME Inv, ShutDown \/ Drain \/ Stop
    PROVE  Inv'
<1>1. CASE Stop
  BY <1>1 DEF Stop, Inv, Tracked
<1>2. CASE ShutDown \/ Drain
  <2>1. \A c \in Conns :
            /\ Good(conn'[c]) /\ conn'[c].phase = conn[c].phase
            /\ conn' \in [Conns -> {conn'[d] : d \in Conns}]
    <3>1. \A c \in registry :
              /\ Good(CloseBoth(conn[c])) /\ CloseBoth(conn[c]).phase = conn[c].phase
              /\ Good(TerminateBoth(conn[c])) /\ TerminateBoth(conn[c]).phase = conn[c].phase
      BY BothKeep DEF Inv
    <3>2. \A c \in Conns \ registry : Good(conn[c])
      BY DEF Inv
    <3> QED
      BY <1>2, <3>1, <3>2 DEF ShutDown, Drain
  <2>2. conn' \in [Conns -> Record]
    BY <1>2, <2>1 DEF ShutDown, Drain, Good
  <2>3. registry' = registry /\ closer' \in {"closing", "drained"}
    BY <1>2 DEF ShutDown, Drain
  <2> QED
    BY <2>1, <2>2, <2>3 DEF Inv, Tracked
<1> QED
  BY <1>1, <1>2

LEMMA InitInv == Init => Inv
BY FreshIsGood DEF Init, Inv, Tracked, Good

LEMMA NextInv == Inv /\ [Next]_vars => Inv'
<1> SUFFICES ASSUME Inv, [Next]_vars PROVE Inv'
  OBVIOUS
<1>1. CASE UNCHANGED vars
  BY <1>1 DEF vars, Inv, Tracked
<1>2. ASSUME NEW c \in Conns, SameTurn(c) PROVE Inv'
  BY <1>2, Accepts, Says, Ends, ClosesEarly DEF SameTurn
<1>3. CASE OtherTurn
  BY <1>3, Handshakes, Says, Asks, Ends, ClosesEarly, Closes, Drains DEF OtherTurn
<1> QED
  BY <1>1, <1>2, <1>3 DEF Next

\* The invariant holds in every state the proxy reaches.
THEOREM Invariance == Spec => []Inv
BY InitInv, NextInv, PTL DEF Spec

-----------------------------------------------------------------------------
(* The theorems *)

\* Connections are well typed; no side is ever counted as closed twice.
THEOREM TypeCorrect == Spec => []TypeOK
<1>1. Inv => TypeOK
  BY DEF Inv, TypeOK
<1> QED
  BY <1>1, Invariance, PTL

\* A slot is held from acceptClient to the close of both sides, and no longer.
THEOREM SlotsAreExact == Spec => []SlotsExact
<1>1. Inv => SlotsExact
  BY DEF Inv, SlotsExact, Bridged, Good, Joined, Tracked
<1> QED
  BY <1>1, Invariance, PTL

\* Once one side has closed, or the gateway has begun to close one, no side is left
\* open and the kill timer runs.  (Nothing of the kind for a side that is ending by
\* itself: its 'close' event is awaited.)
THEOREM ClosingAlwaysBounded == Spec => []ClosingIsBounded
<1>1. Inv => ClosingIsBounded
  BY DEF Inv, ClosingIsBounded, Bridged, Good, Joined
<1> QED
  BY <1>1, Invariance, PTL

\* The hand-over neither loses, repeats nor reorders a message.
THEOREM MessagesInOrder == Spec => []RelayedInOrder
<1>1. Inv => RelayedInOrder
  BY DEF Inv, RelayedInOrder, Bridged, Good, Joined, InOrder
<1> QED
  BY <1>1, Invariance, PTL

-----------------------------------------------------------------------------
(* The contract *)

\* Before there is a bridge the client has heard nothing.
Unheard(r) == r.phase # "bridged" => r.heard = <<>>

Quiet == \A c \in Conns : Unheard(conn[c])

Tunnel == [c \in Conns |-> View(conn[c])]

NoView == [flows |-> FALSE, said |-> 0, heard |-> <<>>, asked |-> 0, told |-> <<>>]

CutView(v) == [v EXCEPT !.flows = FALSE]

LEMMA Views ==
    ASSUME NEW r
    PROVE  /\ View(r).flows <=> r.client = "open" /\ r.upstream = "open"
           /\ View(r).flows \in BOOLEAN
           /\ View(r).said = r.said /\ View(r).heard = r.heard
           /\ View(r).asked = r.asked /\ View(r).told = r.told
BY DEF View

\* Two connections look alike if they agree in what shows.
LEMMA SameView ==
    ASSUME NEW r, NEW q, View(r).flows = View(q).flows,
           r.said = q.said, r.heard = q.heard, r.asked = q.asked, r.told = q.told
    PROVE  View(q) = View(r)
BY DEF View

\* A view is the record of its fields, and replacing some replaces those.
LEMMA ViewFields ==
    ASSUME NEW r, NEW f, NEW h
    PROVE  /\ [View(r) EXCEPT !.flows = f] =
                  [flows |-> f, said |-> r.said, heard |-> r.heard,
                   asked |-> r.asked, told |-> r.told]
           /\ [View(r) EXCEPT !.heard = h, !.flows = f] =
                  [flows |-> f, said |-> r.said, heard |-> h, asked |-> r.asked, told |-> r.told]
<1>1. PICK g : g = (r.client = "open" /\ r.upstream = "open")
  OBVIOUS
<1>2. View(r) = [flows |-> g, said |-> r.said, heard |-> r.heard,
                 asked |-> r.asked, told |-> r.told]
  BY <1>1 DEF View
<1>3. PICK v : v = View(r)
  OBVIOUS
<1>4. [v EXCEPT !.flows = f] = [flows |-> f, said |-> r.said, heard |-> r.heard,
                                asked |-> r.asked, told |-> r.told]
  BY <1>2, <1>3
<1>5. PICK w : w = [v EXCEPT !.heard = h]
  OBVIOUS
<1>6. w = [flows |-> g, said |-> r.said, heard |-> h, asked |-> r.asked, told |-> r.told]
  BY <1>2, <1>3, <1>5
<1>7. [v EXCEPT !.heard = h, !.flows = f] = [w EXCEPT !.flows = f]
  BY <1>5
<1>8. [w EXCEPT !.flows = f] = [flows |-> f, said |-> r.said, heard |-> h,
                                asked |-> r.asked, told |-> r.told]
  BY <1>6
<1> QED
  BY <1>3, <1>4, <1>7, <1>8

LEMMA CutViews ==
    ASSUME NEW r, NEW q, ~View(q).flows,
           r.said = q.said, r.heard = q.heard, r.asked = q.asked, r.told = q.told
    PROVE  View(q) = CutView(View(r))
<1>1. PICK no : no = FALSE
  OBVIOUS
<1>2. (q.client = "open" /\ q.upstream = "open") = no
  BY <1>1, Views
<1>3. View(q) = [flows |-> no, said |-> q.said, heard |-> q.heard,
                 asked |-> q.asked, told |-> q.told]
  BY <1>2 DEF View
<1>4. CutView(View(r)) = [View(r) EXCEPT !.flows = no]
  BY <1>1 DEF CutView
<1>5. [View(r) EXCEPT !.flows = no] = [flows |-> no, said |-> r.said, heard |-> r.heard,
                                       asked |-> r.asked, told |-> r.told]
  BY ViewFields
<1> QED
  BY <1>3, <1>4, <1>5

LEMMA LinkView ==
    ASSUME NEW r, NEW q, r.said = q.said, r.asked = q.asked, r.told = q.told
    PROVE  \E f, h : /\ f = View(q).flows /\ h = q.heard
                     /\ View(q) = [View(r) EXCEPT !.heard = h, !.flows = f]
<1>1. PICK f, h : f = View(q).flows /\ h = q.heard
  OBVIOUS
<1>2. f = (q.client = "open" /\ q.upstream = "open")
  BY <1>1 DEF View
<1>3. View(q) = [flows |-> f, said |-> q.said, heard |-> h, asked |-> q.asked, told |-> q.told]
  BY <1>1, <1>2 DEF View
<1>4. [View(r) EXCEPT !.heard = h, !.flows = f] =
          [flows |-> f, said |-> r.said, heard |-> h, asked |-> r.asked, told |-> r.told]
  BY ViewFields
<1> QED
  BY <1>1, <1>3, <1>4

LEMMA FreshView ==
    ASSUME NEW r, Fresh(r), r.heard = <<>>
    PROVE  View(r) = NoView
BY DEF Fresh, View, NoView

LEMMA NoConnView ==
    /\ View(NoConn) = NoView /\ Unheard(NoConn)
    /\ View([NoConn EXCEPT !.phase = "waiting"]) = NoView
    /\ Unheard([NoConn EXCEPT !.phase = "waiting"])
BY DEF NoConn, View, NoView, Unheard

\* A connection that is not bridged does not flow.
LEMMA Unlinked ==
    ASSUME NEW r, Good(r), r.phase # "bridged"
    PROVE  ~View(r).flows
<1>1. r.client = "none"
  BY DEF Good, Record, Phase, Fresh, Early
<1> QED
  BY <1>1 DEF View

\* Closing both sides, or cutting them, cuts the connection.
LEMMA BothCut ==
    ASSUME NEW r \in Record, Unheard(r), r.phase = "bridged" => Joined(r),
           NEW q \in {CloseBoth(r), TerminateBoth(r)}
    PROVE  View(q) = CutView(View(r)) /\ Unheard(q)
<1>1. /\ q.said = r.said /\ q.heard = r.heard /\ q.asked = r.asked /\ q.told = r.told
      /\ q.phase = r.phase
      /\ q.client \in {Close(r.client), Terminate(r.client)}
      /\ q.upstream \in {Close(r.upstream), Terminate(r.upstream)}
  BY DEF CloseBoth, TerminateBoth, Record
<1>2. q.client # "open" /\ q.upstream # "open"
  BY <1>1 DEF Close, Terminate
<1>3. ~View(q).flows
  BY <1>2, Views
<1> QED
  BY <1>1, <1>2, <1>3, CutViews DEF Unheard

\* So does the close of one side.
LEMMA OneCuts ==
    ASSUME NEW r \in Record, r.phase = "bridged", NEW e \in Ending,
           NEW q \in {UpstreamClosed(r, e), ClientClosed(r, e)}
    PROVE  View(q) = CutView(View(r)) /\ Unheard(q) /\ (~View(r).flows => View(q) = View(r))
<1>1. /\ q.said = r.said /\ q.heard = r.heard /\ q.asked = r.asked /\ q.told = r.told
      /\ q.phase = r.phase
      /\ q.client \in {"closed", RelayClose(r.client, e)}
      /\ q.upstream \in {"closed", RelayClose(r.upstream, e)}
  BY DEF UpstreamClosed, ClientClosed, Record
<1>2. q.client # "open" /\ q.upstream # "open"
  BY <1>1 DEF RelayClose
<1>3. ~View(q).flows
  BY <1>2, Views
<1>4. ~View(r).flows => View(q) = View(r)
  BY <1>1, <1>3, Views, SameView
<1> QED
  BY <1>1, <1>2, <1>3, <1>4, CutViews DEF Unheard

\* So does a side that ends by itself.
LEMMA EndCuts ==
    ASSUME NEW r \in Record, Unheard(r), NEW side \in {"ending", "dead"},
           NEW q, \/ r.upstream = "open" /\ q = [r EXCEPT !.upstream = side]
                  \/ r.client = "open" /\ q = [r EXCEPT !.client = side]
    PROVE  View(q) = CutView(View(r)) /\ Unheard(q)
<1>1. /\ q.said = r.said /\ q.heard = r.heard /\ q.asked = r.asked /\ q.told = r.told
      /\ q.phase = r.phase /\ side \in {q.client, q.upstream}
  BY DEF Record
<1>2. ~View(q).flows
  BY <1>1, Views
<1> QED
  BY <1>1, <1>2, CutViews DEF Unheard

\* One connection changes what shows of it, or nothing does.
LEMMA TunnelMoves ==
    ASSUME Inv, Quiet, NEW c \in Conns, NEW q, Update(c, q), Unheard(q)
    PROVE  Quiet' /\ Tunnel' = [Tunnel EXCEPT ![c] = View(q)] /\ Tunnel[c] = View(conn[c])
<1>1. \A d \in Conns : conn'[d] = IF d = c THEN q ELSE conn[d]
  BY DEF Update, Inv
<1>2. Quiet'
  BY <1>1 DEF Quiet
<1>3. Tunnel' = [d \in Conns |-> IF d = c THEN View(q) ELSE View(conn[d])]
  BY <1>1 DEF Tunnel
<1> QED
  BY <1>2, <1>3 DEF Tunnel

LEMMA TunnelStays ==
    ASSUME Inv, Quiet, NEW c \in Conns, NEW q, Update(c, q), Unheard(q),
           View(q) = View(conn[c])
    PROVE  Quiet' /\ Tunnel' = Tunnel
<1>1. Quiet' /\ Tunnel' = [Tunnel EXCEPT ![c] = View(q)] /\ Tunnel[c] = View(conn[c])
  BY TunnelMoves
<1>2. Tunnel' = [Tunnel EXCEPT ![c] = Tunnel[c]]
  BY <1>1
<1> QED
  BY <1>1, <1>2 DEF Tunnel

\* The connections of S are cut.
CutTunnel(S) == Tunnel' = [c \in Conns |-> IF c \in S THEN CutView(Tunnel[c]) ELSE Tunnel[c]]

LEMMA TunnelCut ==
    ASSUME Inv, Quiet, NEW c \in Conns, NEW q, Update(c, q), Unheard(q),
           View(q) = CutView(View(conn[c]))
    PROVE  Quiet' /\ CutTunnel({c})
<1>1. Quiet' /\ Tunnel' = [Tunnel EXCEPT ![c] = View(q)] /\ Tunnel[c] = View(conn[c])
  BY TunnelMoves
<1> QED
  BY <1>1 DEF CutTunnel, Tunnel

\* Up to the moment the upstream opens there is nothing to see, nor in the
\* early close.
LEMMA HandshakeUnseen ==
    ASSUME Inv, Quiet, NEW c \in Conns,
           \/ Upgrade(c) \/ ProxyWebSocket(c) \/ ClientAborts(c) \/ UpstreamRefuses(c)
           \/ UpstreamOpens(c)
           \/ \E how \in {"ended", "gone"} : LeaveUnnoticed(c, how)
           \/ \E e \in Ending : UpstreamClosesEarly(c, e)
    PROVE  Quiet' /\ Tunnel' = Tunnel /\ registry' = registry
<1>1. Good(conn[c]) /\ conn[c] \in Record /\ Unheard(conn[c])
  BY DEF Inv, Quiet
<1>2. registry' = registry
  BY DEF Upgrade, ProxyWebSocket, ClientAborts, UpstreamRefuses, UpstreamOpens,
         LeaveUnnoticed, UpstreamClosesEarly
<1> SUFFICES Quiet' /\ Tunnel' = Tunnel
  BY <1>2
<1>3. ASSUME NEW e \in Ending, UpstreamClosesEarly(c, e) PROVE Quiet' /\ Tunnel' = Tunnel
  <2>1. PICK q : q = [conn[c] EXCEPT !.upstream = "closed", !.heldClose = e]
    OBVIOUS
  <2>2. Update(c, q) /\ conn[c].phase # "bridged"
    BY <1>3, <2>1 DEF UpstreamClosesEarly
  <2>3. /\ q.phase = conn[c].phase /\ q.upstream = "closed"
        /\ q.said = conn[c].said /\ q.heard = conn[c].heard
        /\ q.asked = conn[c].asked /\ q.told = conn[c].told
    BY <1>1, <2>1 DEF Record
  <2>4. ~View(conn[c]).flows /\ ~View(q).flows
    BY <1>1, <2>2, <2>3, Unlinked, Views
  <2>5. View(q) = View(conn[c])
    BY <2>3, <2>4, Views, SameView
  <2>6. Unheard(q)
    BY <1>1, <2>2, <2>3 DEF Unheard
  <2> QED
    BY <2>2, <2>5, <2>6, TunnelStays
<1>4. CASE \/ Upgrade(c) \/ ProxyWebSocket(c) \/ ClientAborts(c) \/ UpstreamRefuses(c)
           \/ UpstreamOpens(c)
           \/ \E how \in {"ended", "gone"} : LeaveUnnoticed(c, how)
  <2>1. conn[c].phase \in {"idle", "waiting", "connecting"}
    BY <1>4 DEF Upgrade, ProxyWebSocket, ClientAborts, UpstreamRefuses, UpstreamOpens,
                LeaveUnnoticed
  <2>2. Fresh(conn[c]) /\ conn[c].heard = <<>>
    BY <1>1, <2>1 DEF Good, Unheard
  <2>3. View(conn[c]) = NoView
    BY <2>2, FreshView
  <2>4. CASE \/ Update(c, NoConn)
             \/ Update(c, [NoConn EXCEPT !.phase = "waiting"])
    BY <2>3, <2>4, NoConnView, TunnelStays
  <2>5. CASE \E q : /\ Update(c, q) /\ q.phase # "bridged" /\ q.client = "none"
                    /\ q.said = conn[c].said /\ q.heard = conn[c].heard
                    /\ q.asked = conn[c].asked /\ q.told = conn[c].told
    <3>1. PICK q : /\ Update(c, q) /\ q.phase # "bridged" /\ q.client = "none"
                   /\ q.said = conn[c].said /\ q.heard = conn[c].heard
                   /\ q.asked = conn[c].asked /\ q.told = conn[c].told
      BY <2>5
    <3>2. ~View(conn[c]).flows /\ ~View(q).flows
      BY <1>1, <2>1, <3>1, Unlinked, Views
    <3>3. View(q) = View(conn[c])
      BY <3>1, <3>2, Views, SameView
    <3>4. Unheard(q)
      BY <2>2, <3>1 DEF Unheard
    <3> QED
      BY <3>1, <3>3, <3>4, TunnelStays
  <2>6. conn[c].client = "none"
    BY <2>2 DEF Fresh
  <2>7. CASE Upgrade(c) \/ ClientAborts(c) \/ UpstreamRefuses(c)
    BY <2>4, <2>7 DEF Upgrade, ClientAborts, UpstreamRefuses
  <2>8. CASE ProxyWebSocket(c)
    <3>1. CASE Update(c, [conn[c] EXCEPT !.phase = "connecting"])
      <4>1. PICK q : q = [conn[c] EXCEPT !.phase = "connecting"]
        OBVIOUS
      <4>2. /\ q.phase = "connecting" /\ q.client = "none"
            /\ q.said = conn[c].said /\ q.heard = conn[c].heard
            /\ q.asked = conn[c].asked /\ q.told = conn[c].told
        BY <1>1, <2>6, <4>1 DEF Record
      <4> QED
        BY <2>5, <3>1, <4>1, <4>2
    <3> QED
      BY <2>4, <2>8, <3>1 DEF ProxyWebSocket
  <2>9. CASE UpstreamOpens(c)
    <3>1. PICK q : q = [conn[c] EXCEPT !.phase = "opened", !.upstream = "open"]
      OBVIOUS
    <3>2. /\ q.phase = "opened" /\ q.client = "none"
          /\ q.said = conn[c].said /\ q.heard = conn[c].heard
          /\ q.asked = conn[c].asked /\ q.told = conn[c].told
      BY <1>1, <2>6, <3>1 DEF Record
    <3>3. Update(c, q)
      BY <2>9, <3>1 DEF UpstreamOpens
    <3> QED
      BY <2>5, <3>2, <3>3
  <2>10. ASSUME NEW how \in {"ended", "gone"}, LeaveUnnoticed(c, how)
         PROVE  Quiet' /\ Tunnel' = Tunnel
    <3>1. PICK q : q = [conn[c] EXCEPT !.socket = how]
      OBVIOUS
    <3>2. /\ q.phase = conn[c].phase /\ q.client = "none"
          /\ q.said = conn[c].said /\ q.heard = conn[c].heard
          /\ q.asked = conn[c].asked /\ q.told = conn[c].told
      BY <1>1, <2>6, <3>1 DEF Record
    <3>3. Update(c, q) /\ conn[c].phase = "waiting"
      BY <2>10, <3>1 DEF LeaveUnnoticed
    <3> QED
      BY <2>5, <3>2, <3>3
  <2> QED
    BY <1>4, <2>7, <2>8, <2>9, <2>10
<1> QED
  BY <1>3, <1>4

\* A failed handshake, and the close of the second side, give the slot back.
LEMMA SlotFreed ==
    ASSUME Inv, Quiet, NEW c \in registry, Update(c, NoConn), registry' = registry \ {c},
           ~View(conn[c]).flows
    PROVE  Quiet' /\ Tunnels!Free(c)
<1>1. c \in Conns
  BY DEF Inv
<1>2. Quiet' /\ Tunnel' = [Tunnel EXCEPT ![c] = NoView] /\ Tunnel[c] = View(conn[c])
  BY <1>1, NoConnView, TunnelMoves
<1> QED
  BY <1>2 DEF Tunnels!Free, Tunnels!Becomes, Tunnels!NoTunnel, NoView, Tunnel

LEMMA TunnelCutIs ==
    ASSUME NEW S, CutTunnel(S), registry' = registry
    PROVE  Tunnels!Cut(S)
BY DEF CutTunnel, CutView, Tunnel, Tunnels!Cut, Tunnels!Cutting

\* The bridge hands over a prefix of what the upstream has said; if it flows,
\* all of it.
LEMMA Links ==
    ASSUME Inv, Quiet, NEW c \in Conns, Accept(c)
    PROVE  /\ Quiet'
           /\ \E n \in 0 .. Tunnel[c].said, flows \in BOOLEAN : Tunnels!Link(c, n, flows)
<1>1. PICK r \in Record : r = conn[c] /\ Good(r)
  BY DEF Inv
<1>2. /\ r.phase = "opened" /\ Early(r) /\ Handed(r) /\ r.heard = <<>>
      /\ registry' = registry \cup {c} /\ c \notin registry
      /\ r.said \in Nat /\ Len(r.held) = r.said
  BY <1>1 DEF Accept, Good, Handed, Quiet, Unheard, Inv, Tracked, Record
<1>3. ASSUME NEW q, Update(c, q), Unheard(q), NEW n \in 0 .. r.said,
             View(q).flows => n = r.said,
             q.said = r.said, q.heard = [i \in 1 .. n |-> i], q.asked = r.asked, q.told = r.told
      PROVE  /\ Quiet'
             /\ \E k \in 0 .. Tunnel[c].said, f \in BOOLEAN : Tunnels!Link(c, k, f)
  <2>1. Quiet' /\ Tunnel' = [Tunnel EXCEPT ![c] = View(q)] /\ Tunnel[c] = View(r)
    BY <1>1, <1>3, TunnelMoves
  <2>2. Tunnel[c].said = r.said
    BY <2>1, Views
  <2>3. PICK f, h : /\ f = View(q).flows /\ h = q.heard
                    /\ View(q) = [View(r) EXCEPT !.heard = h, !.flows = f]
    <3>1. r.said = q.said /\ r.asked = q.asked /\ r.told = q.told
      BY <1>3
    <3> QED
      BY <3>1, LinkView
  <2>4. f \in BOOLEAN /\ h = [i \in 1 .. n |-> i]
    BY <1>3, <2>3, Views
  <2>5. View(q) = [Tunnel[c] EXCEPT !.heard = h, !.flows = f]
    BY <2>1, <2>3
  <2>6. Tunnels!Becomes(c, [Tunnel[c] EXCEPT !.heard = [i \in 1 .. n |-> i], !.flows = f])
    BY <2>1, <2>4, <2>5 DEF Tunnels!Becomes, Tunnel
  <2>7. n <= Tunnel[c].said /\ (f => n = Tunnel[c].said)
    BY <1>2, <1>3, <2>2, <2>3
  <2>8. Tunnels!Link(c, n, f)
    BY <1>2, <2>6, <2>7 DEF Tunnels!Link, Tunnel
  <2> QED
    BY <1>3, <2>1, <2>2, <2>4, <2>8
<1>4. CASE Update(c, Unbridged(r))
  <2>1. PICK q : q = Unbridged(r)
    OBVIOUS
  <2>2. /\ q.phase = "unbridged" /\ q.client = "none" /\ q.said = r.said /\ q.heard = <<>>
        /\ q.asked = r.asked /\ q.told = r.told
    BY <1>1, <1>2, <2>1 DEF Unbridged, Early, Record
  <2>3. 0 \in 0 .. r.said /\ q.heard = [i \in 1 .. 0 |-> i]
    BY <1>2, <2>2
  <2>4. ~View(q).flows
    BY <2>2, Views
  <2>5. Unheard(q)
    BY <2>2 DEF Unheard
  <2> QED
    BY <1>3, <1>4, <2>1, <2>2, <2>3, <2>4, <2>5
<1>5. ASSUME NEW n \in 0 .. Len(r.held), Update(c, Bridge(r, n))
      PROVE  /\ Quiet'
             /\ \E k \in 0 .. Tunnel[c].said, f \in BOOLEAN : Tunnels!Link(c, k, f)
  <2>1. /\ n \in 0 .. r.said
        /\ SubSeq(r.held, 1, n) = [i \in 1 .. n |-> i]
    <3>1. InOrder(SubSeq(r.held, 1, n)) /\ Len(SubSeq(r.held, 1, n)) = n
      BY <1>1, <1>2, Prefix DEF Handed, Record
    <3> QED
      BY <1>2, <3>1 DEF InOrder
  <2>2. PICK j : j = Joining(r, n)
    OBVIOUS
  <2>3. /\ j \in Record /\ j.phase = "bridged"
        /\ j.client = (IF n = r.said THEN "open" ELSE "closing")
        /\ j.upstream = (IF n = r.said THEN r.upstream ELSE Close(r.upstream))
        /\ j.said = r.said /\ j.heard = [i \in 1 .. n |-> i]
        /\ j.asked = r.asked /\ j.told = r.told
    <3>1. PICK b : b = [r EXCEPT !.phase = "bridged", !.client = "open",
                                 !.heard = SubSeq(r.held, 1, n), !.held = << >>,
                                 !.heldClose = "none"]
      OBVIOUS
    <3>2. /\ b.phase = "bridged"
          /\ b.client = "open" /\ b.upstream = r.upstream
          /\ b.said = r.said /\ b.heard = [i \in 1 .. n |-> i]
          /\ b.asked = r.asked /\ b.told = r.told
      BY <1>1, <2>1, <3>1 DEF Record
    <3>3. j = IF n = r.said THEN b ELSE CloseBoth(b)
      BY <1>2, <2>2, <3>1 DEF Joining
    <3>4. /\ CloseBoth(b).phase = "bridged"
          /\ CloseBoth(b).client = "closing" /\ CloseBoth(b).upstream = Close(b.upstream)
          /\ CloseBoth(b).said = b.said /\ CloseBoth(b).heard = b.heard
          /\ CloseBoth(b).asked = b.asked /\ CloseBoth(b).told = b.told
      BY <1>1, <3>1, <3>2 DEF CloseBoth, Close, Record
    <3>5. b \in Record
      <4>1. /\ "bridged" \in Phase /\ "open" \in Side /\ <<>> \in Seq(1 .. MaxSaid)
            /\ "none" \in Ending \cup {"none"}
        BY DEF Phase, Side
      <4>2. SubSeq(r.held, 1, n) \in Seq(1 .. MaxSaid)
        BY <1>1, <1>2, Prefix DEF Handed, Record
      <4> QED
        BY <1>1, <3>1, <4>1, <4>2 DEF Record
    <3>6. j \in Record
      BY <3>3, <3>5, BothTyped
    <3> QED
      BY <3>2, <3>3, <3>4, <3>6
  <2>4. CASE r.heldClose = "none"
    <3>1. r.upstream \in {"open", "ending", "dead"} /\ Bridge(r, n) = j
      BY <1>2, <2>2, <2>4 DEF Early, Handed, Bridge
    <3>2. Unheard(j) /\ (View(j).flows => n = r.said)
      BY <2>3, <3>1, Views DEF Unheard, Close
    <3> QED
      BY <1>3, <1>5, <2>1, <2>3, <3>1, <3>2
  <2>5. CASE r.heldClose # "none"
    <3>1. PICK q : q = UpstreamClosed(j, r.heldClose)
      OBVIOUS
    <3>2. Bridge(r, n) = q
      BY <2>2, <2>5, <3>1 DEF Bridge
    <3>3. /\ q.phase = "bridged" /\ q.upstream = "closed" /\ q.client # "open"
          /\ q.said = r.said /\ q.heard = [i \in 1 .. n |-> i]
          /\ q.asked = r.asked /\ q.told = r.told
      BY <2>3, <3>1 DEF UpstreamClosed, RelayClose, Record
    <3>4. Unheard(q) /\ ~View(q).flows
      BY <3>3, Views DEF Unheard
    <3> QED
      BY <1>3, <1>5, <2>1, <3>2, <3>3, <3>4
  <2> QED
    BY <2>4, <2>5
<1> QED
  BY <1>1, <1>4, <1>5 DEF Accept

WithSaid(v, m) == [v EXCEPT !.said = m]
WithAsked(v, m) == [v EXCEPT !.asked = m]
Hearing(v, m) == [v EXCEPT !.heard = Append(@, m)]
Telling(v, m) == [v EXCEPT !.told = Append(@, m)]

\* What one more message, of either peer, makes of what shows.
LEMMA Spoken ==
    ASSUME NEW r, NEW q, NEW m
    PROVE  /\ /\ q.said = m /\ q.heard = r.heard /\ q.asked = r.asked /\ q.told = r.told
              /\ ~View(q).flows
              => View(q) = CutView(WithSaid(View(r), m))
           /\ /\ q.said = m /\ q.heard = Append(r.heard, m)
              /\ q.asked = r.asked /\ q.told = r.told /\ (View(q).flows <=> View(r).flows)
              => View(q) = Hearing(WithSaid(View(r), m), m)
           /\ /\ q.asked = m /\ q.told = r.told /\ q.said = r.said /\ q.heard = r.heard
              /\ ~View(q).flows
              => View(q) = CutView(WithAsked(View(r), m))
           /\ /\ q.asked = m /\ q.told = Append(r.told, m)
              /\ q.said = r.said /\ q.heard = r.heard /\ (View(q).flows <=> View(r).flows)
              => View(q) = Telling(WithAsked(View(r), m), m)
<1>1. PICK f, g, no : /\ f = View(r).flows /\ g = View(q).flows /\ no = FALSE
                      /\ ~View(q).flows => g = no
                      /\ (View(q).flows <=> View(r).flows) => g = f
  <2>1. View(q).flows \in BOOLEAN /\ View(r).flows \in BOOLEAN
    BY Views
  <2> QED
    BY <2>1
<1>2. View(r) = [flows |-> f, said |-> r.said, heard |-> r.heard,
                 asked |-> r.asked, told |-> r.told]
  BY <1>1 DEF View
<1>3. View(q) = [flows |-> g, said |-> q.said, heard |-> q.heard,
                 asked |-> q.asked, told |-> q.told]
  BY <1>1 DEF View
<1>4. PICK u, w : u = [View(r) EXCEPT !.said = m] /\ w = [View(r) EXCEPT !.asked = m]
  OBVIOUS
<1>5. /\ u = [flows |-> f, said |-> m, heard |-> r.heard, asked |-> r.asked, told |-> r.told]
      /\ w = [flows |-> f, said |-> r.said, heard |-> r.heard, asked |-> m, told |-> r.told]
  BY <1>2, <1>4
<1>6. /\ CutView(u) = [u EXCEPT !.flows = no] /\ CutView(w) = [w EXCEPT !.flows = no]
  BY <1>1 DEF CutView
<1>7. /\ [u EXCEPT !.flows = no] = [flows |-> no, said |-> m, heard |-> r.heard,
                                    asked |-> r.asked, told |-> r.told]
      /\ [w EXCEPT !.flows = no] = [flows |-> no, said |-> r.said, heard |-> r.heard,
                                    asked |-> m, told |-> r.told]
  BY <1>5
<1>8. /\ [u EXCEPT !.heard = Append(@, m)] =
            [flows |-> f, said |-> m, heard |-> Append(r.heard, m),
             asked |-> r.asked, told |-> r.told]
      /\ [w EXCEPT !.told = Append(@, m)] =
            [flows |-> f, said |-> r.said, heard |-> r.heard,
             asked |-> m, told |-> Append(r.told, m)]
  <2>1. u.heard = r.heard /\ w.told = r.told
    BY <1>5
  <2>2. PICK h, t : h = Append(r.heard, m) /\ t = Append(r.told, m)
    OBVIOUS
  <2>3. /\ [u EXCEPT !.heard = Append(@, m)] = [u EXCEPT !.heard = h]
        /\ [w EXCEPT !.told = Append(@, m)] = [w EXCEPT !.told = t]
    BY <2>1, <2>2
  <2>4. [u EXCEPT !.heard = h] = [flows |-> f, said |-> m, heard |-> h,
                                  asked |-> r.asked, told |-> r.told]
    BY <1>5
  <2>5. [w EXCEPT !.told = t] = [flows |-> f, said |-> r.said, heard |-> r.heard,
                                 asked |-> m, told |-> t]
    BY <1>5
  <2> QED
    BY <2>2, <2>3, <2>4, <2>5
<1> QED
  BY <1>1, <1>3, <1>4, <1>6, <1>7, <1>8 DEF WithSaid, WithAsked, Hearing, Telling

\* A message of the upstream is relayed over a connection that flows, or the
\* connection is cut.
LEMMA TunnelSays ==
    ASSUME Inv, Quiet, NEW c \in Conns, UpstreamSays(c)
    PROVE  Quiet' /\ Tunnels!Say(c)
<1>1. PICK r \in Record : r = conn[c] /\ Good(r) /\ Unheard(r)
  BY DEF Inv, Quiet
<1>2. PICK m : m = r.said + 1
  OBVIOUS
<1>3. PICK s : s = [r EXCEPT !.said = m]
  OBVIOUS
<1>4. /\ s.phase = r.phase /\ s.client = r.client /\ s.upstream = r.upstream
      /\ s.said = m /\ s.heard = r.heard /\ s.asked = r.asked /\ s.told = r.told
      /\ s.held = r.held
  BY <1>3 DEF Record
<1>5. DOMAIN s = DOMAIN r
  BY <1>3
<1>6. registry' = registry /\ Tunnel[c] = View(r) /\ View(r).said = r.said
  BY <1>1, Views DEF UpstreamSays, Tunnel
<1>7. ASSUME NEW q, Update(c, q), Unheard(q), ~View(q).flows,
             q.said = m, q.heard = r.heard, q.asked = r.asked, q.told = r.told
      PROVE  Quiet' /\ Tunnels!Say(c)
  <2>1. Quiet' /\ Tunnel' = [Tunnel EXCEPT ![c] = View(q)]
    BY <1>7, TunnelMoves
  <2>2. View(q) = CutView(WithSaid(Tunnel[c], m))
    BY <1>6, <1>7, Spoken
  <2>3. Tunnels!Becomes(c, Tunnels!Cutting([Tunnel[c] EXCEPT !.said = Tunnel[c].said + 1]))
    BY <1>2, <1>6, <2>1, <2>2 DEF Tunnels!Becomes, Tunnels!Cutting, CutView, WithSaid, Tunnel
  <2> QED
    BY <1>6, <2>1, <2>3 DEF Tunnels!Say, Tunnel
<1>8. CASE r.phase # "bridged"
  <2>1. PICK q : q = [s EXCEPT !.held = Append(@, m)]
    OBVIOUS
  <2>2. Update(c, q)
    BY <1>1, <1>2, <1>3, <1>8, <2>1 DEF UpstreamSays
  <2>3. /\ q.phase = r.phase /\ q.client = r.client
        /\ q.said = m /\ q.heard = r.heard /\ q.asked = r.asked /\ q.told = r.told
    BY <1>4, <1>5, <2>1 DEF Record
  <2>4. r.client = "none"
    BY <1>1, <1>8 DEF Good, Record, Phase, Fresh, Early
  <2>5. Unheard(q) /\ ~View(q).flows
    BY <1>1, <1>8, <2>3, <2>4, Views DEF Unheard
  <2> QED
    BY <1>7, <2>2, <2>3, <2>5
<1>9. CASE r.phase = "bridged" /\ Update(c, CloseBoth(s))
  <2>1. PICK q : q = CloseBoth(s)
    OBVIOUS
  <2>2. /\ q.phase = r.phase /\ q.client = Close(r.client) /\ q.upstream = Close(r.upstream)
        /\ q.said = m /\ q.heard = r.heard /\ q.asked = r.asked /\ q.told = r.told
    BY <1>4, <1>5, <2>1 DEF CloseBoth, Record
  <2>3. q.client # "open" /\ q.upstream # "open"
    BY <2>2 DEF Close
  <2>4. Unheard(q) /\ ~View(q).flows
    BY <1>9, <2>2, <2>3, Views DEF Unheard
  <2> QED
    BY <1>7, <1>9, <2>1, <2>2, <2>4
<1>10. CASE r.phase = "bridged" /\ r.client # "open" /\ Update(c, s)
  <2>1. Unheard(s) /\ ~View(s).flows
    BY <1>1, <1>4, <1>10, Views DEF Unheard
  <2> QED
    BY <1>4, <1>7, <1>10, <2>1
<1>11. CASE r.phase = "bridged" /\ r.client = "open" /\ ~Update(c, CloseBoth(s))
  <2>1. PICK q : q = [s EXCEPT !.heard = Append(@, m)]
    OBVIOUS
  <2>2. Update(c, q)
    BY <1>1, <1>2, <1>3, <1>11, <2>1 DEF UpstreamSays, Takes
  <2>3. /\ q.phase = r.phase /\ q.client = r.client /\ q.upstream = r.upstream
        /\ q.said = m /\ q.heard = Append(r.heard, m) /\ q.asked = r.asked /\ q.told = r.told
    BY <1>4, <1>5, <2>1 DEF Record
  <2>4. Unheard(q) /\ (View(q).flows <=> View(r).flows) /\ View(r).flows
    <3>1. r.upstream = "open"
      BY <1>1, <1>11 DEF UpstreamSays, Good, Joined
    <3> QED
      BY <1>11, <2>3, <3>1 DEF Unheard, View
  <2>5. Quiet' /\ Tunnel' = [Tunnel EXCEPT ![c] = View(q)]
    BY <2>2, <2>4, TunnelMoves
  <2>6. View(q) = Hearing(WithSaid(Tunnel[c], m), m)
    BY <1>6, <2>3, <2>4, Spoken
  <2>7. PICK t : t = [Tunnel[c] EXCEPT !.said = m]
    OBVIOUS
  <2>8. t.flows
    <3>1. Tunnel[c].flows /\ "flows" \in DOMAIN Tunnel[c]
      BY <1>6, <2>4 DEF View
    <3> QED
      BY <2>7, <3>1
  <2>9. Tunnels!Becomes(c, [t EXCEPT !.heard = Append(@, m)])
    BY <2>5, <2>6, <2>7 DEF Tunnels!Becomes, WithSaid, Hearing, Tunnel
  <2>10. m = Tunnel[c].said + 1
    BY <1>2, <1>6
  <2> QED
    BY <1>6, <2>5, <2>7, <2>8, <2>9, <2>10 DEF Tunnels!Say, Tunnel
<1>12. CASE r.phase = "bridged" /\ r.client # "open" /\ ~Update(c, CloseBoth(s))
  BY <1>1, <1>2, <1>3, <1>10, <1>12 DEF UpstreamSays, Takes
<1> QED
  BY <1>8, <1>9, <1>11, <1>12

\* So is one of the client.
LEMMA TunnelAsks ==
    ASSUME Inv, Quiet, NEW c \in Conns, ClientSays(c)
    PROVE  Quiet' /\ Tunnels!Ask(c)
<1>1. PICK r \in Record : r = conn[c] /\ Good(r) /\ r.phase = "bridged"
  BY DEF Inv, ClientSays
<1>2. PICK m : m = r.asked + 1
  OBVIOUS
<1>3. PICK s : s = [r EXCEPT !.asked = m]
  OBVIOUS
<1>4. /\ s.phase = r.phase /\ s.client = r.client /\ s.upstream = r.upstream
      /\ s.said = r.said /\ s.heard = r.heard /\ s.asked = m /\ s.told = r.told
  BY <1>3 DEF Record
<1>5. DOMAIN s = DOMAIN r
  BY <1>3
<1>6. /\ registry' = registry /\ c \in registry
      /\ Tunnel[c] = View(r) /\ View(r).asked = r.asked
  BY <1>1, Views DEF ClientSays, Tunnel, Inv, Tracked
<1>7. ASSUME NEW q, Update(c, q), Unheard(q), ~View(q).flows,
             q.said = r.said, q.heard = r.heard, q.asked = m, q.told = r.told
      PROVE  Quiet' /\ Tunnels!Ask(c)
  <2>1. Quiet' /\ Tunnel' = [Tunnel EXCEPT ![c] = View(q)]
    BY <1>7, TunnelMoves
  <2>2. View(q) = CutView(WithAsked(Tunnel[c], m))
    BY <1>6, <1>7, Spoken
  <2>3. Tunnels!Becomes(c, Tunnels!Cutting([Tunnel[c] EXCEPT !.asked = Tunnel[c].asked + 1]))
    BY <1>2, <1>6, <2>1, <2>2 DEF Tunnels!Becomes, Tunnels!Cutting, CutView, WithAsked, Tunnel
  <2> QED
    BY <1>6, <2>1, <2>3 DEF Tunnels!Ask, Tunnel
<1>8. CASE Update(c, CloseBoth(s))
  <2>1. PICK q : q = CloseBoth(s)
    OBVIOUS
  <2>2. /\ q.phase = r.phase /\ q.client = Close(r.client) /\ q.upstream = Close(r.upstream)
        /\ q.said = r.said /\ q.heard = r.heard /\ q.asked = m /\ q.told = r.told
    BY <1>4, <1>5, <2>1 DEF CloseBoth, Record
  <2>3. q.client # "open" /\ q.upstream # "open"
    BY <2>2 DEF Close
  <2>4. Unheard(q) /\ ~View(q).flows
    BY <1>1, <2>2, <2>3, Views DEF Unheard
  <2> QED
    BY <1>7, <1>8, <2>1, <2>2, <2>4
<1>9. CASE r.upstream # "open" /\ Update(c, s)
  <2>1. Unheard(s) /\ ~View(s).flows
    BY <1>1, <1>4, <1>9, Views DEF Unheard
  <2> QED
    BY <1>4, <1>7, <1>9, <2>1
<1>11. CASE r.client = "open" /\ Update(c, [s EXCEPT !.client = "ending"])
  <2>1. PICK q : q = [s EXCEPT !.client = "ending"]
    OBVIOUS
  <2>2. /\ q.phase = r.phase /\ q.client = "ending" /\ q.upstream = r.upstream
        /\ q.said = r.said /\ q.heard = r.heard /\ q.asked = m /\ q.told = r.told
    BY <1>4, <1>5, <2>1 DEF Record
  <2>3. Unheard(q) /\ ~View(q).flows
    BY <1>1, <2>2, Views DEF Unheard
  <2> QED
    BY <1>7, <1>11, <2>1, <2>2, <2>3
<1>10. CASE r.upstream = "open" /\ Update(c, [s EXCEPT !.told = Append(@, m)])
  <2>1. PICK q : q = [s EXCEPT !.told = Append(@, m)]
    OBVIOUS
  <2>2. Update(c, q)
    BY <1>10, <2>1
  <2>3. /\ q.phase = r.phase /\ q.client = r.client /\ q.upstream = r.upstream
        /\ q.said = r.said /\ q.heard = r.heard /\ q.asked = m /\ q.told = Append(r.told, m)
    BY <1>4, <1>5, <2>1 DEF Record
  <2>4. Unheard(q) /\ (View(q).flows <=> View(r).flows) /\ View(r).flows
    <3>1. r.client = "open"
      BY <1>1, <1>10 DEF ClientSays, Good, Joined
    <3> QED
      BY <1>1, <1>10, <2>3, <3>1 DEF Unheard, View
  <2>5. Quiet' /\ Tunnel' = [Tunnel EXCEPT ![c] = View(q)]
    BY <2>2, <2>4, TunnelMoves
  <2>6. View(q) = Telling(WithAsked(Tunnel[c], m), m)
    BY <1>6, <2>3, <2>4, Spoken
  <2>7. PICK t : t = [Tunnel[c] EXCEPT !.asked = m]
    OBVIOUS
  <2>8. t.flows
    <3>1. Tunnel[c].flows /\ "flows" \in DOMAIN Tunnel[c]
      BY <1>6, <2>4 DEF View
    <3> QED
      BY <2>7, <3>1
  <2>9. Tunnels!Becomes(c, [t EXCEPT !.told = Append(@, m)])
    BY <2>5, <2>6, <2>7 DEF Tunnels!Becomes, WithAsked, Telling, Tunnel
  <2>10. m = Tunnel[c].asked + 1
    BY <1>2, <1>6
  <2> QED
    BY <1>6, <2>5, <2>7, <2>8, <2>9, <2>10 DEF Tunnels!Ask, Tunnel
<1> QED
  BY <1>1, <1>2, <1>3, <1>8, <1>9, <1>10, <1>11 DEF ClientSays, Takes

\* The first side that closes, whoever closes it, cuts the connection; the
\* second gives its slot back.
LEMMA TunnelCloses ==
    ASSUME Inv, Quiet, NEW c \in Conns,
           \/ GatewayCloses(c) \/ DeadPeer(c) \/ KillTimer(c) \/ HandshakeFailed(c)
           \/ UpstreamEnds(c) \/ ClientEnds(c)
           \/ \E e \in Ending : UpstreamCloses(c, e) \/ ClientCloses(c, e)
    PROVE  Quiet' /\ (Tunnels!Cut({c}) \/ Tunnels!Free(c))
<1>1. Good(conn[c]) /\ conn[c] \in Record /\ Unheard(conn[c])
  BY DEF Inv, Quiet
<1>2. CASE GatewayCloses(c) \/ DeadPeer(c) \/ KillTimer(c)
  <2>1. PICK q \in {CloseBoth(conn[c]), TerminateBoth(conn[c])} :
            Update(c, q) /\ registry' = registry
    BY <1>2 DEF GatewayCloses, DeadPeer, KillTimer
  <2>2. View(q) = CutView(View(conn[c])) /\ Unheard(q)
    BY <1>1, BothCut DEF Good
  <2>3. Quiet' /\ CutTunnel({c})
    BY <2>1, <2>2, TunnelCut
  <2> QED
    BY <2>1, <2>3, TunnelCutIs
<1>3. CASE HandshakeFailed(c)
  <2>1. c \in registry /\ conn[c].phase # "bridged"
    BY <1>3 DEF HandshakeFailed, Inv, Tracked
  <2>2. ~View(conn[c]).flows
    BY <1>1, <2>1, Unlinked
  <2> QED
    BY <1>3, <2>1, <2>2, SlotFreed DEF HandshakeFailed
<1>4. ASSUME NEW e \in Ending, UpstreamCloses(c, e) \/ ClientCloses(c, e)
      PROVE  Quiet' /\ (Tunnels!Cut({c}) \/ Tunnels!Free(c))
  <2>1. PICK q \in {UpstreamClosed(conn[c], e), ClientClosed(conn[c], e)} : Settle(c, q)
    BY <1>4 DEF UpstreamCloses, ClientCloses
  <2>2. conn[c].phase = "bridged" /\ Joined(conn[c]) /\ c \in registry
    BY <1>1, <1>4 DEF UpstreamCloses, ClientCloses, Good, Inv, Tracked
  <2>3. CASE q.closedSides = 2
    <3>1. conn[c].closedSides = 1
      <4>1. PICK r \in Record : r = conn[c]
        BY <1>1
      <4>2. /\ UpstreamClosed(r, e).closedSides = r.closedSides + 1
            /\ ClientClosed(r, e).closedSides = r.closedSides + 1
        BY DEF UpstreamClosed, ClientClosed, Record
      <4>3. r.closedSides \in 0 .. 1 /\ r.closedSides + 1 = 2
        BY <2>1, <2>3, <4>1, <4>2 DEF Record
      <4> QED
        BY <4>1, <4>3
    <3>2. "closed" \in {conn[c].client, conn[c].upstream}
      BY <2>2, <3>1 DEF Joined, ClosedCount
    <3>3. ~View(conn[c]).flows
      BY <3>2, Views
    <3> QED
      BY <2>1, <2>2, <2>3, <3>3, SlotFreed DEF Settle
  <2>4. CASE q.closedSides # 2
    <3>1. Update(c, q) /\ registry' = registry
      BY <2>1, <2>4 DEF Settle
    <3>2. View(q) = CutView(View(conn[c])) /\ Unheard(q)
      BY <1>1, <2>1, <2>2, OneCuts
    <3>3. Quiet' /\ CutTunnel({c})
      BY <3>1, <3>2, TunnelCut
    <3> QED
      BY <3>1, <3>3, TunnelCutIs
  <2> QED
    BY <2>3, <2>4
<1>5. CASE UpstreamEnds(c) \/ ClientEnds(c)
  <2>1. PICK r \in Record : r = conn[c] /\ Unheard(r)
    BY <1>1
  <2>2. PICK q, side : /\ Update(c, q) /\ side \in {"ending", "dead"}
                       /\ \/ r.upstream = "open" /\ q = [r EXCEPT !.upstream = side]
                          \/ r.client = "open" /\ q = [r EXCEPT !.client = side]
    BY <1>5, <2>1 DEF UpstreamEnds, ClientEnds
  <2>3. View(q) = CutView(View(conn[c])) /\ Unheard(q)
    BY <2>1, <2>2, EndCuts
  <2>4. Quiet' /\ CutTunnel({c})
    BY <2>2, <2>3, TunnelCut
  <2>5. registry' = registry
    BY <1>5 DEF UpstreamEnds, ClientEnds
  <2> QED
    BY <2>4, <2>5, TunnelCutIs
<1> QED
  BY <1>2, <1>3, <1>4, <1>5

\* The shutdown cuts every connection that has a slot, and no other.
LEMMA TunnelDrains ==
    ASSUME Inv, Quiet, ShutDown \/ Drain
    PROVE  Quiet' /\ Tunnels!Cut(registry)
<1>1. \A c \in registry : /\ conn'[c] \in {CloseBoth(conn[c]), TerminateBoth(conn[c])}
                          /\ conn[c] \in Record /\ Good(conn[c]) /\ Unheard(conn[c])
  BY DEF ShutDown, Drain, Inv, Quiet
<1>2. \A c \in Conns \ registry : conn'[c] = conn[c]
  BY DEF ShutDown, Drain
<1>3. \A c \in registry : View(conn'[c]) = CutView(View(conn[c])) /\ Unheard(conn'[c])
  BY <1>1, BothCut DEF Good
<1>4. Quiet'
  BY <1>2, <1>3 DEF Quiet
<1>5. CutTunnel(registry)
  BY <1>2, <1>3 DEF CutTunnel, Tunnel
<1>6. registry' = registry
  BY DEF ShutDown, Drain
<1> QED
  BY <1>4, <1>5, <1>6, TunnelCutIs

\* At the start nothing flows and no slot is taken.
LEMMA TunnelInit ==
    ASSUME Init
    PROVE  Quiet /\ Tunnels!Init
<1>1. \A c \in Conns : conn[c] = NoConn
  BY DEF Init
<1>2. Quiet
  BY <1>1, NoConnView DEF Quiet
<1>3. [c \in Conns |-> View(conn[c])] = [c \in Conns |-> NoView]
  BY <1>1, NoConnView
<1> QED
  BY <1>2, <1>3 DEF Init, Tunnels!Init, Tunnels!NoTunnel, NoView

\* Every step of the proxy is a step of the contract, or cannot be told from
\* none.
LEMMA TunnelStep ==
    ASSUME Inv, Quiet, [Next]_vars
    PROVE  Quiet' /\ [Tunnels!Next]_(Tunnels!tvars)
<1>1. ASSUME Tunnel' = Tunnel, registry' = registry PROVE UNCHANGED Tunnels!tvars
  BY <1>1 DEF Tunnels!tvars, Tunnel
<1>2. CASE UNCHANGED vars \/ Stop
  <2>1. conn' = conn /\ registry' = registry
    BY <1>2 DEF vars, Stop
  <2>2. Quiet' /\ Tunnel' = Tunnel
    BY <2>1 DEF Quiet, Tunnel
  <2> QED
    BY <1>1, <2>1, <2>2
<1>3. ASSUME NEW c \in Conns, UpstreamSays(c) PROVE Quiet' /\ Tunnels!Next
  BY <1>3, TunnelSays DEF Tunnels!Next
<1>4. ASSUME NEW c \in Conns, ClientSays(c) PROVE Quiet' /\ Tunnels!Next
  BY <1>4, TunnelAsks DEF Tunnels!Next
<1>5. ASSUME NEW c \in Conns, Accept(c) PROVE Quiet' /\ Tunnels!Next
  BY <1>5, Links DEF Tunnels!Next, Tunnel
<1>6. ASSUME NEW c \in Conns,
             \/ GatewayCloses(c) \/ DeadPeer(c) \/ KillTimer(c) \/ HandshakeFailed(c)
             \/ UpstreamEnds(c) \/ ClientEnds(c)
             \/ \E e \in Ending : UpstreamCloses(c, e) \/ ClientCloses(c, e)
      PROVE  Quiet' /\ Tunnels!Next
  <2>1. {c} \in SUBSET Conns
    OBVIOUS
  <2>2. Quiet' /\ (Tunnels!Cut({c}) \/ Tunnels!Free(c))
    BY <1>6, TunnelCloses
  <2> QED
    BY <2>1, <2>2 DEF Tunnels!Next
<1>7. CASE ShutDown \/ Drain
  <2>1. registry \in SUBSET Conns
    BY DEF Inv
  <2> QED
    BY <1>7, <2>1, TunnelDrains DEF Tunnels!Next
<1>8. ASSUME NEW c \in Conns,
             \/ Upgrade(c) \/ ProxyWebSocket(c) \/ ClientAborts(c) \/ UpstreamRefuses(c)
             \/ UpstreamOpens(c)
             \/ \E how \in {"ended", "gone"} : LeaveUnnoticed(c, how)
             \/ \E e \in Ending : UpstreamClosesEarly(c, e)
      PROVE  Quiet' /\ UNCHANGED Tunnels!tvars
  BY <1>1, <1>8, HandshakeUnseen
<1>9. ASSUME NEW c \in Conns, SameTurn(c) PROVE Quiet' /\ [Tunnels!Next]_(Tunnels!tvars)
  BY <1>3, <1>5, <1>6, <1>8, <1>9 DEF SameTurn
<1>10. CASE OtherTurn
  BY <1>2, <1>3, <1>4, <1>6, <1>7, <1>8, <1>10 DEF OtherTurn
<1> QED
  BY <1>2, <1>9, <1>10 DEF Next

\* Whichever of the many events ends a connection, it ends for both directions
\* at once and for good, and its slot comes back only after that: seen from
\* outside, the proxy is the tunnel of TunnelContract.
THEOREM TunnelKept == Spec => KeepsTunnel
<1>1. Init => Quiet /\ Tunnels!Init
  BY TunnelInit
<1>2. Inv /\ Quiet /\ [Next]_vars => Quiet' /\ [Tunnels!Next]_(Tunnels!tvars)
  BY TunnelStep
<1>3. Spec => []Inv
  BY Invariance
<1> QED
  BY <1>1, <1>2, <1>3, PTL DEF Spec, KeepsTunnel, Tunnels!Spec

=============================================================================
