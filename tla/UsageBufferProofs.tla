-------------------------- MODULE UsageBufferProofs --------------------------
(***************************************************************************)
(* Proofs about UsageBuffer: for any records, batch size and pool, with    *)
(* inserts that fail, and a shutdown at any time.                          *)
(***************************************************************************)
EXTENDS UsageBufferProps, FiniteSetTheorems, TLAPS

-----------------------------------------------------------------------------
(* Where records are.  Every record pushed is in exactly one of four       *)
(* places, and in one batch only.                                          *)

Waiting == UNION Queued
Running == UNION running
Done == {r \in Records : Settled(r)}

Placed ==
    /\ pushed = buffer \cup Waiting \cup Running \cup Done
    /\ buffer \cap (Waiting \cup Running \cup Done) = {}
    /\ Waiting \cap (Running \cup Done) = {}
    /\ Running \cap Done = {}

OneBatch ==
    /\ \A i, j \in DOMAIN waiting : waiting[i] \cap waiting[j] # {} => i = j
    /\ \A a, b \in running : a \cap b # {} => a = b

\* What close() awaits is the last of the batches, and nothing comes after it.
LastIsLast ==
    /\ closer \in {"serving", "closing", "ending", "ended"}
    /\ closer # "serving" =>
          /\ buffer = {}
          /\ waiting # <<>> => last = {} \/ last = waiting[Len(waiting)]
    /\ closer \in {"ending", "ended"} /\ last # {} => waiting = <<>>
    /\ closer = "ended" => running = {}

Inv ==
    /\ TypeOK
    /\ \A i \in DOMAIN waiting : waiting[i] # {}
    /\ \A r \in Records : rows[r] <= 1
    /\ Placed /\ OneBatch /\ LastIsLast

-----------------------------------------------------------------------------
(* The queue *)

LEMMA Appended ==
    ASSUME NEW S, NEW q \in Seq(S), NEW b \in S
    PROVE  /\ Append(q, b) \in Seq(S)
           /\ DOMAIN Append(q, b) = DOMAIN q \cup {Len(q) + 1}
           /\ Len(q) + 1 \notin DOMAIN q
           /\ Append(q, b)[Len(q) + 1] = b /\ Len(Append(q, b)) = Len(q) + 1
           /\ \A i \in DOMAIN q : Append(q, b)[i] = q[i]
OBVIOUS

LEMMA Served ==
    ASSUME NEW S, NEW q \in Seq(S), q # <<>>
    PROVE  /\ Tail(q) \in Seq(S) /\ Head(q) = q[1] /\ 1 \in DOMAIN q
           /\ \A i \in DOMAIN Tail(q) : i + 1 \in DOMAIN q /\ Tail(q)[i] = q[i + 1] /\ i + 1 # 1
           /\ \A i \in DOMAIN q \ {1} : i - 1 \in DOMAIN Tail(q) /\ Tail(q)[i - 1] = q[i]
           /\ Tail(q) # <<>> => Tail(q)[Len(Tail(q))] = q[Len(q)]
OBVIOUS

\* flush moves the records of the buffer, and them only, to the queue.
LEMMA FlushMoves ==
    ASSUME Inv, NEW filled \in SUBSET Records, filled # {}, Flush(filled)
    PROVE  /\ buffer' = {} /\ waiting' = Append(waiting, filled)
           /\ waiting' \in Seq(SUBSET Records)
           /\ Waiting' = Waiting \cup filled
           /\ \A i \in DOMAIN waiting' : waiting'[i] # {}
           /\ filled \cap Waiting = {} =>
                 \A i, j \in DOMAIN waiting' : waiting'[i] \cap waiting'[j] # {} => i = j
<1>1. buffer' = {} /\ waiting' = Append(waiting, filled) /\ waiting \in Seq(SUBSET Records)
  BY DEF Flush, Inv, TypeOK
<1>2. /\ waiting' \in Seq(SUBSET Records)
      /\ DOMAIN waiting' = DOMAIN waiting \cup {Len(waiting) + 1}
      /\ waiting'[Len(waiting) + 1] = filled
      /\ \A i \in DOMAIN waiting : waiting'[i] = waiting[i]
  BY <1>1, Appended
<1>3. Waiting' = Waiting \cup filled
  BY <1>2 DEF Waiting, Queued
<1>4. \A i \in DOMAIN waiting' : waiting'[i] # {}
  BY <1>2 DEF Inv
<1>5. ASSUME filled \cap Waiting = {},
             NEW i \in DOMAIN waiting', NEW j \in DOMAIN waiting',
             waiting'[i] \cap waiting'[j] # {}
      PROVE  i = j
  <2>1. \A k \in DOMAIN waiting : filled \cap waiting[k] = {}
    BY <1>5 DEF Waiting, Queued
  <2> QED
    BY <1>2, <1>5, <2>1 DEF Inv, OneBatch
<1> QED
  BY <1>1, <1>2, <1>3, <1>4, <1>5

-----------------------------------------------------------------------------
(* The inductive invariant *)

LEMMA Sizes ==
    /\ Cardinality({}) = 0
    /\ \A S \in SUBSET (SUBSET Records) : IsFiniteSet(S)
<1>1. IsFiniteSet(SUBSET Records)
  BY BufferAssumption, FS_SUBSET
<1> QED
  BY <1>1, FS_EmptySet, FS_Subset

LEMMA InitInv == Init => Inv
<1> SUFFICES ASSUME Init PROVE Inv
  OBVIOUS
<1>1. /\ pushed = {} /\ buffer = {} /\ last = {} /\ reported = {} /\ waiting = <<>>
      /\ running = {} /\ rows = [r \in Records |-> 0] /\ closer = "serving"
  BY DEF Init
<1>2. TypeOK
  <2>1. <<>> \in Seq(SUBSET Records)
    OBVIOUS
  <2> QED
    BY <1>1, <2>1, Sizes, BufferAssumption DEF TypeOK
<1>3. Waiting = {} /\ Running = {} /\ Done = {}
  BY <1>1 DEF Waiting, Queued, Running, Done, Settled
<1> QED
  BY <1>1, <1>2, <1>3 DEF Inv, Placed, OneBatch, LastIsLast

LEMMA PushInv ==
    ASSUME Inv, NEW r \in Records, Push(r)
    PROVE  Inv'
<1>1. /\ closer = "serving" /\ r \notin pushed /\ pushed' = pushed \cup {r}
      /\ UNCHANGED <<running, rows, reported, last, closer>>
  BY DEF Push
<1>2. PICK filled : filled = buffer \cup {r}
  OBVIOUS
<1>3. filled \in SUBSET Records /\ filled # {} /\ filled \cap Waiting = {}
  BY <1>1, <1>2 DEF Inv, TypeOK, Placed
<1>4. UNCHANGED <<Running, Done>>
  BY <1>1 DEF Running, Done, Settled
<1>5. CASE Cardinality(filled) >= MaxBatch
  <2>1. Flush(filled)
    BY <1>2, <1>5 DEF Push
  <2>2. /\ buffer' = {} /\ waiting' \in Seq(SUBSET Records)
        /\ Waiting' = Waiting \cup filled
        /\ \A i \in DOMAIN waiting' : waiting'[i] # {}
        /\ \A i, j \in DOMAIN waiting' : waiting'[i] \cap waiting'[j] # {} => i = j
    BY <1>3, <2>1, FlushMoves
  <2>3. TypeOK'
    BY <1>1, <2>2, Sizes, BufferAssumption DEF Inv, TypeOK
  <2>4. Placed'
    BY <1>1, <1>2, <1>4, <2>2 DEF Inv, Placed
  <2>5. OneBatch' /\ LastIsLast'
    BY <1>1, <2>2 DEF Inv, OneBatch, LastIsLast
  <2> QED
    BY <1>1, <2>2, <2>3, <2>4, <2>5 DEF Inv
<1>6. CASE ~(Cardinality(filled) >= MaxBatch)
  <2>1. buffer' = filled /\ UNCHANGED waiting
    BY <1>2, <1>6 DEF Push
  <2>2. Cardinality(filled) \in Nat
    BY <1>3, BufferAssumption, FS_Subset, FS_CardinalityType
  <2>3. TypeOK'
    BY <1>1, <1>3, <1>6, <2>1, <2>2, BufferAssumption DEF Inv, TypeOK
  <2>4. UNCHANGED Waiting
    BY <2>1 DEF Waiting, Queued
  <2>5. Placed'
    BY <1>1, <1>2, <1>4, <2>1, <2>4 DEF Inv, Placed
  <2>6. OneBatch' /\ LastIsLast'
    BY <1>1, <2>1 DEF Inv, OneBatch, LastIsLast
  <2> QED
    BY <1>1, <2>1, <2>3, <2>5, <2>6 DEF Inv
<1> QED
  BY <1>5, <1>6

LEMMA TimerInv == Inv /\ TimerFlush => Inv'
<1> SUFFICES ASSUME Inv, TimerFlush PROVE Inv'
  OBVIOUS
<1>1. /\ closer = "serving" /\ buffer # {} /\ Flush(buffer)
      /\ UNCHANGED <<pushed, running, rows, reported, last, closer>>
  BY DEF TimerFlush
<1>2. buffer \in SUBSET Records /\ buffer \cap Waiting = {}
  BY DEF Inv, TypeOK, Placed
<1>3. /\ buffer' = {} /\ waiting' \in Seq(SUBSET Records)
      /\ Waiting' = Waiting \cup buffer
      /\ \A i \in DOMAIN waiting' : waiting'[i] # {}
      /\ \A i, j \in DOMAIN waiting' : waiting'[i] \cap waiting'[j] # {} => i = j
  BY <1>1, <1>2, FlushMoves
<1>4. UNCHANGED <<Running, Done>>
  BY <1>1 DEF Running, Done, Settled
<1>5. TypeOK'
  BY <1>1, <1>3, Sizes, BufferAssumption DEF Inv, TypeOK
<1>6. Placed'
  BY <1>1, <1>3, <1>4 DEF Inv, Placed
<1>7. OneBatch' /\ LastIsLast'
  BY <1>1, <1>3 DEF Inv, OneBatch, LastIsLast
<1> QED
  BY <1>1, <1>3, <1>5, <1>6, <1>7 DEF Inv

LEMMA CloseInv == Inv /\ Close => Inv'
<1> SUFFICES ASSUME Inv, Close PROVE Inv'
  OBVIOUS
<1>1. /\ closer = "serving" /\ closer' = "closing" /\ last' = buffer /\ Flush(buffer)
      /\ UNCHANGED <<pushed, running, rows, reported>>
  BY DEF Close
<1>2. buffer \in SUBSET Records /\ buffer \cap Waiting = {}
  BY DEF Inv, TypeOK, Placed
<1>3. UNCHANGED <<Running, Done>>
  BY <1>1 DEF Running, Done, Settled
<1>4. CASE buffer = {}
  <2>1. UNCHANGED <<buffer, waiting>>
    BY <1>1, <1>4 DEF Flush
  <2>2. UNCHANGED Waiting
    BY <2>1 DEF Waiting, Queued
  <2>3. TypeOK'
    BY <1>1, <1>2, <2>1 DEF Inv, TypeOK
  <2>4. Placed'
    BY <1>1, <1>3, <2>1, <2>2 DEF Inv, Placed
  <2>5. OneBatch' /\ LastIsLast'
    BY <1>1, <1>4, <2>1 DEF Inv, OneBatch, LastIsLast
  <2> QED
    BY <1>1, <2>1, <2>3, <2>4, <2>5 DEF Inv
<1>5. CASE buffer # {}
  <2>1. /\ buffer' = {} /\ waiting' = Append(waiting, buffer)
        /\ waiting' \in Seq(SUBSET Records)
        /\ Waiting' = Waiting \cup buffer
        /\ \A i \in DOMAIN waiting' : waiting'[i] # {}
        /\ \A i, j \in DOMAIN waiting' : waiting'[i] \cap waiting'[j] # {} => i = j
    BY <1>1, <1>2, <1>5, FlushMoves
  <2>2. waiting'[Len(waiting')] = buffer
    BY <1>2, <2>1, Appended DEF Inv, TypeOK
  <2>3. TypeOK'
    BY <1>1, <1>2, <2>1, Sizes, BufferAssumption DEF Inv, TypeOK
  <2>4. Placed'
    BY <1>1, <1>3, <2>1 DEF Inv, Placed
  <2>5. OneBatch' /\ LastIsLast'
    BY <1>1, <2>1, <2>2 DEF Inv, OneBatch, LastIsLast
  <2> QED
    BY <1>1, <2>1, <2>3, <2>4, <2>5 DEF Inv
<1> QED
  BY <1>4, <1>5

\* The oldest batch leaves the queue for a connection.
LEMMA ServeInv == Inv /\ Serve => Inv'
<1> SUFFICES ASSUME Inv, Serve PROVE Inv'
  OBVIOUS
<1>1. /\ closer \in {"serving", "closing"} /\ waiting # <<>> /\ Cardinality(running) < PoolSize
      /\ running' = running \cup {Head(waiting)} /\ waiting' = Tail(waiting)
      /\ UNCHANGED <<pushed, buffer, rows, reported, last, closer>>
  BY DEF Serve, CanServe
<1>2. waiting \in Seq(SUBSET Records)
  BY DEF Inv, TypeOK
<1>3. /\ waiting' \in Seq(SUBSET Records) /\ Head(waiting) = waiting[1] /\ 1 \in DOMAIN waiting
      /\ \A i \in DOMAIN waiting' :
            i + 1 \in DOMAIN waiting /\ waiting'[i] = waiting[i + 1] /\ i + 1 # 1
      /\ \A i \in DOMAIN waiting \ {1} :
            i - 1 \in DOMAIN waiting' /\ waiting'[i - 1] = waiting[i]
      /\ waiting' # <<>> => waiting'[Len(waiting')] = waiting[Len(waiting)]
  BY <1>1, <1>2, Served
<1>4. PICK head : head = Head(waiting)
  OBVIOUS
<1>5. head \in SUBSET Records /\ head # {} /\ head = waiting[1] /\ head \in Queued
  BY <1>2, <1>3, <1>4 DEF Inv, Queued
<1>6. \A i \in DOMAIN waiting' : waiting'[i] \cap head = {}
  BY <1>3, <1>5 DEF Inv, OneBatch
<1>7. Queued = Queued' \cup {head}
  <2>1. \A i \in DOMAIN waiting : waiting[i] \in Queued' \cup {head}
    BY <1>3, <1>5 DEF Queued
  <2>2. \A i \in DOMAIN waiting' : waiting'[i] \in Queued
    BY <1>3 DEF Queued
  <2> QED
    BY <1>5, <2>1, <2>2 DEF Queued
<1>8. Waiting = Waiting' \cup head /\ Waiting' \cap head = {}
  BY <1>6, <1>7 DEF Waiting, Queued
<1>9. Running' = Running \cup head
  BY <1>1, <1>4 DEF Running
<1>10. UNCHANGED Done
  BY <1>1 DEF Done, Settled
<1>11. TypeOK'
  <2>1. running' = running \cup {head} /\ IsFiniteSet(running)
    BY <1>1, <1>4, Sizes DEF Inv, TypeOK
  <2>2. Cardinality(running) \in Nat
    BY <2>1, FS_CardinalityType
  <2>3. Cardinality(running') = Cardinality(running) \/ Cardinality(running') = Cardinality(running) + 1
    BY <2>1, FS_AddElement
  <2>4. Cardinality(running') <= PoolSize
    BY <1>1, <2>1, <2>2, <2>3, BufferAssumption
  <2> QED
    BY <1>1, <1>3, <1>4, <1>5, <2>4 DEF Inv, TypeOK
<1>12. Placed'
  BY <1>1, <1>8, <1>9, <1>10 DEF Inv, Placed
<1>13. OneBatch'
  <2>1. ASSUME NEW i \in DOMAIN waiting', NEW j \in DOMAIN waiting',
               waiting'[i] \cap waiting'[j] # {}
        PROVE  i = j
    <3>1. i + 1 = j + 1
      <4>1. PICK k \in DOMAIN waiting, l \in DOMAIN waiting :
               /\ k = i + 1 /\ l = j + 1
               /\ waiting'[i] = waiting[k] /\ waiting'[j] = waiting[l]
        BY <1>3
      <4>2. waiting[k] \cap waiting[l] # {}
        BY <2>1, <4>1
      <4>3. k = l
        BY <4>2 DEF Inv, OneBatch
      <4> QED
        BY <4>1, <4>3
    <3>2. i \in Nat /\ j \in Nat
      <4>1. DOMAIN waiting' = 1 .. Len(waiting') /\ Len(waiting') \in Nat
        BY <1>3
      <4> QED
        BY <2>1, <4>1
    <3> QED
      BY <3>1, <3>2
  <2>2. \A b \in running : b \cap head = {}
    BY <1>8 DEF Inv, Placed, Running
  <2> QED
    BY <1>1, <1>4, <2>1, <2>2 DEF Inv, OneBatch
<1>14. LastIsLast'
  BY <1>1, <1>3 DEF Inv, LastIsLast
<1> QED
  BY <1>1, <1>3, <1>11, <1>12, <1>13, <1>14 DEF Inv

\* An INSERT that ends takes its batch off its connection; what it leaves is
\* settled, by a row or by a report.
LEMMA FinishInv ==
    ASSUME Inv, NEW batch \in running, Finish(batch)
    PROVE  Inv'
<1>1. /\ running' = running \ {batch}
      /\ UNCHANGED <<pushed, buffer, waiting, last, closer>>
      /\ reported \subseteq reported' /\ reported' \subseteq Records
      /\ rows' \in [Records -> Nat]
      /\ \A r \in Records \ batch : rows'[r] = rows[r] /\ (r \in reported' <=> r \in reported)
      /\ \A r \in batch : rows'[r] >= rows[r] /\ rows'[r] <= rows[r] + 1
      /\ \A r \in batch : Settled(r)'
  <2>1. batch \subseteq Records /\ rows \in [Records -> Nat] /\ reported \subseteq Records
    BY DEF Inv, TypeOK
  <2>2. CASE Inserted(batch)
    BY <2>1, <2>2 DEF Inserted, AddRows, Settled
  <2>3. CASE InsertFails(batch)
    BY <2>1, <2>3 DEF InsertFails, AddRows, Settled
  <2> QED
    BY <2>2, <2>3 DEF Finish
<1>2. UNCHANGED Waiting
  BY <1>1 DEF Waiting, Queued
<1>3. batch \subseteq Records /\ Running = Running' \cup batch /\ Running' \cap batch = {}
  BY <1>1 DEF Inv, TypeOK, OneBatch, Running
<1>4. Done' = Done \cup batch
  <2>1. \A r \in Records \ batch : Settled(r)' <=> Settled(r)
    BY <1>1 DEF Settled
  <2> QED
    BY <1>1, <1>3, <2>1 DEF Done
<1>5. \A r \in Records : rows'[r] <= 1
  <2>1. \A r \in batch : rows[r] = 0
    <3>1. \A r \in batch : ~Settled(r)
      BY <1>3 DEF Inv, Placed, Done
    <3> QED
      BY <1>3, <3>1 DEF Settled, Inv, TypeOK
  <2>2. \A r \in batch : rows'[r] <= 1
    BY <1>1, <1>3, <2>1 DEF Inv, TypeOK
  <2> QED
    BY <1>1, <2>2 DEF Inv
<1>6. TypeOK'
  <2>1. /\ IsFiniteSet(running) /\ Cardinality(running) \in Nat
        /\ Cardinality(running') \in Nat /\ Cardinality(running') <= Cardinality(running)
    BY <1>1, Sizes, FS_Subset, FS_CardinalityType DEF Inv, TypeOK
  <2>2. Cardinality(running') <= PoolSize
    BY <2>1, BufferAssumption DEF Inv, TypeOK
  <2> QED
    BY <1>1, <2>2 DEF Inv, TypeOK
<1>7. Placed'
  BY <1>1, <1>2, <1>3, <1>4 DEF Inv, Placed
<1>8. OneBatch' /\ LastIsLast'
  BY <1>1 DEF Inv, OneBatch, LastIsLast
<1> QED
  BY <1>1, <1>5, <1>6, <1>7, <1>8 DEF Inv

\* The pool ends once the last batch is settled; were a batch still waiting,
\* the last one would wait too, behind it.
LEMMA EndInv == Inv /\ (EndPool \/ PoolEnded) => Inv'
<1> SUFFICES ASSUME Inv, EndPool \/ PoolEnded PROVE Inv'
  OBVIOUS
<1>1. UNCHANGED <<pushed, buffer, waiting, running, rows, reported, last>>
  BY DEF EndPool, PoolEnded
<1>2. UNCHANGED <<Waiting, Running, Done>>
  BY <1>1 DEF Waiting, Queued, Running, Done, Settled
<1>3. LastIsLast'
  <2>1. CASE PoolEnded
    BY <1>1, <2>1 DEF PoolEnded, Inv, LastIsLast
  <2>2. CASE EndPool
    <3>1. closer = "closing" /\ closer' = "ending" /\ \A r \in last : Settled(r)
      BY <2>2 DEF EndPool
    <3>2. last \subseteq Done
      BY <3>1 DEF Done, Inv, TypeOK
    <3>3. ASSUME last # {}, waiting # <<>> PROVE FALSE
      <4>1. waiting \in Seq(SUBSET Records)
        BY DEF Inv, TypeOK
      <4>2. Len(waiting) \in DOMAIN waiting
        BY <3>3, <4>1
      <4>3. last \subseteq Waiting
        BY <3>1, <3>3, <4>2 DEF Inv, LastIsLast, Waiting, Queued
      <4> QED
        BY <3>2, <3>3, <4>3 DEF Inv, Placed
    <3> QED
      BY <1>1, <3>1, <3>3 DEF Inv, LastIsLast
  <2> QED
    BY <2>1, <2>2
<1>4. TypeOK'
  <2>1. closer' \in {"serving", "closing", "ending", "ended"}
    BY <1>3 DEF LastIsLast
  <2> QED
    BY <1>1, <2>1 DEF Inv, TypeOK
<1>5. Placed' /\ OneBatch'
  BY <1>1, <1>2 DEF Inv, Placed, OneBatch
<1> QED
  BY <1>1, <1>3, <1>4, <1>5 DEF Inv

LEMMA NextInv == Inv /\ [Next]_vars => Inv'
<1> SUFFICES ASSUME Inv, [Next]_vars PROVE Inv'
  OBVIOUS
<1>1. ASSUME NEW r \in Records, Push(r) PROVE Inv'
  BY <1>1, PushInv
<1>2. CASE TimerFlush
  BY <1>2, TimerInv
<1>3. CASE Serve
  BY <1>3, ServeInv
<1>4. CASE Close
  BY <1>4, CloseInv
<1>5. CASE EndPool \/ PoolEnded
  BY <1>5, EndInv
<1>6. ASSUME NEW batch \in running, Inserted(batch) \/ InsertFails(batch) PROVE Inv'
  BY <1>6, FinishInv DEF Finish
<1>7. CASE UNCHANGED vars
  BY <1>7 DEF vars, Inv, TypeOK, Placed, OneBatch, LastIsLast, Waiting, Queued, Running,
              Done, Settled
<1> QED
  BY <1>1, <1>2, <1>3, <1>4, <1>5, <1>6, <1>7 DEF Next

\* The invariant holds in every state the buffer reaches.
THEOREM Invariance == Spec => []Inv
BY InitInv, NextInv, PTL DEF Spec

-----------------------------------------------------------------------------
(* The theorems *)

\* The buffer stays below a batch, and the pool within its connections.
THEOREM TypeCorrect == Spec => []TypeOK
BY Invariance, PTL DEF Inv

\* A shutdown that had a batch to await loses nothing.
THEOREM ShutdownKeepsAll == Spec => []ClosedInFull
<1>1. Inv => ClosedInFull
  <2> SUFFICES ASSUME Inv PROVE ClosedInFull
    OBVIOUS
  <2>1. closer \in {"ending", "ended"} /\ last # {} => waiting = <<>> /\ buffer = {}
    BY DEF Inv, LastIsLast
  <2>2. ASSUME closer = "ended", last # {}, NEW r \in pushed PROVE Settled(r)
    <3>1. waiting = <<>> /\ buffer = {} /\ running = {}
      BY <2>2 DEF Inv, LastIsLast
    <3>2. Waiting = {} /\ Running = {}
      BY <3>1 DEF Waiting, Queued, Running
    <3> QED
      BY <2>2, <3>1, <3>2 DEF Inv, Placed, Done
  <2> QED
    BY <2>1, <2>2 DEF ClosedInFull
<1> QED
  BY <1>1, Invariance, PTL

\* The number of places that hold a record: a set with no member, or one.
LEMMA Counted ==
    ASSUME NEW S, \A a, b \in S : a = b
    PROVE  IF S = {} THEN Cardinality(S) = 0 ELSE Cardinality(S) = 1
<1>1. CASE S = {}
  BY <1>1, FS_EmptySet
<1>2. CASE S # {}
  <2>1. PICK x \in S : TRUE
    BY <1>2
  <2>2. S = {x}
    BY <2>1
  <2> QED
    BY <1>2, <2>2, FS_Singleton
<1> QED
  BY <1>1, <1>2

\* No record is lost track of or written twice.
THEOREM RecordsAreConserved == Spec => []Conserved
<1>1. Inv => Conserved
  <2> SUFFICES ASSUME Inv, NEW r \in Records
               PROVE  /\ rows[r] <= 1
                      /\ r \in pushed <=> Held(r) + (IF Settled(r) THEN 1 ELSE 0) = 1
                      /\ r \notin pushed => Held(r) = 0 /\ ~Settled(r)
    BY DEF Conserved
  <2>1. PICK inBuffer : inBuffer = {b \in {buffer} : r \in b}
    OBVIOUS
  <2>2. PICK inQueue : inQueue = {i \in DOMAIN waiting : r \in waiting[i]}
    OBVIOUS
  <2>3. PICK inPool : inPool = {b \in running : r \in b}
    OBVIOUS
  <2>4. Held(r) = Cardinality(inBuffer) + Cardinality(inQueue) + Cardinality(inPool)
    BY <2>1, <2>2, <2>3 DEF Held
  <2>5. /\ r \in buffer <=> inBuffer # {}
        /\ r \in Waiting <=> inQueue # {}
        /\ r \in Running <=> inPool # {}
        /\ r \in Done <=> Settled(r)
    BY <2>1, <2>2, <2>3 DEF Waiting, Queued, Running, Done
  <2>6. IF inBuffer = {} THEN Cardinality(inBuffer) = 0 ELSE Cardinality(inBuffer) = 1
    BY <2>1, Counted
  <2>7. IF inQueue = {} THEN Cardinality(inQueue) = 0 ELSE Cardinality(inQueue) = 1
    <3>1. \A i, j \in inQueue : i = j
      BY <2>2 DEF Inv, OneBatch
    <3> QED
      BY <3>1, Counted
  <2>8. IF inPool = {} THEN Cardinality(inPool) = 0 ELSE Cardinality(inPool) = 1
    <3>1. \A a, b \in inPool : a = b
      BY <2>3 DEF Inv, OneBatch
    <3> QED
      BY <3>1, Counted
  <2>9. CASE r \in pushed
    <3>1. /\ r \in buffer \/ r \in Waiting \/ r \in Running \/ r \in Done
          /\ r \in buffer => r \notin Waiting /\ r \notin Running /\ r \notin Done
          /\ r \in Waiting => r \notin Running /\ r \notin Done
          /\ r \in Running => r \notin Done
      BY <2>9 DEF Inv, Placed
    <3>2. Held(r) + (IF Settled(r) THEN 1 ELSE 0) = 1
      BY <2>4, <2>5, <2>6, <2>7, <2>8, <3>1
    <3> QED
      BY <2>9, <3>2 DEF Inv
  <2>10. CASE r \notin pushed
    <3>1. r \notin buffer /\ r \notin Waiting /\ r \notin Running /\ r \notin Done
      BY <2>10 DEF Inv, Placed
    <3>2. Held(r) = 0 /\ ~Settled(r)
      BY <2>4, <2>5, <2>6, <2>7, <2>8, <3>1
    <3> QED
      BY <2>10, <3>2 DEF Inv
  <2> QED
    BY <2>9, <2>10
<1> QED
  BY <1>1, Invariance, PTL

-----------------------------------------------------------------------------
(* The ledger *)

\* No batch on its way is larger than maxBatchSize.
SmallBatches ==
    /\ \A i \in DOMAIN waiting : Cardinality(waiting[i]) <= MaxBatch
    /\ \A b \in running : Cardinality(b) <= MaxBatch

\* A push fills the buffer up to maxBatchSize and no further.
LEMMA FilledBatch ==
    ASSUME Inv, NEW r \in Records
    PROVE  Cardinality(buffer \cup {r}) <= MaxBatch /\ Cardinality(buffer) <= MaxBatch
<1>1. buffer \subseteq Records /\ Cardinality(buffer) < MaxBatch /\ MaxBatch \in Nat
  BY BufferAssumption DEF Inv, TypeOK
<1>2. IsFiniteSet(buffer) /\ Cardinality(buffer) \in Nat
  BY <1>1, BufferAssumption, FS_Subset, FS_CardinalityType
<1>3. CASE r \in buffer
  <2>1. buffer \cup {r} = buffer
    BY <1>3
  <2> QED
    BY <1>1, <1>2, <2>1
<1>4. CASE r \notin buffer
  <2>1. Cardinality(buffer \cup {r}) = Cardinality(buffer) + 1
    BY <1>2, <1>4, FS_AddElement
  <2> QED
    BY <1>1, <1>2, <2>1
<1> QED
  BY <1>3, <1>4

LEMMA FlushKeepsSmall ==
    ASSUME Inv, SmallBatches, NEW filled \in SUBSET Records, Flush(filled),
           Cardinality(filled) <= MaxBatch
    PROVE  \A i \in DOMAIN waiting' : Cardinality(waiting'[i]) <= MaxBatch
<1>1. CASE filled = {}
  BY <1>1 DEF Flush, SmallBatches
<1>2. CASE filled # {}
  <2>1. waiting' = Append(waiting, filled) /\ waiting \in Seq(SUBSET Records)
    BY <1>2 DEF Flush, Inv, TypeOK
  <2>2. /\ DOMAIN waiting' = DOMAIN waiting \cup {Len(waiting) + 1}
        /\ waiting'[Len(waiting) + 1] = filled
        /\ \A i \in DOMAIN waiting : waiting'[i] = waiting[i]
    BY <2>1, Appended
  <2> QED
    BY <2>2 DEF SmallBatches
<1> QED
  BY <1>1, <1>2

LEMMA NextSmall == Inv /\ SmallBatches /\ [Next]_vars => SmallBatches'
<1> SUFFICES ASSUME Inv, SmallBatches, [Next]_vars PROVE SmallBatches'
  OBVIOUS
<1>0. /\ buffer \in SUBSET Records /\ Cardinality(buffer) <= MaxBatch
      /\ waiting \in Seq(SUBSET Records)
  <2>1. Cardinality(buffer) < MaxBatch /\ Cardinality(buffer) \in Nat
    BY BufferAssumption, FS_Subset, FS_CardinalityType DEF Inv, TypeOK
  <2> QED
    BY <2>1, BufferAssumption DEF Inv, TypeOK
<1>1. ASSUME NEW r \in Records, Push(r) PROVE SmallBatches'
  <2>1. running' = running
    BY <1>1 DEF Push
  <2>2. CASE Flush(buffer \cup {r})
    <3>1. buffer \cup {r} \in SUBSET Records /\ Cardinality(buffer \cup {r}) <= MaxBatch
      BY <1>0, FilledBatch
    <3> QED
      BY <2>1, <2>2, <3>1, FlushKeepsSmall DEF SmallBatches
  <2>3. CASE UNCHANGED waiting
    BY <2>1, <2>3 DEF SmallBatches
  <2> QED
    BY <1>1, <2>2, <2>3 DEF Push
<1>2. CASE TimerFlush \/ Close
  <2>1. Flush(buffer) /\ running' = running
    BY <1>2 DEF TimerFlush, Close
  <2> QED
    BY <1>0, <2>1, FlushKeepsSmall DEF SmallBatches
<1>3. CASE Serve
  <2>1. /\ waiting # <<>> /\ waiting' = Tail(waiting)
        /\ running' = running \cup {Head(waiting)}
    BY <1>3 DEF Serve, CanServe
  <2>2. /\ Head(waiting) = waiting[1] /\ 1 \in DOMAIN waiting
        /\ \A i \in DOMAIN waiting' : i + 1 \in DOMAIN waiting /\ waiting'[i] = waiting[i + 1]
    BY <1>0, <2>1, Served
  <2> QED
    BY <2>1, <2>2 DEF SmallBatches
<1>4. ASSUME NEW b \in running, Inserted(b) \/ InsertFails(b) PROVE SmallBatches'
  BY <1>4 DEF Inserted, InsertFails, SmallBatches
<1>5. CASE EndPool \/ PoolEnded \/ UNCHANGED vars
  BY <1>5 DEF EndPool, PoolEnded, vars, SmallBatches
<1> QED
  BY <1>1, <1>2, <1>3, <1>4, <1>5 DEF Next

LEMMA SmallInvariance == Spec => []SmallBatches
<1>1. Init => SmallBatches
  BY DEF Init, SmallBatches
<1> QED
  BY <1>1, NextSmall, Invariance, PTL DEF Spec

Kept == buffer \cup Waiting \cup Running

\* A flush moves records within the ledger's hands.
LEMMA FlushKeeps ==
    ASSUME Inv, NEW filled \in SUBSET Records, Flush(filled), buffer \subseteq filled,
           running' = running
    PROVE  Kept' = filled \cup Kept
<1>0. Running' = Running
  BY DEF Running
<1>1. CASE filled = {}
  <2>1. Waiting' = Waiting /\ buffer' = buffer
    BY <1>1 DEF Flush, Waiting, Queued
  <2> QED
    BY <1>0, <1>1, <2>1 DEF Kept
<1>2. CASE filled # {}
  <2>1. buffer' = {} /\ Waiting' = Waiting \cup filled
    BY <1>2, FlushMoves
  <2> QED
    BY <1>0, <2>1 DEF Kept
<1> QED
  BY <1>1, <1>2

\* An INSERT that ends lets go of its batch, and of nothing else.
LEMMA FinishReleases ==
    ASSUME Inv, NEW b \in running, running' = running \ {b}, UNCHANGED <<buffer, waiting>>
    PROVE  b \subseteq Kept /\ b \subseteq Records /\ Kept' = Kept \ b
           /\ \A r \in b : rows[r] = 0
<1>1. b \subseteq Running /\ b \subseteq Records
  BY DEF Running, Inv, TypeOK
<1>2. Waiting' = Waiting /\ buffer' = buffer
  BY DEF Waiting, Queued
<1>3. Running' = Running \ b
  BY DEF Running, Inv, OneBatch
<1>4. b \cap (buffer \cup Waiting \cup Done) = {}
  BY <1>1 DEF Inv, Placed
<1>5. ASSUME NEW r \in b PROVE rows[r] = 0
  <2>1. r \notin Done /\ r \in Records /\ rows[r] \in Nat
    BY <1>1, <1>4 DEF Inv, TypeOK
  <2> QED
    BY <2>1 DEF Done, Settled
<1> QED
  BY <1>1, <1>2, <1>3, <1>4, <1>5 DEF Kept

\* Whatever the buffer, the interval, the pool and the shutdown do, what shows
\* of it is the ledger: records are taken in once, before the close, and leave
\* in batches of at most maxBatchSize, each written once or reported as a whole.
THEOREM LedgerKept == Spec => KeepsLedger
<1> DEFINE Step == [Ledger!Next]_(Ledger!lvars)
<1>1. Init => Ledger!Init
  <2> SUFFICES ASSUME Init PROVE Ledger!Init
    OBVIOUS
  <2>1. Queued = {}
    BY DEF Init, Queued
  <2> QED
    BY <2>1 DEF Init, Ledger!Init
<1>2. Inv /\ SmallBatches /\ [Next]_vars => Step
  <2> SUFFICES ASSUME Inv, SmallBatches, [Next]_vars PROVE Step
    OBVIOUS
  <2> USE DEF Ledger!Next, Ledger!lvars
  <2>0. /\ buffer \cup (UNION Queued) \cup (UNION running) = Kept
        /\ (buffer \cup (UNION Queued) \cup (UNION running))' = Kept'
    BY DEF Kept, Waiting, Running
  <2>1. ASSUME NEW r \in Records, Push(r) PROVE Ledger!Accept(r)
    <3>1. /\ closer = "serving" /\ r \notin pushed
          /\ UNCHANGED <<running, rows, reported, closer>>
      BY <2>1 DEF Push
    <3>2. r \notin Kept /\ r \notin Done
      BY <3>1 DEF Inv, Placed, Kept
    <3>3. r \notin reported /\ rows[r] = 0
      <4>1. rows[r] \in Nat
        BY DEF Inv, TypeOK
      <4> QED
        BY <3>2, <4>1 DEF Done, Settled
    <3>4. Kept' = Kept \cup {r}
      <4>1. CASE Flush(buffer \cup {r})
        <5>1. buffer \cup {r} \in SUBSET Records
          BY DEF Inv, TypeOK
        <5>2. Kept' = (buffer \cup {r}) \cup Kept
          BY <3>1, <4>1, <5>1, FlushKeeps
        <5> QED
          BY <5>2 DEF Kept
      <4>2. CASE buffer' = buffer \cup {r} /\ UNCHANGED waiting
        <5>1. Waiting' = Waiting /\ Running' = Running
          BY <3>1, <4>2 DEF Waiting, Queued, Running
        <5> QED
          BY <4>2, <5>1 DEF Kept
      <4> QED
        BY <2>1, <4>1, <4>2 DEF Push
    <3> QED
      BY <2>0, <3>1, <3>2, <3>3, <3>4 DEF Ledger!Accept
  <2>2. CASE TimerFlush
    <3>1. Flush(buffer) /\ UNCHANGED <<running, rows, reported, closer>>
      BY <2>2 DEF TimerFlush
    <3>2. Kept' = Kept
      BY <3>1, FlushKeeps DEF Kept, Inv, TypeOK
    <3> QED
      BY <2>0, <3>1, <3>2
  <2>3. CASE Close
    <3>1. /\ closer = "serving" /\ closer' = "closing" /\ Flush(buffer)
          /\ UNCHANGED <<running, rows, reported>>
      BY <2>3 DEF Close
    <3>2. Kept' = Kept
      BY <3>1, FlushKeeps DEF Kept, Inv, TypeOK
    <3>3. Ledger!Stop
      BY <2>0, <3>1, <3>2 DEF Ledger!Stop
    <3> QED
      BY <3>3
  <2>4. CASE Serve
    <3>1. /\ waiting # <<>> /\ waiting' = Tail(waiting)
          /\ running' = running \cup {Head(waiting)}
          /\ UNCHANGED <<buffer, rows, reported, closer>>
          /\ waiting \in Seq(SUBSET Records)
      BY <2>4 DEF Serve, CanServe, Inv, TypeOK
    <3>2. /\ Head(waiting) = waiting[1] /\ 1 \in DOMAIN waiting
          /\ \A i \in DOMAIN waiting' : i + 1 \in DOMAIN waiting /\ waiting'[i] = waiting[i + 1]
          /\ \A i \in DOMAIN waiting \ {1} : i - 1 \in DOMAIN waiting' /\ waiting'[i - 1] = waiting[i]
      BY <3>1, Served
    <3>3. Queued' \cup running' = Queued \cup running
      <4>1. ASSUME NEW b \in Queued PROVE b \in Queued' \cup running'
        <5>1. PICK i \in DOMAIN waiting : b = waiting[i]
          BY <4>1 DEF Queued
        <5>2. CASE i = 1
          BY <3>1, <3>2, <5>1, <5>2
        <5>3. CASE i # 1
          <6>1. i - 1 \in DOMAIN waiting' /\ b = waiting'[i - 1]
            BY <3>2, <5>1, <5>3
          <6> QED
            BY <6>1 DEF Queued
        <5> QED
          BY <5>2, <5>3
      <4>2. Queued' \subseteq Queued
        BY <3>2 DEF Queued
      <4>3. Head(waiting) \in Queued
        BY <3>2 DEF Queued
      <4> QED
        BY <3>1, <4>1, <4>2, <4>3
    <3>4. \A r : r \in Kept <=> r \in buffer \/ \E b \in Queued \cup running : r \in b
      BY DEF Kept, Waiting, Running
    <3>5. \A r : r \in Kept' <=> r \in buffer' \/ \E b \in Queued' \cup running' : r \in b
      BY DEF Kept, Waiting, Running
    <3>6. Kept' = Kept
      BY <3>1, <3>3, <3>4, <3>5
    <3> QED
      BY <2>0, <3>1, <3>6
  <2>5. ASSUME NEW b \in running, Inserted(b) \/ InsertFails(b)
        PROVE  Ledger!Write(b) \/ Ledger!Report(b)
    <3>1. running' = running \ {b} /\ UNCHANGED <<buffer, waiting, closer>>
      BY <2>5 DEF Inserted, InsertFails
    <3>2. b \subseteq Kept /\ b \subseteq Records /\ Kept' = Kept \ b /\ \A r \in b : rows[r] = 0
      BY <3>1, FinishReleases
    <3>3. Ledger!Release(b)
      <4>1. (closer = "serving")' = (closer = "serving")
        BY <3>1
      <4>2. b \subseteq buffer \cup (UNION Queued) \cup (UNION running)
        BY <2>0, <3>2
      <4>3. (buffer \cup (UNION Queued) \cup (UNION running))'
                = (buffer \cup (UNION Queued) \cup (UNION running)) \ b
        BY <2>0, <3>2
      <4> QED
        BY <4>1, <4>2, <4>3 DEF Ledger!Release
    <3>4. AddRows(b) => rows' = Ledger!Written(b)
      <4>1. \A r \in Records : rows[r] + 0 = rows[r]
        BY DEF Inv, TypeOK
      <4>2. \A r \in Records :
                rows[r] + (IF r \in b THEN 1 ELSE 0) = IF r \in b THEN 1 ELSE rows[r]
        BY <3>2, <4>1
      <4> QED
        BY <4>2 DEF AddRows, Ledger!Written
    <3>5. CASE Inserted(b)
      BY <3>3, <3>4, <3>5 DEF Inserted, Ledger!Write
    <3>6. CASE InsertFails(b)
      BY <3>3, <3>4, <3>6 DEF InsertFails, Ledger!Report
    <3> QED
      BY <2>5, <3>5, <3>6
  <2>6. CASE EndPool \/ PoolEnded \/ UNCHANGED vars
    <3>1. /\ UNCHANGED <<buffer, waiting, running, rows, reported>>
          /\ (closer = "serving")' <=> closer = "serving"
      BY <2>6 DEF EndPool, PoolEnded, vars
    <3> QED
      BY <3>1 DEF Queued
  <2>7. ASSUME NEW b \in running, Inserted(b) \/ InsertFails(b) PROVE Step
    <3>1. b \in {batch \in SUBSET Records : Cardinality(batch) <= MaxBatch}
      BY DEF Inv, TypeOK, SmallBatches
    <3> QED
      BY <2>5, <2>7, <3>1
  <2> QED
    BY <2>1, <2>2, <2>3, <2>4, <2>6, <2>7 DEF Next
<1> QED
  BY <1>1, <1>2, Invariance, SmallInvariance, PTL DEF Spec, KeepsLedger, Ledger!Spec

=============================================================================
