----------------------------- MODULE UsageBuffer -----------------------------
(***************************************************************************)
(* usage/buffer.ts: usage records gathered in memory and written to        *)
(* Postgres a batch at a time, over a connection pool that hands its       *)
(* connections out in the order they were asked for, and server.ts's       *)
(* onClose hook, which closes the buffer and then the pool.                *)
(***************************************************************************)
EXTENDS Integers, Sequences, FiniteSets

CONSTANTS
    Records,     \* the usage records the gateway's responses produce
    MaxBatch,    \* maxBatchSize
    PoolSize     \* connections of the pool (10 by default in pg)

ASSUME BufferAssumption ==
    /\ MaxBatch \in Nat \ {0}
    /\ PoolSize \in Nat \ {0}
    /\ IsFiniteSet(Records)

VARIABLES
    pushed,      \* records given to push
    buffer,      \* buffer: the records gathered since the last flush
    waiting,     \* batches whose query waits for a connection of the pool
    running,     \* batches whose INSERT runs, each on a connection
    rows,        \* how often each record is in usage_records
    reported,    \* records of a batch whose write was reported to onError
    last,        \* the batch close() awaits
    closer       \* onClose: serving, closing (the buffer), ending (the pool), ended

vars == <<pushed, buffer, waiting, running, rows, reported, last, closer>>

Init ==
    /\ pushed = {} /\ buffer = {} /\ last = {} /\ reported = {}
    /\ waiting = <<>> /\ running = {}
    /\ rows = [r \in Records |-> 0]
    /\ closer = "serving"

\* A plausible bug: flush does not empty the buffer it has sent.
FlushKeepsBuffer(filled) ==
    IF filled = {} THEN UNCHANGED <<buffer, waiting>>
    ELSE buffer' = filled /\ waiting' = Append(waiting, filled)

\* flush: takes the buffer as a batch, empties it, and queries the pool.
Flush(filled) ==
    IF filled = {} THEN UNCHANGED <<buffer, waiting>>
    ELSE buffer' = {} /\ waiting' = Append(waiting, filled)

\* A plausible bug: the batch may outgrow maxBatchSize by one.
PushOffByOne(r) ==
    /\ closer = "serving" /\ r \notin pushed
    /\ pushed' = pushed \cup {r}
    /\ LET filled == buffer \cup {r} IN
        IF Cardinality(filled) > MaxBatch THEN Flush(filled)
        ELSE buffer' = filled /\ UNCHANGED waiting
    /\ UNCHANGED <<running, rows, reported, last, closer>>

\* push, from onResponse or a WebSocket's acceptance; Fastify runs the onClose
\* hooks after its HTTP server has closed, so no response comes later.
Push(r) ==
    /\ closer = "serving" /\ r \notin pushed
    /\ pushed' = pushed \cup {r}
    /\ LET filled == buffer \cup {r} IN
        IF Cardinality(filled) >= MaxBatch THEN Flush(filled)
        ELSE buffer' = filled /\ UNCHANGED waiting
    /\ UNCHANGED <<running, rows, reported, last, closer>>

\* The interval's callback, until close clears the interval.
TimerFlush ==
    /\ closer = "serving" /\ buffer # {}
    /\ Flush(buffer)
    /\ UNCHANGED <<pushed, running, rows, reported, last, closer>>

\* The pool hands a free connection to the query that has waited longest;
\* once end() is called it serves no waiting query any more.
CanServe ==
    /\ closer \in {"serving", "closing"}
    /\ waiting # <<>> /\ Cardinality(running) < PoolSize

Serve ==
    /\ CanServe
    /\ running' = running \cup {Head(waiting)}
    /\ waiting' = Tail(waiting)
    /\ UNCHANGED <<pushed, buffer, rows, reported, last, closer>>

\* insertUsageBatch: one multi-row INSERT, which adds all its rows or none.
AddRows(batch) == rows' = [r \in Records |-> rows[r] + (IF r \in batch THEN 1 ELSE 0)]

Inserted(batch) ==
    /\ running' = running \ {batch}
    /\ AddRows(batch)
    /\ UNCHANGED <<pushed, buffer, waiting, reported, last, closer>>

\* A plausible bug: the failed batch is put back to be written again.
InsertRetries(batch) ==
    /\ running' = running \ {batch}
    /\ buffer' = buffer \cup batch
    /\ UNCHANGED <<pushed, waiting, rows, reported, last, closer>>

\* The query fails, or its answer is lost with the connection after Postgres
\* has committed: either way the batch is reported and never written again.
InsertFails(batch) ==
    /\ running' = running \ {batch}
    /\ reported' = reported \cup batch
    /\ AddRows(batch) \/ UNCHANGED rows
    /\ UNCHANGED <<pushed, buffer, waiting, last, closer>>

\* close(): stops the interval and flushes what is left.
Close ==
    /\ closer = "serving"
    /\ closer' = "closing"
    /\ last' = buffer
    /\ Flush(buffer)
    /\ UNCHANGED <<pushed, running, rows, reported>>

Settled(r) == rows[r] > 0 \/ r \in reported

\* A plausible bug: onClose does not await close().
EndPoolAtOnce ==
    /\ closer = "closing" /\ ~CanServe
    /\ closer' = "ending"
    /\ UNCHANGED <<pushed, buffer, waiting, running, rows, reported, last>>

\* ... awaited by onClose, which then calls the pool's end().  By then the pool
\* has handed out the connections it had to spare, which it does at once.
EndPool ==
    /\ closer = "closing" /\ ~CanServe
    /\ \A r \in last : Settled(r)
    /\ closer' = "ending"
    /\ UNCHANGED <<pushed, buffer, waiting, running, rows, reported, last>>

\* end() resolves when the last connection has been given back.
PoolEnded ==
    /\ closer = "ending" /\ running = {}
    /\ closer' = "ended"
    /\ UNCHANGED <<pushed, buffer, waiting, running, rows, reported, last>>

Finish(batch) == Inserted(batch) \/ InsertFails(batch)

Next ==
    \/ \E r \in Records : Push(r)
    \/ TimerFlush \/ Serve \/ Close \/ EndPool \/ PoolEnded
    \/ \E batch \in running : Inserted(batch)
    \/ \E batch \in running : InsertFails(batch)

Spec == Init /\ [][Next]_vars

=============================================================================
