--------------------------- MODULE UsageBufferProps ---------------------------
(***************************************************************************)
(* The properties of UsageBuffer and the fairness they assume: the         *)
(* interval fires, the pool hands out free connections, Postgres answers.  *)
(***************************************************************************)
EXTENDS UsageBuffer

TypeOK ==
    /\ pushed \subseteq Records /\ reported \subseteq Records
    /\ buffer \subseteq Records /\ Cardinality(buffer) < MaxBatch
    /\ waiting \in Seq(SUBSET Records)
    /\ running \subseteq SUBSET Records /\ Cardinality(running) <= PoolSize
    /\ rows \in [Records -> Nat]
    /\ last \subseteq Records
    /\ closer \in {"serving", "closing", "ending", "ended"}

-----------------------------------------------------------------------------
(* Safety *)

Queued == {waiting[i] : i \in DOMAIN waiting}

\* How many places hold a record that is not settled yet.
Held(r) == Cardinality({b \in {buffer} : r \in b})
         + Cardinality({i \in DOMAIN waiting : r \in waiting[i]})
         + Cardinality({b \in running : r \in b})

\* README.md:342-345: a response is accounted for in one row at most, and it is
\* never lost track of: each record pushed is in exactly one of the buffer,
\* a batch on its way, usage_records or the batches reported to onError - in the
\* last two only when the answer of a committed INSERT was lost.
Conserved ==
    \A r \in Records :
        /\ rows[r] <= 1
        /\ r \in pushed <=> Held(r) + (IF Settled(r) THEN 1 ELSE 0) = 1
        /\ r \notin pushed => Held(r) = 0 /\ ~Settled(r)

\* close() awaits only the batch it flushes, yet when there is one, every
\* earlier batch has a connection before the pool is ended, because the pool
\* serves queries in order: nothing pushed is lost at shutdown.
ClosedInFull ==
    /\ closer \in {"ending", "ended"} /\ last # {} => waiting = <<>> /\ buffer = {}
    /\ closer = "ended" /\ last # {} => \A r \in pushed : Settled(r)

\* usage/buffer.ts:17-44 (batches, and onError): the batching, the interval, the
\* pool and the shutdown show in nothing but when records leave the buffer:
\* each is taken in once, before the close, and leaves in a batch of at most
\* maxBatchSize that is written once, as a whole, or reported, as a whole.
Ledger == INSTANCE UsageLedger WITH
    Batches <- {batch \in SUBSET Records : Cardinality(batch) <= MaxBatch},
    kept <- buffer \cup (UNION Queued) \cup (UNION running),
    open <- closer = "serving"

KeepsLedger == Ledger!Spec

\* buffer.ts:7 and usageBuffer.test.ts:63 ("writes whatever is left when
\* closed"), without that condition: after the shutdown every record pushed is
\* written or reported.
\* (The code does not keep this: see README.md.)
NothingLostAtClose == closer = "ended" => \A r \in pushed : Settled(r)

-----------------------------------------------------------------------------
(* Liveness *)

Fairness ==
    /\ WF_vars(TimerFlush)
    /\ WF_vars(Serve)
    /\ \A batch \in SUBSET Records : WF_vars(batch \in running /\ Finish(batch))

FairSpec == Spec /\ Fairness

\* While the gateway serves, no record stays in memory for ever.
EventuallySettled ==
    \A r \in Records : r \in pushed ~> Settled(r) \/ closer # "serving"

=============================================================================
