----------------------------- MODULE UsageLedger -----------------------------
(***************************************************************************)
(* What the usage buffer promises of the records it is given, without the  *)
(* buffer, the interval, the queue of the pool or its connections: until   *)
(* it stops it takes records in, and what it has taken it either keeps,    *)
(* writes once or reports, a batch in one go and all of it alike.  A       *)
(* report does not say whether the records were written.                   *)
(***************************************************************************)
EXTENDS Naturals

CONSTANTS
    Records,
    Batches     \* the sets of records that may leave together

VARIABLES
    kept,       \* records taken in and not accounted for yet
    rows,       \* rows of each record
    reported,   \* records reported as perhaps lost
    open        \* whether records are taken in

lvars == <<kept, rows, reported, open>>

Init ==
    /\ kept = {}
    /\ rows = [r \in Records |-> 0]
    /\ reported = {}
    /\ open = TRUE

Accept(r) ==
    /\ open
    /\ r \notin kept \cup reported /\ rows[r] = 0
    /\ kept' = kept \cup {r}
    /\ UNCHANGED <<rows, reported, open>>

Release(batch) ==
    /\ batch \subseteq kept
    /\ kept' = kept \ batch
    /\ UNCHANGED open

Written(batch) == [r \in Records |-> IF r \in batch THEN 1 ELSE rows[r]]

Write(batch) ==
    /\ Release(batch)
    /\ rows' = Written(batch)
    /\ UNCHANGED reported

Report(batch) ==
    /\ Release(batch)
    /\ rows' \in {rows, Written(batch)}
    /\ reported' = reported \cup batch

Stop ==
    /\ open
    /\ open' = FALSE
    /\ UNCHANGED <<kept, rows, reported>>

Next ==
    \/ \E r \in Records : Accept(r)
    \/ \E batch \in Batches : Write(batch) \/ Report(batch)
    \/ Stop

Spec == Init /\ [][Next]_lvars

=============================================================================
