--------------------------- MODULE MigrationsProps ---------------------------
(***************************************************************************)
(* The properties of Migrations and the fairness Postgres gives it.        *)
(***************************************************************************)
EXTENDS Migrations

TypeOK ==
    /\ table \in BOOLEAN
    /\ applied \subseteq File
    /\ effects \in [File -> Nat]
    /\ at \in [Procs -> 1 .. NFiles + 1]
    /\ pc \in [Procs -> {"down", "boot", "create", "check", "sql", "insert",
                        "commit", "serving"}]
    /\ crashes \in 0 .. MaxCrashes

-----------------------------------------------------------------------------
(* Safety *)

\* client.ts:20-21 ("applies the ones not applied yet, in order"): however many
\* processes boot at once, and wherever one dies, a file has taken effect
\* exactly if it is recorded, and once.
AppliedOnce == \A f \in File : effects[f] = IF f \in applied THEN 1 ELSE 0

\* No file takes effect before the ones sorted before it (see KeepsSchema).
AppliedInOrder == \A f \in applied : 1 .. f \subseteq applied

\* README.md:303: a gateway that serves has the whole schema.
ServesMigrated == \A p \in Procs : pc[p] = "serving" => applied = File

\* client.ts:20-21, as a specification of its own: seen from the database, all
\* the races, rollbacks and crashes of any number of boots amount to one
\* process that applies the files one at a time, in order and for good.
Contract == INSTANCE SchemaContract WITH serving <- {p \in Procs : pc[p] = "serving"}

KeepsSchema == Contract!Spec

-----------------------------------------------------------------------------
(* Liveness *)

\* Postgres answers, and lets a statement that waits for a lock go on once the
\* lock is free.  Nobody has to start a process, or start it again.
Fairness == \A p \in Procs : WF_vars(Migrate(p))

FairSpec == Spec /\ Fairness

\* Losing a race is always to a process that goes on: of the processes that
\* boot together one at least comes to serve, unless one has crashed.
SomeoneServes ==
    (\E p \in Procs : pc[p] # "down") ~>
        (\E p \in Procs : pc[p] = "serving") \/ crashes > 0

=============================================================================
