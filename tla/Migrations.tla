------------------------------ MODULE Migrations ------------------------------
(***************************************************************************)
(* db/client.ts: runMigrations, as several gateway processes run it when   *)
(* they boot against one Postgres.  A process that gets an error exits     *)
(* (index.ts lets buildServer's rejection end the process) and may be      *)
(* started again; a crash rolls its open transaction back.                 *)
(***************************************************************************)
EXTENDS Integers, FiniteSets

CONSTANTS
    Procs,       \* gateway processes
    NFiles,      \* the .sql files, 1..NFiles in the order sort() gives them
    Creating,    \* files whose statements fail once applied (CREATE TABLE);
                 \* the others would run, and take effect, a second time
    MaxCrashes   \* bound: how many crashes and restarts a run may have

ASSUME MigrationsAssumption ==
    /\ NFiles \in Nat \ {0}
    /\ Creating \subseteq 1 .. NFiles
    /\ MaxCrashes \in Nat

File == 1 .. NFiles

VARIABLES
    table,       \* does the table _migrations exist?
    applied,     \* the names committed to _migrations
    effects,     \* how often the statements of a file were committed
    at,          \* the file each process is at
    pc,          \* down, boot, create, check, sql, insert, commit, serving
    crashes

vars == <<table, applied, effects, at, pc, crashes>>

Init ==
    /\ table = FALSE /\ applied = {} /\ crashes = 0
    /\ effects = [f \in File |-> 0]
    /\ at = [p \in Procs |-> 1]
    /\ pc = [p \in Procs |-> "down"]

Go(p, where) == pc' = [pc EXCEPT ![p] = where]

\* An open transaction that has executed the statements of f, or recorded it.
Holds(p, f) == pc[p] \in {"insert", "commit"} /\ at[p] = f

Boot(p) ==
    /\ pc[p] = "down"
    /\ Go(p, "boot")
    /\ at' = [at EXCEPT ![p] = 1]
    /\ UNCHANGED <<table, applied, effects, crashes>>

\* CREATE TABLE IF NOT EXISTS is not atomic: a process that finds the table
\* missing fails if another has committed it by the time it creates its own.
EnsureTable(p) ==
    /\ pc[p] = "boot"
    /\ Go(p, IF table THEN "check" ELSE "create")
    /\ UNCHANGED <<table, applied, effects, at, crashes>>

CreateTable(p) ==
    /\ pc[p] = "create"
    /\ table' = TRUE
    /\ Go(p, IF table THEN "down" ELSE "check")
    /\ UNCHANGED <<applied, effects, at, crashes>>

\* A plausible bug: the loop runs once too often.
CheckPastEnd(p) ==
    /\ pc[p] = "check"
    /\ IF at[p] \in applied
       THEN at' = [at EXCEPT ![p] = @ + 1] /\ UNCHANGED pc
       ELSE Go(p, "sql") /\ UNCHANGED at
    /\ UNCHANGED <<table, applied, effects, crashes>>

\* SELECT name FROM _migrations WHERE name = $1: skips what is recorded.
Check(p) ==
    /\ pc[p] = "check" /\ at[p] <= NFiles
    /\ IF at[p] \in applied
       THEN at' = [at EXCEPT ![p] = @ + 1] /\ UNCHANGED pc
       ELSE Go(p, "sql") /\ UNCHANGED at
    /\ UNCHANGED <<table, applied, effects, crashes>>

\* A plausible bug: the check is not made for the last file.
ListenEarly(p) ==
    /\ pc[p] = "check" /\ at[p] >= NFiles
    /\ Go(p, "serving")
    /\ UNCHANGED <<table, applied, effects, at, crashes>>

\* After the last file buildServer goes on, and the gateway listens.
Listen(p) ==
    /\ pc[p] = "check" /\ at[p] > NFiles
    /\ Go(p, "serving")
    /\ UNCHANGED <<table, applied, effects, at, crashes>>

\* BEGIN and the file's statements.  Those that create something wait for an
\* open transaction that creates the same, and fail if it exists: ROLLBACK, and
\* the error ends the process.
RunSql(p) ==
    /\ pc[p] = "sql"
    /\ at[p] \in Creating => \A q \in Procs \ {p} : ~Holds(q, at[p])
    /\ IF at[p] \in Creating /\ effects[at[p]] > 0 THEN Go(p, "down")
       ELSE Go(p, "insert")
    /\ UNCHANGED <<table, applied, effects, at, crashes>>

\* Plausible bugs: ON CONFLICT DO NOTHING instead of the error ...
InsertIgnores(p) ==
    /\ pc[p] = "insert"
    /\ \A q \in Procs \ {p} : ~(pc[q] = "commit" /\ at[q] = at[p])
    /\ Go(p, "commit")
    /\ UNCHANGED <<table, applied, effects, at, crashes>>

\* ... and an advisory lock, taken for the whole of a boot, that a process
\* which has come to serve never gives back.
InsertLocked(p) ==
    /\ pc[p] = "insert"
    /\ \A q \in Procs \ {p} : pc[q] \in {"down", "boot", "create"}
    /\ IF at[p] \in applied THEN Go(p, "down") ELSE Go(p, "commit")
    /\ UNCHANGED <<table, applied, effects, at, crashes>>

\* INSERT INTO _migrations waits for an open transaction that has inserted the
\* same name, and fails on the primary key if it is there: ROLLBACK again.
Insert(p) ==
    /\ pc[p] = "insert"
    /\ \A q \in Procs \ {p} : ~(pc[q] = "commit" /\ at[q] = at[p])
    /\ IF at[p] \in applied THEN Go(p, "down") ELSE Go(p, "commit")
    /\ UNCHANGED <<table, applied, effects, at, crashes>>

\* A plausible bug: sort() is missing, and a file is recorded under the number
\* of the next.
CommitUnsorted(p) ==
    /\ pc[p] = "commit"
    /\ LET f == IF at[p] < NFiles THEN at[p] + 1 ELSE at[p] IN
        applied' = applied \cup {f} /\ effects' = [effects EXCEPT ![f] = 1]
    /\ at' = [at EXCEPT ![p] = @ + 1]
    /\ Go(p, "check")
    /\ UNCHANGED <<table, crashes>>

\* COMMIT publishes the statements and the name together.
Commit(p) ==
    /\ pc[p] = "commit"
    /\ applied' = applied \cup {at[p]}
    /\ effects' = [effects EXCEPT ![at[p]] = @ + 1]
    /\ at' = [at EXCEPT ![p] = @ + 1]
    /\ Go(p, "check")
    /\ UNCHANGED <<table, crashes>>

\* The process, its connection or Postgres dies.
Crash(p) ==
    /\ pc[p] # "down" /\ crashes < MaxCrashes
    /\ crashes' = crashes + 1
    /\ Go(p, "down")
    /\ UNCHANGED <<table, applied, effects, at>>

Migrate(p) ==
    \/ EnsureTable(p) \/ CreateTable(p) \/ Check(p)
    \/ RunSql(p) \/ Insert(p) \/ Commit(p) \/ Listen(p)

Next ==
    \/ \E p \in Procs : Boot(p)
    \/ \E p \in Procs : EnsureTable(p)
    \/ \E p \in Procs : CreateTable(p)
    \/ \E p \in Procs : Check(p)
    \/ \E p \in Procs : Listen(p)
    \/ \E p \in Procs : RunSql(p)
    \/ \E p \in Procs : Insert(p)
    \/ \E p \in Procs : Commit(p)
    \/ \E p \in Procs : Crash(p)

Spec == Init /\ [][Next]_vars

=============================================================================
