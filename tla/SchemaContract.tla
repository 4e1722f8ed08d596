--------------------------- MODULE SchemaContract ---------------------------
(***************************************************************************)
(* What runMigrations promises of the database, without the processes'     *)
(* checks, transactions, races and crashes: the files take effect one at a *)
(* time, in their order, each once and for good, and a process comes to    *)
(* serve only when the last of them has.                                   *)
(***************************************************************************)
EXTENDS Integers

CONSTANTS Procs, NFiles

VARIABLES
    applied,    \* the files that are recorded
    effects,    \* how often each has taken effect
    serving     \* the processes that serve

svars == <<applied, effects, serving>>

Init ==
    /\ applied = {} /\ serving = {}
    /\ effects = [f \in 1 .. NFiles |-> 0]

Upgrade(f) ==
    /\ applied = 1 .. f - 1
    /\ applied' = 1 .. f
    /\ effects' = [effects EXCEPT ![f] = 1]
    /\ UNCHANGED serving

Serve(p) ==
    /\ applied = 1 .. NFiles
    /\ serving' = serving \cup {p}
    /\ UNCHANGED <<applied, effects>>

Stop(p) ==
    /\ serving' = serving \ {p}
    /\ UNCHANGED <<applied, effects>>

Next ==
    \/ \E f \in 1 .. NFiles : Upgrade(f)
    \/ \E p \in Procs : Serve(p) \/ Stop(p)

Spec == Init /\ [][Next]_svars

=============================================================================
