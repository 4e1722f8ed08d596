--------------------------- MODULE MigrationsProofs ---------------------------
(***************************************************************************)
(* Proofs about Migrations: for any number of processes and files, and     *)
(* with crashes and restarts anywhere.                                     *)
(***************************************************************************)
EXTENDS MigrationsProps, TLAPS

-----------------------------------------------------------------------------
(* The inductive invariant.  Postgres' key on _migrations is what it turns *)
(* on: whoever is about to commit a file is the only one, and the file is  *)
(* not recorded; whoever is past a file has seen it recorded.              *)

Upto(n) == 1 .. n - 1

Committing(p) == pc[p] = "commit"

OnlyOne ==
    \A p \in Procs : Committing(p) =>
        /\ at[p] \notin applied
        /\ \A q \in Procs : Committing(q) /\ at[q] = at[p] => q = p

Passed ==
    \A p \in Procs :
        /\ pc[p] # "down" => Upto(at[p]) \subseteq applied
        /\ pc[p] \in {"sql", "insert", "commit"} => at[p] \in File
        /\ pc[p] = "serving" => at[p] = NFiles + 1

Inv == TypeOK /\ AppliedOnce /\ AppliedInOrder /\ OnlyOne /\ Passed

LEMMA FileFacts ==
    /\ File \subseteq Nat /\ 1 \in 1 .. NFiles + 1 /\ Upto(1) = {}
    /\ \A n \in 1 .. NFiles + 1 : n # NFiles + 1 => n \in File
    /\ \A n \in File : n + 1 \in 1 .. NFiles + 1 /\ Upto(n + 1) = Upto(n) \cup {n}
                       /\ 1 .. n = Upto(n) \cup {n}
    /\ Upto(NFiles + 1) = File
BY MigrationsAssumption DEF File, Upto

LEMMA InitInv == Init => Inv
<1> SUFFICES ASSUME Init PROVE Inv
  OBVIOUS
<1>1. TypeOK
  <2>1. 0 \in 0 .. MaxCrashes /\ 0 \in Nat
    BY MigrationsAssumption
  <2> QED
    BY <2>1, FileFacts DEF Init, TypeOK
<1> QED
  BY <1>1 DEF Init, Inv, AppliedOnce, AppliedInOrder, OnlyOne, Passed, Committing

\* A step that only moves one process, and commits nothing.
LEMMA MoveInv ==
    ASSUME Inv, NEW p \in Procs, UNCHANGED <<applied, effects>>,
           table' \in BOOLEAN, crashes' \in 0 .. MaxCrashes,
           NEW where \in {"down", "boot", "create", "check", "sql", "insert", "commit", "serving"},
           NEW n \in 1 .. NFiles + 1,
           pc' = [pc EXCEPT ![p] = where], at' = [at EXCEPT ![p] = n],
           where # "down" => Upto(n) \subseteq applied,
           where \in {"sql", "insert", "commit"} => n \in File,
           where = "serving" => n = NFiles + 1,
           where = "commit" => n \notin applied
                               /\ \A q \in Procs \ {p} : ~(Committing(q) /\ at[q] = n)
    PROVE  Inv'
<1>1. TypeOK'
  BY DEF Inv, TypeOK
<1>2. AppliedOnce' /\ AppliedInOrder'
  BY DEF Inv, AppliedOnce, AppliedInOrder
<1>3. /\ pc'[p] = where /\ at'[p] = n
      /\ \A q \in Procs \ {p} : pc'[q] = pc[q] /\ at'[q] = at[q]
  BY DEF Inv, TypeOK
<1>4. OnlyOne'
  BY <1>3 DEF Inv, OnlyOne, Committing
<1>5. Passed'
  BY <1>3 DEF Inv, Passed
<1> QED
  BY <1>1, <1>2, <1>4, <1>5 DEF Inv

LEMMA CommitInv ==
    ASSUME Inv, NEW p \in Procs, Commit(p)
    PROVE  Inv'
<1> DEFINE f == at[p]
<1>1. /\ pc[p] = "commit" /\ f \in File /\ f \notin applied /\ Upto(f) \subseteq applied
      /\ \A q \in Procs \ {p} : ~(Committing(q) /\ at[q] = f)
  BY DEF Commit, Inv, OnlyOne, Passed, Committing
<1>2. /\ applied' = applied \cup {f}
      /\ effects' = [effects EXCEPT ![f] = @ + 1]
      /\ at' = [at EXCEPT ![p] = f + 1]
      /\ pc' = [pc EXCEPT ![p] = "check"]
      /\ UNCHANGED <<table, crashes>>
  BY DEF Commit, Go
<1>3. f + 1 \in 1 .. NFiles + 1 /\ Upto(f + 1) = Upto(f) \cup {f} /\ 1 .. f = Upto(f) \cup {f}
  BY <1>1, FileFacts
<1>4. effects[f] = 0 /\ effects' \in [File -> Nat]
  BY <1>1, <1>2 DEF Inv, TypeOK, AppliedOnce
<1>5. TypeOK'
  BY <1>1, <1>2, <1>3, <1>4 DEF Inv, TypeOK
<1>6. AppliedOnce'
  BY <1>1, <1>2, <1>4 DEF Inv, TypeOK, AppliedOnce
<1>7. AppliedInOrder'
  BY <1>1, <1>2, <1>3 DEF Inv, AppliedInOrder
<1>8. /\ pc'[p] = "check" /\ at'[p] = f + 1
      /\ \A q \in Procs \ {p} : pc'[q] = pc[q] /\ at'[q] = at[q]
  BY <1>2 DEF Inv, TypeOK
<1>9. OnlyOne'
  BY <1>1, <1>2, <1>8 DEF Inv, OnlyOne, Committing
<1>10. Passed'
  BY <1>1, <1>2, <1>3, <1>8 DEF Inv, Passed
<1> QED
  BY <1>5, <1>6, <1>7, <1>9, <1>10 DEF Inv

LEMMA NextInv == Inv /\ [Next]_vars => Inv'
<1> SUFFICES ASSUME Inv, [Next]_vars PROVE Inv'
  OBVIOUS
<1> USE DEF Go
<1>1. ASSUME NEW p \in Procs PROVE at[p] \in 1 .. NFiles + 1 /\ at = [at EXCEPT ![p] = at[p]]
  BY DEF Inv, TypeOK
<1>2. table \in BOOLEAN /\ crashes \in 0 .. MaxCrashes
  BY DEF Inv, TypeOK
<1>3. ASSUME NEW p \in Procs, Boot(p) PROVE Inv'
  BY <1>2, <1>3, FileFacts, MoveInv DEF Boot
<1>4. ASSUME NEW p \in Procs, EnsureTable(p) \/ CreateTable(p) PROVE Inv'
  <2>1. pc[p] # "down" /\ Upto(at[p]) \subseteq applied
    BY <1>4 DEF EnsureTable, CreateTable, Inv, Passed
  <2>2. PICK where \in {"down", "create", "check"} : pc' = [pc EXCEPT ![p] = where]
    BY <1>4 DEF EnsureTable, CreateTable
  <2>3. UNCHANGED <<applied, effects, at, crashes>> /\ table' \in BOOLEAN
    BY <1>2, <1>4 DEF EnsureTable, CreateTable
  <2> QED
    BY <1>1, <1>2, <2>1, <2>2, <2>3, MoveInv
<1>5. ASSUME NEW p \in Procs, Check(p) PROVE Inv'
  <2>1. pc[p] = "check" /\ at[p] \in File /\ Upto(at[p]) \subseteq applied
    BY <1>1, <1>5, MigrationsAssumption DEF Check, Inv, Passed, File
  <2>2. CASE at[p] \in applied
    <3>1. at[p] + 1 \in 1 .. NFiles + 1 /\ Upto(at[p] + 1) \subseteq applied
      <4>1. PICK f \in File : f = at[p]
        BY <2>1
      <4>2. f + 1 \in 1 .. NFiles + 1 /\ Upto(f + 1) = Upto(f) \cup {f}
        BY FileFacts
      <4> QED
        BY <2>1, <2>2, <4>1, <4>2
    <3>2. pc' = [pc EXCEPT ![p] = "check"] /\ at' = [at EXCEPT ![p] = at[p] + 1]
      BY <1>5, <2>1, <2>2 DEF Check, Inv, TypeOK
    <3>3. UNCHANGED <<table, applied, effects, crashes>>
      BY <1>5 DEF Check
    <3> QED
      BY <1>2, <2>1, <3>1, <3>2, <3>3, MoveInv
  <2>3. CASE at[p] \notin applied
    BY <1>1, <1>2, <1>5, <2>1, <2>3, MoveInv DEF Check
  <2> QED
    BY <2>2, <2>3
<1>6. ASSUME NEW p \in Procs, Listen(p) PROVE Inv'
  <2>1. pc[p] = "check" /\ at[p] = NFiles + 1 /\ Upto(at[p]) \subseteq applied
    BY <1>1, <1>6, MigrationsAssumption DEF Listen, Inv, Passed
  <2> QED
    BY <1>1, <1>2, <1>6, <2>1, MoveInv DEF Listen
<1>7. ASSUME NEW p \in Procs, RunSql(p) PROVE Inv'
  <2>1. pc[p] = "sql" /\ at[p] \in File /\ Upto(at[p]) \subseteq applied
    BY <1>7 DEF RunSql, Inv, Passed
  <2>2. PICK where \in {"down", "insert"} : pc' = [pc EXCEPT ![p] = where]
    BY <1>7 DEF RunSql
  <2> QED
    BY <1>1, <1>2, <1>7, <2>1, <2>2, MoveInv DEF RunSql
<1>8. ASSUME NEW p \in Procs, Insert(p) PROVE Inv'
  <2>1. /\ pc[p] = "insert" /\ at[p] \in File /\ Upto(at[p]) \subseteq applied
        /\ \A q \in Procs \ {p} : ~(Committing(q) /\ at[q] = at[p])
    BY <1>8 DEF Insert, Inv, Passed, Committing
  <2>2. CASE at[p] \in applied
    BY <1>1, <1>2, <1>8, <2>1, <2>2, MoveInv DEF Insert
  <2>3. CASE at[p] \notin applied
    BY <1>1, <1>2, <1>8, <2>1, <2>3, MoveInv DEF Insert
  <2> QED
    BY <2>2, <2>3
<1>9. ASSUME NEW p \in Procs, Crash(p) PROVE Inv'
  <2>1. crashes' \in 0 .. MaxCrashes
    BY <1>2, <1>9, MigrationsAssumption DEF Crash
  <2> QED
    BY <1>1, <1>2, <1>9, <2>1, MoveInv DEF Crash
<1>10. CASE UNCHANGED vars
  BY <1>10 DEF vars, Inv, TypeOK, AppliedOnce, AppliedInOrder, OnlyOne, Passed, Committing
<1> QED
  BY <1>3, <1>4, <1>5, <1>6, <1>7, <1>8, <1>9, <1>10, CommitInv DEF Next

\* The invariant from which the theorems about files and servers follow.
THEOREM Invariance == Spec => []Inv
<1>1. Init => Inv
  BY InitInv
<1>2. Inv /\ [Next]_vars => Inv'
  BY NextInv
<1> QED
  BY <1>1, <1>2, PTL DEF Spec

-----------------------------------------------------------------------------
(* Theorems *)

\* The state of the booting processes and of the database is well typed.
THEOREM TypeCorrect == Spec => []TypeOK
BY Invariance, PTL DEF Inv

\* A file has taken effect exactly if it is recorded, and once, however many
\* processes migrate at once and wherever they die.
THEOREM FilesApplyOnce == Spec => []AppliedOnce
BY Invariance, PTL DEF Inv

\* No file takes effect before the ones sorted before it.
THEOREM FilesApplyInOrder == Spec => []AppliedInOrder
BY Invariance, PTL DEF Inv

\* A gateway that serves has the whole schema.
THEOREM ServersAreMigrated == Spec => []ServesMigrated
<1>1. Inv => ServesMigrated
  BY FileFacts DEF Inv, TypeOK, Passed, ServesMigrated
<1> QED
  BY <1>1, Invariance, PTL

-----------------------------------------------------------------------------
(* Refinement *)

Serving == {p \in Procs : pc[p] = "serving"}

\* A step that moves one process and leaves the database alone is a start, a
\* stop, or nothing that the contract knows of.
LEMMA MoveKeeps ==
    ASSUME Inv, NEW p \in Procs, UNCHANGED <<applied, effects>>,
           \A q \in Procs \ {p} : pc'[q] = pc[q],
           pc'[p] = "serving" => pc[p] = "serving" \/ applied = 1 .. NFiles
    PROVE  [Contract!Next]_(Contract!svars)
<1>1. Serving' \in {Serving, Serving \cup {p}, Serving \ {p}}
  BY DEF Serving
<1>2. CASE Serving' = Serving
  BY <1>2 DEF Contract!svars, Serving
<1>3. CASE pc'[p] = "serving" /\ pc[p] # "serving"
  <2>1. Serving' = Serving \cup {p}
    BY <1>3 DEF Serving
  <2>2. Contract!Serve(p)
    BY <1>3, <2>1 DEF Contract!Serve, Serving
  <2> QED
    BY <2>2 DEF Contract!Next
<1>4. CASE pc'[p] # "serving" /\ pc[p] = "serving"
  <2>1. Serving' = Serving \ {p}
    BY <1>4 DEF Serving
  <2>2. Contract!Stop(p)
    BY <2>1 DEF Contract!Stop, Serving
  <2> QED
    BY <2>2 DEF Contract!Next
<1> QED
  BY <1>2, <1>3, <1>4 DEF Serving

LEMMA CommitKeeps ==
    ASSUME Inv, NEW p \in Procs, Commit(p)
    PROVE  [Contract!Next]_(Contract!svars)
<1> DEFINE f == at[p]
<1>1. /\ pc[p] = "commit" /\ f \in 1 .. NFiles /\ f \notin applied /\ Upto(f) \subseteq applied
  BY DEF Commit, Inv, OnlyOne, Passed, Committing, File
<1>2. /\ applied' = applied \cup {f}
      /\ effects' = [effects EXCEPT ![f] = @ + 1]
      /\ pc' = [pc EXCEPT ![p] = "check"]
  BY DEF Commit, Go
<1>3. applied = 1 .. f - 1
  <2>1. ASSUME NEW g \in applied PROVE g \in 1 .. f - 1
    <3>1. g \in 1 .. NFiles /\ 1 .. g \subseteq applied
      BY DEF Inv, TypeOK, AppliedInOrder, File
    <3>2. f \notin 1 .. g
      BY <1>1, <3>1
    <3> QED
      BY <1>1, <3>1, <3>2, MigrationsAssumption
  <2> QED
    BY <1>1, <2>1 DEF Upto
<1>4. applied' = 1 .. f
  BY <1>1, <1>2, <1>3, MigrationsAssumption
<1>5. effects' = [effects EXCEPT ![f] = 1]
  <2>1. effects[f] = 0
    BY <1>1 DEF Inv, AppliedOnce, File
  <2> QED
    BY <1>2, <2>1
<1>6. Serving' = Serving
  BY <1>1, <1>2 DEF Serving, Inv, TypeOK
<1>7. Contract!Upgrade(f)
  BY <1>3, <1>4, <1>5, <1>6 DEF Contract!Upgrade, Serving
<1> QED
  BY <1>1, <1>7 DEF Contract!Next

\* Any number of processes that migrate at once, lose races, roll back and die
\* implement the one that applies the files in order.
THEOREM SchemaKept == Spec => KeepsSchema
<1>1. Init => Contract!Init
  BY DEF Init, Contract!Init, File
<1>2. Inv /\ [Next]_vars => [Contract!Next]_(Contract!svars)
  <2> SUFFICES ASSUME Inv, [Next]_vars PROVE [Contract!Next]_(Contract!svars)
    OBVIOUS
  <2>0. pc \in [Procs -> {"down", "boot", "create", "check", "sql", "insert", "commit", "serving"}]
    BY DEF Inv, TypeOK
  <2>1. ASSUME NEW p \in Procs,
               \/ Boot(p) \/ EnsureTable(p) \/ CreateTable(p) \/ Check(p)
               \/ RunSql(p) \/ Insert(p) \/ Crash(p)
        PROVE  [Contract!Next]_(Contract!svars)
    <3>1. UNCHANGED <<applied, effects>>
      BY <2>1 DEF Boot, EnsureTable, CreateTable, Check, RunSql, Insert, Crash
    <3>2. /\ \A q \in Procs \ {p} : pc'[q] = pc[q]
          /\ pc'[p] = "serving" => pc[p] = "serving"
      BY <2>0, <2>1 DEF Boot, EnsureTable, CreateTable, Check, RunSql, Insert, Crash, Go
    <3> QED
      BY <3>1, <3>2, MoveKeeps
  <2>2. ASSUME NEW p \in Procs, Listen(p) PROVE [Contract!Next]_(Contract!svars)
    <3>1. at[p] = NFiles + 1 /\ Upto(at[p]) \subseteq applied
      BY <2>2, MigrationsAssumption DEF Listen, Inv, Passed, TypeOK
    <3>2. applied = 1 .. NFiles
      BY <3>1, FileFacts DEF Inv, TypeOK, File
    <3>3. UNCHANGED <<applied, effects>> /\ \A q \in Procs \ {p} : pc'[q] = pc[q]
      BY <2>0, <2>2 DEF Listen, Go
    <3> QED
      BY <3>2, <3>3, MoveKeeps
  <2>3. CASE UNCHANGED vars
    BY <2>3 DEF vars, Contract!svars
  <2> QED
    BY <2>1, <2>2, <2>3, CommitKeeps DEF Next
<1> QED
  BY <1>1, <1>2, Invariance, PTL DEF Spec, KeepsSchema, Contract!Spec

=============================================================================
