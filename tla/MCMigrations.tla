----------------------------- MODULE MCMigrations -----------------------------
(* Instances of MigrationsProps for TLC. *)
EXTENDS MigrationsProps

CONSTANTS p1, p2, p3

ThreeProcs == {p1, p2, p3}
SecondFile == {2}

=============================================================================
