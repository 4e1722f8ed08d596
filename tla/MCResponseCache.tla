-------------------------- MODULE MCResponseCache --------------------------
(* Instances of ResponseCacheProps for TLC. *)
EXTENDS ResponseCacheProps, TLC

CONSTANTS a, b, q1, q2

TwoKeys == {a, b}
TwoRequests == {q1, q2}
RequestSymmetry == Permutations(TwoRequests)

=============================================================================
