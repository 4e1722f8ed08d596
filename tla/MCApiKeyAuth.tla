---------------------------- MODULE MCApiKeyAuth ----------------------------
(* Instances of ApiKeyAuthProps for TLC. *)
EXTENDS ApiKeyAuthProps, TLC

CONSTANTS r1, r2

TwoRequests == {r1, r2}
RequestSymmetry == Permutations(TwoRequests)

=============================================================================
