---------------------------- MODULE MCRateLimit ----------------------------
(* Instances of RateLimitProps for TLC. *)
EXTENDS RateLimitProps, TLC

CONSTANTS g1, g2

TwoInstances == {g1, g2}
Interchangeable == Permutations(TwoInstances)

MixedCosts == {1, 2}

=============================================================================
