-------------------------- MODULE MCUpstreamHistory --------------------------
(* Instances of UpstreamHistory for TLC. *)
EXTENDS MCUpstream, UpstreamHistory

=============================================================================
