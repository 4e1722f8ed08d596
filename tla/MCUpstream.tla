----------------------------- MODULE MCUpstream -----------------------------
(* Instances of UpstreamProps for TLC. *)
EXTENDS UpstreamProps

CONSTANTS c1, c2

MCClients == {c1, c2}

OwnUrls == [t \in Target |-> t]

AllRetryable == [c \in Clients |-> "retryable"]
\* A handshake takes the same steps as a streamed call.
MixedKinds == [c \in Clients |-> IF c = c1 THEN "retryable" ELSE "streamed"]

=============================================================================
