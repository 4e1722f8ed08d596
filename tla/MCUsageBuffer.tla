---------------------------- MODULE MCUsageBuffer ----------------------------
(* Instances of UsageBufferProps for TLC. *)
EXTENDS UsageBufferProps

CONSTANTS r1, r2, r3, r4, r5

FiveRecords == {r1, r2, r3, r4, r5}

=============================================================================
