---------------------------- MODULE MCPulseRelay ----------------------------
(* PulseRelay with three submissions and batches of two.                   *)
EXTENDS PulseRelay

CONSTANTS r1, r2, r3

=============================================================================
