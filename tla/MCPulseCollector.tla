-------------------------- MODULE MCPulseCollector --------------------------
(* PulseCollector with interchangeable tokens and handlers.                *)
EXTENDS PulseCollector, TLC

CONSTANTS t1, t2, h1, h2

Symmetry == Permutations({t1, t2}) \cup Permutations({h1, h2})

=============================================================================
