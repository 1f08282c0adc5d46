--------------------------- MODULE MCPulseProtocol --------------------------
(* Two employees, one of them on the roster for the batch; three tokens.   *)
EXTENDS PulseProtocol, TLC

CONSTANTS ann, bob, b1

Roster == {<<ann, b1>>}

(* Bound of the run: a batch ends or the process restarts, not both.       *)
OneEnding == closed = {} \/ boot = 1

Symmetric == Permutations(Tokens) \cup Permutations(Handlers)

=============================================================================
