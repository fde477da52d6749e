------------------------------- MODULE MCLock ------------------------------
(* Instances of Lock for TLC. *)
EXTENDS Lock, TLC

CONSTANTS c1, c2, c3

MCCommands == {c1, c2, c3}
MCProcesses == MCCommands \union {Listener}
MCPair == {c1, c2}
MCPairProcesses == MCPair \union {Listener}

MCSymmetry == Permutations(MCCommands)
=============================================================================
