---------------------------- MODULE MCPtyBridge ----------------------------
(* PtyBridge for TLC: pids are interchangeable, and so are the starts.       *)
EXTENDS PtyBridge, TLC

Symmetry == Permutations(Socats) \cup Permutations(Starts)

=============================================================================
