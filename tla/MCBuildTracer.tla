---------------------------- MODULE MCBuildTracer ----------------------------
(***************************************************************************)
(* A small instance of BuildTracer for TLC.  Bounds: the pids, which also   *)
(* bound the processes alive at once, and MaxLines.                        *)
(***************************************************************************)
EXTENDS BuildTracer, TLC

CONSTANTS root, child, grandchild

MCPids == {root, child, grandchild}

\* Pids other than the root's are interchangeable.
MCSymmetry == Permutations(MCPids \ {root})
=============================================================================
