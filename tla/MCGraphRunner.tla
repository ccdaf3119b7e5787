----------------------------- MODULE MCGraphRunner -----------------------------
(***************************************************************************)
(* A workflow with a join whose two paths differ in length, so that a node *)
(* is queued twice and a join is reached before one of its predecessors.   *)
(***************************************************************************)
EXTENDS GraphRunner

CONSTANTS a, b, c, d

MCNodes == {a, b, c, d}
MCEdges == {<<a, b>>, <<a, c>>, <<b, c>>, <<b, d>>, <<c, d>>}

=============================================================================
