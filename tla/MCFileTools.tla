----------------------------- MODULE MCFileTools -----------------------------
\* FileTools with two calls of one run and one of another that only writes.  The
\* thread of the first may outlive it: in the one instance it moves and deletes,
\* in the other it writes, as do the others, each of a run of its own.  The paths
\* are interchangeable.
EXTENDS FileTools, TLC

CONSTANTS c1, c2, c3, p1, p2, p3

MCRunOf == (c1 :> 1) @@ (c2 :> 1) @@ (c3 :> 2)

MCToolsOf == (c1 :> {"move", "delete"}) @@ (c2 :> {"write", "move"}) @@ (c3 :> {"write"})

Uses(c) == {req[c].path, req[c].src}

\* Two paths, or three if all three calls leave or take something at the same.
MCInit ==
  /\ Init
  /\ \/ req[c1].path = req[c2].path /\ req[c3].path = req[c2].path
     \/ \E p \in Paths : files[p] = None /\ p \notin Uses(c1) \cup Uses(c2) \cup Uses(c3)

MCSpec == MCInit /\ [][Next]_vars

Symmetry == Permutations(Paths)

OwnRuns == (c1 :> 1) @@ (c2 :> 2) @@ (c3 :> 3)

LateWriter == [c \in {c1, c2, c3} |-> {"write"}]

=============================================================================
