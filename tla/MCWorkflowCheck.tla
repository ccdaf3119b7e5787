----------------------------- MODULE MCWorkflowCheck -----------------------------
(***************************************************************************)
(* The documents of WorkflowCheck's run: three nodes with every list of up *)
(* to four edges among them, and malformed documents of each kind.         *)
(***************************************************************************)
EXTENDS WorkflowCheck

Good == {"a", "b", "c"}
Known == Good \cup {"ghost"}

ListsOver(S, k) == UNION {[1 .. n -> S] : n \in 0 .. k}

MCNodeLists == {<<"a", "b", "c">>, <<"a", "b", "a">>, <<>>}

\* Up to four edges between three nodes, up to two that may be loops or lead to
\* a node that does not exist.
MCEdgeLists ==
  ListsOver({e \in Good \X Good : e[1] # e[2]}, 4) \cup ListsOver(Known \X Known, 2)

MCEntries == {"a", "ghost"}

=============================================================================
