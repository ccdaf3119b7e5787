----------------------------- MODULE MCEditorStore -----------------------------
(***************************************************************************)
(* The instance of EditorStore's run.  The text a user types has two nodes *)
(* and an edge, and starts at the second.                                  *)
(***************************************************************************)
EXTENDS EditorStore

MCTexts ==
  {[nodes |-> <<[id |-> 1, data |-> "a"], [id |-> 2, data |-> "a"]>>,
    edges |-> <<[from |-> 2, to |-> 1]>>,
    entry |-> 2]}

=============================================================================
