-------------------------------- MODULE RunSpec --------------------------------
(***************************************************************************)
(* What a run promises whoever polls its status and answers its approval   *)
(* requests: it leaves awaiting_approval for running only by an approval   *)
(* that still stands and only while it is not cancelled, an answer is      *)
(* given once and only to a pending request, and an ended run stays ended. *)
(***************************************************************************)

VARIABLES
  status,     \* snapshot["status"] of the run
  answer,     \* state of its latest approval request
  cancelled   \* the user has cancelled the run

vars == <<status, answer, cancelled>>

Terminal == {"succeeded", "failed", "cancelled"}
Live     == {"running", "awaiting_approval"}

Init == status = "running" /\ answer = "none" /\ cancelled = FALSE

Ask ==
  /\ status = "running"
  /\ status' = "awaiting_approval"
  /\ answer' = "pending"
  /\ UNCHANGED cancelled

\* Nothing ties the answer to the status: the user may answer late.
Answer ==
  /\ answer = "pending"
  /\ answer' \in {"approved", "rejected"}
  /\ UNCHANGED <<status, cancelled>>

Pass ==
  /\ status = "awaiting_approval"
  /\ answer = "approved"
  /\ ~cancelled
  /\ status' = "running"
  /\ UNCHANGED <<answer, cancelled>>

\* A request that expires takes its run with it, answered or not.
Expire ==
  /\ status = "awaiting_approval"
  /\ status' = "failed"
  /\ answer' = "expired"
  /\ UNCHANGED cancelled

Cancel ==
  /\ status \in Live
  /\ cancelled' = TRUE
  /\ UNCHANGED <<status, answer>>

\* A run succeeds only from running, and is cancelled only by the user.
End ==
  /\ status \in Live
  /\ status' \in Terminal
  /\ status' = "succeeded" => status = "running"
  /\ status' = "cancelled" => cancelled
  /\ UNCHANGED <<answer, cancelled>>

Next == Ask \/ Answer \/ Pass \/ Expire \/ Cancel \/ End

Spec == Init /\ [][Next]_vars

=============================================================================
