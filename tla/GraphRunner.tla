------------------------------ MODULE GraphRunner ------------------------------
(***************************************************************************)
(* One run of a workflow: GraphRunner's loop over the DAG, the approval    *)
(* waiter start_run installs in it, and the decide and cancel handlers     *)
(* that race with both.                                                    *)
(*                                                                         *)
(* Everything runs in one event loop, so what lies between two awaits that *)
(* suspend is one action.  The run's task suspends in chat, in invoke and  *)
(* in wait_for only: neither the event bus, whose lock is never held over  *)
(* an await, nor the status sink of the HTTP layer ever suspends it.       *)
(* Messages, tool results and the conditions on the edges are abstracted   *)
(* to the choices they lead to.                                            *)
(***************************************************************************)
EXTENDS Integers, Sequences, FiniteSets

CONSTANTS
  Nodes,     \* the workflow's nodes
  Entry,     \* its entrypoint
  Edges,     \* its edges, pairs of nodes
  MaxCalls,  \* bound: tool calls in one answer of the model
  MaxAsks    \* bound: calls of the run that need an approval

ASSUME GraphRunnerAssumption ==
  /\ Entry \in Nodes
  /\ Edges \subseteq Nodes \X Nodes
  /\ IsFiniteSet(Nodes)
  /\ MaxCalls \in Nat
  /\ MaxAsks \in Nat

VARIABLES
  pc,         \* what the run's task waits for
  status,     \* handle.snapshot["status"]
  queue,      \* nodes to visit
  visited,
  node,       \* the node being executed
  calls,      \* its tool calls not finished yet
  cancelled,  \* the run's cancellation is set
  approvals,  \* states of the run's approval requests, oldest first
  result,     \* approval_results of the latest: what woke its waiter
  timedOut,   \* the latest waiter's timer has fired
  log         \* events on the bus, each with its node

vars == <<pc, status, queue, visited, node, calls, cancelled, approvals, result,
          timedOut, log>>
loop == <<queue, visited, node, calls>>
waiter == <<approvals, result, timedOut>>

Terminal == {"succeeded", "failed", "cancelled"}

RunEvent == [succeeded |-> "run.succeeded", failed |-> "run.failed",
             cancelled |-> "run.cancelled"]

EventNames ==
  {"run.started", "run_step.started", "run_step.succeeded", "run_step.failed",
   "approval.requested", "approval.approved", "approval.rejected", "approval.expired"}
    \cup {RunEvent[s] : s \in Terminal}

-----------------------------------------------------------------------------

\* start_run has registered the handle, created the task and set the snapshot.
Init ==
  /\ pc = "created"
  /\ status = "running"
  /\ queue = <<Entry>>
  /\ visited = {}
  /\ node = Entry
  /\ calls = 0
  /\ cancelled = FALSE
  /\ approvals = <<>>
  /\ result = "none"
  /\ timedOut = FALSE
  /\ log = <<>>

\* The run ends: terminal event, status, close_run; l is what was emitted so far.
End(l, outcome) ==
  /\ pc' = "ended"
  /\ status' = outcome
  /\ log' = Append(l, <<RunEvent[outcome], node>>)

\* A node is taken from the queue.  Its role or its profile may be gone from
\* the registries; else the task awaits the model's answer.
Begin(n, l) ==
  LET started == Append(l, <<"run_step.started", n>>) IN
  \/ End(l, "failed")
  \/ End(started, "failed")
  \/ pc' = "chat" /\ log' = started /\ UNCHANGED status

\* Slips: a node is executed again when it is queued again; only the first
\* round of the loop looks at the cancellation.
LoopHeadRevisits(q, seen, l) ==
  IF q = <<>>
  THEN End(l, "succeeded") /\ queue' = q /\ UNCHANGED <<visited, node>>
  ELSE IF cancelled
  THEN End(l, "cancelled") /\ queue' = q /\ UNCHANGED <<visited, node>>
  ELSE /\ queue' = Tail(q)
       /\ visited' = seen \cup {Head(q)}
       /\ node' = Head(q)
       /\ Begin(Head(q), l)

LoopHeadUnchecked(q, seen, l) ==
  IF \A i \in DOMAIN q : q[i] \in seen
  THEN End(l, "succeeded") /\ queue' = <<>> /\ UNCHANGED <<visited, node>>
  ELSE \E i \in DOMAIN q :
         /\ q[i] \notin seen
         /\ \A j \in 1 .. i - 1 : q[j] \in seen
         /\ queue' = SubSeq(q, i + 1, Len(q))
         /\ visited' = seen \cup {q[i]}
         /\ node' = q[i]
         /\ Begin(q[i], l)

\* while queue: a cancelled run goes no further, nodes already visited are
\* skipped, the first other one begins.
LoopHead(q, seen, l) ==
  \/ /\ q # <<>> /\ cancelled
     /\ End(l, "cancelled")
     /\ queue' = q
     /\ UNCHANGED <<visited, node>>
  \/ /\ q = <<>> \/ ~cancelled
     /\ \A i \in DOMAIN q : q[i] \in seen
     /\ End(l, "succeeded")
     /\ queue' = <<>>
     /\ UNCHANGED <<visited, node>>
  \/ /\ ~cancelled
     /\ \E i \in DOMAIN q :
          /\ q[i] \notin seen
          /\ \A j \in 1 .. i - 1 : q[j] \in seen
          /\ queue' = SubSeq(q, i + 1, Len(q))
          /\ visited' = seen \cup {q[i]}
          /\ node' = q[i]
          /\ Begin(q[i], l)

\* The task's first step.
RunTask ==
  /\ pc = "created"
  /\ LoopHead(queue, visited, <<<<"run.started", Entry>>>>)
  /\ UNCHANGED <<calls, cancelled, waiter>>

\* The targets of the node's edges whose conditions hold, visited ones left
\* out, in the order of the workflow's edges, which is left open.
Routes ==
  LET Targets == {n \in Nodes \ visited : <<node, n>> \in Edges} IN
  UNION {{s \in [1 .. Cardinality(S) -> S] :
            \A i, j \in DOMAIN s : i # j => s[i] # s[j]} : S \in SUBSET Targets}

\* The node's calls are done: route, announce, go round the loop; a condition
\* that cannot be evaluated ends the run.
FinishNode ==
  /\ \/ End(log, "failed") /\ UNCHANGED <<queue, visited, node>>
     \/ \E next \in Routes :
          LoopHead(queue \o next, visited, Append(log, <<"run_step.succeeded", node>>))
  /\ calls' = 0

\* chat raises, or asks for a tool that is not the role's.
ChatFails ==
  /\ pc = "chat"
  /\ End(log, "failed")
  /\ UNCHANGED <<loop, cancelled, waiter>>

\* chat returns without tool calls, or with some: the first is invoked.
ChatReturns ==
  /\ pc = "chat"
  /\ \/ FinishNode
     \/ /\ calls' \in 1 .. MaxCalls
        /\ pc' = "tool"
        /\ UNCHANGED <<status, queue, visited, node, log>>
  /\ UNCHANGED <<cancelled, waiter>>

\* invoke, or invoke after an approval, returns: the next call is invoked,
\* after the last the node is finished.
ToolReturns ==
  /\ pc \in {"tool", "retry"}
  /\ IF calls > 1
     THEN /\ calls' = calls - 1
          /\ pc' = "tool"
          /\ UNCHANGED <<status, queue, visited, node, log>>
     ELSE FinishNode
  /\ UNCHANGED <<cancelled, waiter>>

\* The tool reports a failure: the step is failed, then the run.
ToolFails ==
  /\ pc \in {"tool", "retry"}
  /\ End(Append(log, <<"run_step.failed", node>>), "failed")
  /\ UNCHANGED <<loop, cancelled, waiter>>

\* invoke raises, be it for a denial, a lost record or a cancelled tool; or the
\* next call is for a tool that is not the role's.
ToolRaises ==
  /\ pc \in {"tool", "retry"}
  /\ End(log, "failed")
  /\ UNCHANGED <<loop, cancelled, waiter>>

\* invoke returns approval_pending.  The run does not look at its cancellation
\* before it waits.
Ask ==
  /\ pc = "tool"
  /\ Len(approvals) < MaxAsks
  /\ pc' = "waiting"
  /\ status' = "awaiting_approval"
  /\ approvals' = Append(approvals, "pending")
  /\ result' = "none"
  /\ timedOut' = FALSE
  /\ log' = log \o <<<<"approval.requested", node>>, <<"approval.requested", node>>>>
  /\ UNCHANGED <<loop, cancelled>>

\* Slip: the wait has no timeout.
TimerNeverFires == FALSE /\ pc = "waiting"

\* ttl_seconds pass.
TimerFires ==
  /\ pc = "waiting"
  /\ ~timedOut
  /\ timedOut' = TRUE
  /\ UNCHANGED <<pc, status, loop, cancelled, approvals, result, log>>

\* The waiter wakes by its timer: TimeoutError even if an answer has come since
\* it fired, or came just before.
Expire ==
  /\ pc = "waiting"
  /\ timedOut
  /\ approvals' = [approvals EXCEPT ![Len(approvals)] = "expired"]
  /\ End(log \o <<<<"approval.expired", node>>, <<"approval.expired", node>>>>, "failed")
  /\ UNCHANGED <<loop, cancelled, result, timedOut>>

\* Slips: the runner trusts the waiter and does not look at the cancellation;
\* it does not set the status back.
ResumeUnchecked ==
  /\ pc = "waiting"
  /\ result # "none"
  /\ \/ /\ result = "cancelled"
        /\ End(log, "cancelled")
     \/ /\ result = "rejected"
        /\ End(Append(log, <<"approval.rejected", node>>), "failed")
     \/ /\ result = "approved"
        /\ pc' = "retry"
        /\ status' = "running"
        /\ log' = Append(log, <<"approval.approved", node>>)
  /\ UNCHANGED <<loop, cancelled, waiter>>

ResumeKeepsAwaiting ==
  /\ pc = "waiting"
  /\ result # "none"
  /\ \/ /\ result = "cancelled" \/ cancelled
        /\ End(log, "cancelled")
     \/ /\ result = "rejected" /\ ~cancelled
        /\ End(Append(log, <<"approval.rejected", node>>), "failed")
     \/ /\ result = "approved" /\ ~cancelled
        /\ pc' = "retry"
        /\ UNCHANGED status
        /\ log' = Append(log, <<"approval.approved", node>>)
  /\ UNCHANGED <<loop, cancelled, waiter>>

\* The waiter wakes by its event; before Python 3.12 the answer may win over a
\* timer that has fired.
Resume ==
  /\ pc = "waiting"
  /\ result # "none"
  /\ \/ /\ result = "cancelled" \/ cancelled
        /\ End(log, "cancelled")
     \/ /\ result = "rejected" /\ ~cancelled
        /\ End(Append(log, <<"approval.rejected", node>>), "failed")
     \/ /\ result = "approved" /\ ~cancelled
        /\ pc' = "retry"
        /\ status' = "running"
        /\ log' = Append(log, <<"approval.approved", node>>)
  /\ UNCHANGED <<loop, cancelled, waiter>>

\* Slip: any request can be decided, decided and expired ones too.
DecideAny ==
  /\ approvals # <<>>
  /\ result' \in {"approved", "rejected"}
  /\ approvals' = [approvals EXCEPT ![Len(approvals)] = result']
  /\ UNCHANGED <<pc, status, loop, cancelled, timedOut, log>>

\* POST /approvals/{id}/decide, 409 unless the request is pending; the run need
\* not be waiting any more.
Decide ==
  /\ approvals # <<>>
  /\ approvals[Len(approvals)] = "pending"
  /\ result' \in {"approved", "rejected"}
  /\ approvals' = [approvals EXCEPT ![Len(approvals)] = result']
  /\ UNCHANGED <<pc, status, loop, cancelled, timedOut, log>>

\* POST /runs/{id}/cancel, 409 once the run has ended: the cancellation is set
\* and a waiter woken.
Cancel ==
  /\ status \notin Terminal
  /\ cancelled' = TRUE
  /\ result' = IF pc = "waiting" THEN "cancelled" ELSE result
  /\ UNCHANGED <<pc, status, loop, approvals, timedOut, log>>

Runner ==
  \/ RunTask \/ ChatFails \/ ChatReturns \/ ToolReturns \/ ToolFails \/ ToolRaises
  \/ Ask \/ TimerFires \/ Expire \/ Resume

Next == Runner \/ Decide \/ Cancel

Spec == Init /\ [][Next]_vars

\* The event loop runs the task, the timer fires, chat has its HTTP timeout and
\* invoke ends whatever its tool does (ToolRuntime); users owe nothing.
FairSpec == Spec /\ WF_vars(Runner)

-----------------------------------------------------------------------------

TypeOK ==
  /\ pc \in {"created", "chat", "tool", "waiting", "retry", "ended"}
  /\ status \in {"running", "awaiting_approval"} \cup Terminal
  /\ queue \in Seq(Nodes)
  /\ visited \subseteq Nodes
  /\ node \in Nodes
  /\ calls \in 0 .. MaxCalls
  /\ cancelled \in BOOLEAN
  /\ approvals \in Seq({"pending", "approved", "rejected", "expired"})
  /\ result \in {"none", "approved", "rejected", "cancelled"}
  /\ timedOut \in BOOLEAN
  /\ log \in Seq(EventNames \X Nodes)

(***************************************************************************)
(* Steps are serial and a node is a step at most once, however many edges  *)
(* lead to it: between the starts of two steps the first has succeeded.    *)
(***************************************************************************)
StepsAreSerial ==
  \A i, j \in DOMAIN log :
    /\ i < j
    /\ log[i][1] = "run_step.started"
    /\ log[j][1] = "run_step.started"
    => /\ log[i][2] # log[j][2]
       /\ \E k \in i .. j : log[k] = <<"run_step.succeeded", log[i][2]>>

(***************************************************************************)
(* The stream and the snapshot tell the same story: exactly one terminal   *)
(* event, the last on the bus, of the kind the snapshot shows; a run that  *)
(* awaits an approval is the one whose request is the last thing it said.  *)
(***************************************************************************)
StreamTellsStatus ==
  /\ \A i \in DOMAIN log :
       log[i][1] \in {RunEvent[s] : s \in Terminal} =>
         i = Len(log) /\ status \in Terminal /\ log[i][1] = RunEvent[status]
  /\ status \in Terminal => log[Len(log)][1] = RunEvent[status]
  /\ status = "awaiting_approval" <=>
       log # <<>> /\ log[Len(log)][1] = "approval.requested"

\* However decide, cancel and the timer race, an asked call is invoked again
\* only for a run that is not cancelled and on an approval that stands.
ResumedByApproval ==
  [][pc' = "retry" /\ pc # "retry" =>
       ~cancelled /\ approvals'[Len(approvals')] = "approved"]_vars

\* A cancelled run starts no further step.
NoStepAfterCancel ==
  [][cancelled /\ Len(log') > Len(log) =>
       \A i \in Len(log) + 1 .. Len(log') : log'[i][1] # "run_step.started"]_vars

\* Whatever the model, the tools and the user do, or fail to do, the run ends.
RunEnds == <>(pc = "ended")

\* Seen through its status and its latest request, a run keeps RunSpec.
Abstract == INSTANCE RunSpec
  WITH answer <- IF approvals = <<>> THEN "none" ELSE approvals[Len(approvals)]

KeepsRunSpec == Abstract!Spec

-----------------------------------------------------------------------------
(* What the documents promise and the code does not do. *)

\* approvals.py:38: only pending can transition.
OnlyPendingTransitions ==
  [][\A i \in DOMAIN approvals : approvals[i] # "pending" => approvals'[i] = approvals[i]]_vars

=============================================================================
