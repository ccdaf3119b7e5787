--------------------------- MODULE GraphRunnerProofs ---------------------------
(***************************************************************************)
(* Proofs about GraphRunner, for every finite workflow and any number of   *)
(* tool calls and approvals: its types, what an approval and a cancel are  *)
(* good for, and that a run keeps RunSpec.                                 *)
(***************************************************************************)
EXTENDS GraphRunner, SequenceTheorems, FiniteSetTheorems, TLAPS

Logged == EventNames \X Nodes

Latest == IF approvals = <<>> THEN "none" ELSE approvals[Len(approvals)]

\* The status is a function of where the task stands.
StatusInv ==
  /\ pc = "waiting" => status = "awaiting_approval"
  /\ pc = "ended" => status \in Terminal
  /\ pc \notin {"waiting", "ended"} => status = "running"

\* What wakes a waiter is the answer its request has, or a cancel.
AnswerInv ==
  /\ pc = "waiting" =>
       /\ approvals # <<>>
       /\ result \in {"approved", "rejected"} => Latest = result
  /\ result = "cancelled" => cancelled

IInv == TypeOK /\ StatusInv /\ AnswerInv

-----------------------------------------------------------------------------
(* Types, and what the operators that end a step do *)

\* Ending the run adds one terminal event.
LEMMA EndDoes ==
  ASSUME NEW l \in Seq(Logged), NEW outcome \in Terminal, node \in Nodes, End(l, outcome)
  PROVE  /\ pc' = "ended" /\ status' = outcome
         /\ log' = Append(l, <<RunEvent[outcome], node>>)
         /\ log' \in Seq(Logged)
<1>1. <<RunEvent[outcome], node>> \in Logged
  BY DEF Logged, EventNames
<1> QED
  BY <1>1, AppendProperties DEF End

\* Going round the loop begins a node, unless the run is cancelled, or ends.
LEMMA LoopHeadDoes ==
  ASSUME TypeOK, NEW q \in Seq(Nodes), NEW seen \in SUBSET Nodes, NEW l \in Seq(Logged),
         LoopHead(q, seen, l)
  PROVE  /\ queue' \in Seq(Nodes) /\ visited' \subseteq Nodes /\ node' \in Nodes
         /\ log' \in Seq(Logged)
         /\ \/ pc' = "chat" /\ status' = status /\ ~cancelled
            \/ pc' = "ended" /\ status' \in Terminal /\ (status' = "cancelled" => cancelled)
         /\ cancelled => \E s \in Terminal : log' = Append(l, <<RunEvent[s], node>>)
<1>0. node \in Nodes /\ visited \subseteq Nodes /\ cancelled \in BOOLEAN
  BY DEF TypeOK
<1>1. CASE q # <<>> /\ cancelled /\ End(l, "cancelled") /\ queue' = q /\ UNCHANGED <<visited, node>>
  BY <1>0, <1>1, EndDoes DEF Terminal
<1>2. CASE End(l, "succeeded") /\ queue' = <<>> /\ UNCHANGED <<visited, node>>
  BY <1>0, <1>2, EndDoes DEF Terminal
<1>3. CASE /\ ~cancelled
           /\ \E i \in DOMAIN q :
                /\ queue' = SubSeq(q, i + 1, Len(q))
                /\ visited' = seen \cup {q[i]}
                /\ node' = q[i]
                /\ Begin(q[i], l)
  <2>1. PICK i \in DOMAIN q : /\ queue' = SubSeq(q, i + 1, Len(q))
                              /\ visited' = seen \cup {q[i]}
                              /\ node' = q[i]
                              /\ Begin(q[i], l)
    BY <1>3
  <2>2. i \in 1 .. Len(q) /\ Len(q) \in Nat /\ q[i] \in Nodes
    BY ElementOfSeq, LenProperties
  <2>3. queue' \in Seq(Nodes)
    BY <2>1, <2>2, SubSeqProperties
  <2> DEFINE started == Append(l, <<"run_step.started", q[i]>>)
  <2>4. started \in Seq(Logged)
    BY <2>2, AppendProperties DEF Logged, EventNames
  <2>5. CASE End(l, "failed")
    BY <1>0, <1>3, <2>1, <2>2, <2>3, <2>5, EndDoes DEF Terminal
  <2>6. CASE End(started, "failed")
    BY <1>0, <1>3, <2>1, <2>2, <2>3, <2>4, <2>6, EndDoes DEF Terminal
  <2>7. CASE pc' = "chat" /\ log' = started /\ UNCHANGED status
    BY <1>3, <2>1, <2>2, <2>3, <2>4, <2>7
  <2> QED
    BY <2>1, <2>5, <2>6, <2>7 DEF Begin
<1> QED
  BY <1>1, <1>2, <1>3 DEF LoopHead

\* The routes out of a node are sequences of nodes.
LEMMA RoutesType == TypeOK => Routes \subseteq Seq(Nodes)
<1> SUFFICES ASSUME TypeOK, NEW s \in Routes PROVE s \in Seq(Nodes)
  OBVIOUS
<1>1. PICK S \in SUBSET Nodes : s \in [1 .. Cardinality(S) -> S]
  BY DEF Routes
<1>2. Cardinality(S) \in Nat
  BY GraphRunnerAssumption, FS_Subset, FS_CardinalityType
<1> QED
  BY <1>1, <1>2, IsASeq

\* Finishing a node leaves nothing to call, and begins another or ends.
LEMMA FinishNodeDoes ==
  ASSUME TypeOK, FinishNode
  PROVE  /\ queue' \in Seq(Nodes) /\ visited' \subseteq Nodes /\ node' \in Nodes
         /\ calls' = 0 /\ log' \in Seq(Logged)
         /\ \/ pc' = "chat" /\ status' = status /\ ~cancelled
            \/ pc' = "ended" /\ status' \in Terminal /\ (status' = "cancelled" => cancelled)
         /\ cancelled => \E s \in Terminal :
              \/ log' = Append(log, <<RunEvent[s], node>>)
              \/ log' = Append(Append(log, <<"run_step.succeeded", node>>),
                               <<RunEvent[s], node>>)
<1>0. /\ node \in Nodes /\ visited \subseteq Nodes /\ queue \in Seq(Nodes)
      /\ log \in Seq(Logged)
  BY DEF TypeOK, Logged
<1>1. CASE End(log, "failed") /\ UNCHANGED <<queue, visited, node>>
  BY <1>0, <1>1, EndDoes DEF FinishNode, Terminal
<1>2. CASE \E next \in Routes :
             LoopHead(queue \o next, visited, Append(log, <<"run_step.succeeded", node>>))
  <2>1. PICK next \in Routes :
          LoopHead(queue \o next, visited, Append(log, <<"run_step.succeeded", node>>))
    BY <1>2
  <2>2. queue \o next \in Seq(Nodes)
    BY <1>0, RoutesType, ConcatProperties
  <2>3. Append(log, <<"run_step.succeeded", node>>) \in Seq(Logged)
    BY <1>0, AppendProperties DEF Logged, EventNames
  <2> QED
    BY <1>0, <2>1, <2>2, <2>3, LoopHeadDoes DEF FinishNode
<1> QED
  BY <1>1, <1>2 DEF FinishNode

-----------------------------------------------------------------------------
(* The invariant *)

\* start_run leaves the invariant.
LEMMA InitIInv == Init => IInv
<1> SUFFICES ASSUME Init PROVE IInv
  OBVIOUS
<1>1. TypeOK
  <2>1. queue \in Seq(Nodes)
    BY GraphRunnerAssumption DEF Init
  <2>2. approvals \in Seq({"pending", "approved", "rejected", "expired"})
    BY DEF Init
  <2>3. log \in Seq(EventNames \X Nodes)
    BY DEF Init
  <2>4. calls \in 0 .. MaxCalls /\ node \in Nodes /\ visited \subseteq Nodes
    BY GraphRunnerAssumption DEF Init
  <2>5. pc = "created" /\ status = "running" /\ result = "none"
    BY DEF Init
  <2>6. cancelled \in BOOLEAN /\ timedOut \in BOOLEAN
    BY DEF Init
  <2> QED
    BY <2>1, <2>2, <2>3, <2>4, <2>5, <2>6 DEF TypeOK
<1> QED
  BY <1>1 DEF Init, IInv, StatusInv, AnswerInv

\* What the actions of the task do to the variables the invariant is about.
LEMMA RunnerKeepsIInv ==
  ASSUME IInv, NEW l \in Seq(Logged), log' = l,
         UNCHANGED <<cancelled, approvals, timedOut>>,
         queue' \in Seq(Nodes), visited' \subseteq Nodes, node' \in Nodes,
         calls' \in 0 .. MaxCalls, result' = result,
         \/ pc' \in {"chat", "tool", "retry"} /\ status' = "running"
         \/ pc' = "ended" /\ status' \in Terminal
  PROVE  IInv'
<1>1. TypeOK'
  BY DEF IInv, TypeOK, Logged
<1>2. StatusInv' /\ AnswerInv'
  BY DEF IInv, StatusInv, AnswerInv
<1> QED
  BY <1>1, <1>2 DEF IInv

\* Two events at the end of the log.
LEMMA TwoLogged ==
  ASSUME NEW l \in Seq(Logged), NEW e \in EventNames, NEW f \in EventNames, NEW n \in Nodes
  PROVE  l \o << <<e, n>>, <<f, n>> >> \in Seq(Logged)
<1>1. << <<e, n>>, <<f, n>> >> \in Seq(Logged)
  BY DEF Logged
<1> QED
  BY <1>1, ConcatProperties

\* The latest of a sequence of requests, once one is added or its state is set.
LEMMA LatestOf ==
  ASSUME NEW S, NEW q \in Seq(S), NEW x \in S
  PROVE  /\ Append(q, x) \in Seq(S) /\ Append(q, x) # <<>>
         /\ Append(q, x)[Len(Append(q, x))] = x
         /\ q # <<>> => /\ [q EXCEPT ![Len(q)] = x] \in Seq(S)
                        /\ [q EXCEPT ![Len(q)] = x] # <<>>
                        /\ Len([q EXCEPT ![Len(q)] = x]) = Len(q)
                        /\ [q EXCEPT ![Len(q)] = x][Len(q)] = x
<1>1. Len(q) \in Nat /\ (q # <<>> => Len(q) \in DOMAIN q)
  BY LenProperties, EmptySeq
<1>2. /\ Append(q, x) \in Seq(S) /\ Append(q, x) # <<>>
      /\ Append(q, x)[Len(Append(q, x))] = x
  BY AppendProperties
<1>3. ASSUME q # <<>>
      PROVE  /\ [q EXCEPT ![Len(q)] = x] \in Seq(S)
             /\ [q EXCEPT ![Len(q)] = x] # <<>>
             /\ Len([q EXCEPT ![Len(q)] = x]) = Len(q)
             /\ [q EXCEPT ![Len(q)] = x][Len(q)] = x
  <2>1. [q EXCEPT ![Len(q)] = x] \in Seq(S) /\ Len([q EXCEPT ![Len(q)] = x]) = Len(q)
    BY <1>1, <1>3, ExceptSeq
  <2> QED
    BY <1>1, <1>3, <2>1, LenProperties, EmptySeq
<1> QED
  BY <1>2, <1>3

\* Every step keeps the invariant.
LEMMA StepIInv == IInv /\ [Next]_vars => IInv'
<1> SUFFICES ASSUME IInv, [Next]_vars PROVE IInv'
  OBVIOUS
<1> USE DEF loop, waiter
<1>t. /\ TypeOK /\ StatusInv /\ AnswerInv
      /\ node \in Nodes /\ queue \in Seq(Nodes) /\ visited \subseteq Nodes
      /\ log \in Seq(Logged) /\ calls \in 0 .. MaxCalls /\ MaxCalls \in Nat
  BY GraphRunnerAssumption DEF IInv, TypeOK, Logged
<1>0. CASE UNCHANGED vars
  BY <1>0 DEF vars, IInv, TypeOK, StatusInv, AnswerInv, Latest
<1>1. CASE RunTask
  <2>1. << <<"run.started", Entry>> >> \in Seq(Logged)
    BY GraphRunnerAssumption DEF Logged, EventNames
  <2> QED
    BY <1>1, <1>t, <2>1, LoopHeadDoes, RunnerKeepsIInv DEF RunTask, StatusInv
<1>2. CASE ChatFails
  BY <1>2, <1>t, EndDoes, RunnerKeepsIInv DEF ChatFails, Terminal
<1>3. CASE ChatReturns
  <2>1. CASE FinishNode /\ UNCHANGED <<cancelled, waiter>>
    BY <1>3, <1>t, <2>1, FinishNodeDoes, RunnerKeepsIInv DEF ChatReturns, StatusInv
  <2>2. CASE /\ calls' \in 1 .. MaxCalls /\ pc' = "tool"
             /\ UNCHANGED <<status, queue, visited, node, log, cancelled, waiter>>
    BY <1>3, <1>t, <2>2, RunnerKeepsIInv DEF ChatReturns, StatusInv
  <2> QED
    BY <1>3, <2>1, <2>2 DEF ChatReturns
<1>4. CASE ToolReturns
  <2>1. CASE FinishNode /\ UNCHANGED <<cancelled, waiter>>
    BY <1>4, <1>t, <2>1, FinishNodeDoes, RunnerKeepsIInv DEF ToolReturns, StatusInv
  <2>2. CASE /\ calls > 1 /\ calls' = calls - 1 /\ pc' = "tool"
             /\ UNCHANGED <<status, queue, visited, node, log, cancelled, waiter>>
    BY <1>4, <1>t, <2>2, RunnerKeepsIInv DEF ToolReturns, StatusInv
  <2> QED
    BY <1>4, <2>1, <2>2 DEF ToolReturns
<1>5. CASE ToolFails
  <2>1. Append(log, <<"run_step.failed", node>>) \in Seq(Logged)
    BY <1>t, AppendProperties DEF Logged, EventNames
  <2> QED
    BY <1>5, <1>t, <2>1, EndDoes, RunnerKeepsIInv DEF ToolFails, Terminal
<1>6. CASE ToolRaises
  BY <1>6, <1>t, EndDoes, RunnerKeepsIInv DEF ToolRaises, Terminal
<1>7. CASE Ask
  <2>1. log' \in Seq(Logged)
    BY <1>7, <1>t, TwoLogged DEF Ask, EventNames
  <2>2. TypeOK'
    BY <1>7, <1>t, <2>1, LatestOf DEF Ask, TypeOK, Logged
  <2>3. AnswerInv'
    BY <1>7, <1>t, LatestOf DEF Ask, TypeOK, AnswerInv
  <2> QED
    BY <1>7, <2>2, <2>3 DEF Ask, IInv, StatusInv
<1>8. CASE TimerFires
  BY <1>8, <1>t DEF TimerFires, IInv, TypeOK, StatusInv, AnswerInv, Latest
<1>9. CASE Expire
  <2>1. log \o << <<"approval.expired", node>>, <<"approval.expired", node>> >> \in Seq(Logged)
    BY <1>t, TwoLogged DEF EventNames
  <2>2. /\ pc' = "ended" /\ status' = "failed" /\ log' \in Seq(Logged)
        /\ UNCHANGED <<loop, cancelled, result, timedOut>>
    BY <1>9, <1>t, <2>1, EndDoes DEF Expire, Terminal
  <2>3. approvals' \in Seq({"pending", "approved", "rejected", "expired"})
    BY <1>9, <1>t, LatestOf DEF Expire, TypeOK, AnswerInv
  <2>4. TypeOK'
    BY <1>t, <2>2, <2>3 DEF TypeOK, Logged, Terminal
  <2> QED
    BY <2>2, <2>4 DEF IInv, StatusInv, AnswerInv, Terminal
<1>10. CASE Resume
  <2>1. Append(log, <<"approval.rejected", node>>) \in Seq(Logged)
    BY <1>t, AppendProperties DEF Logged, EventNames
  <2>2. Append(log, <<"approval.approved", node>>) \in Seq(Logged)
    BY <1>t, AppendProperties DEF Logged, EventNames
  <2>3. /\ log' \in Seq(Logged)
        /\ \/ pc' = "retry" /\ status' = "running"
           \/ pc' = "ended" /\ status' \in Terminal
    BY <1>10, <1>t, <2>1, <2>2, EndDoes DEF Resume, Terminal
  <2> QED
    BY <1>10, <1>t, <2>3, RunnerKeepsIInv DEF Resume
<1>11. CASE Decide
  <2>1. TypeOK'
    BY <1>11, <1>t, LatestOf DEF Decide, TypeOK
  <2>2. AnswerInv'
    BY <1>11, <1>t, LatestOf DEF Decide, TypeOK, AnswerInv, Latest
  <2> QED
    BY <1>11, <1>t, <2>1, <2>2 DEF Decide, IInv, StatusInv
<1>12. CASE Cancel
  BY <1>12, <1>t DEF Cancel, IInv, TypeOK, StatusInv, AnswerInv, Latest
<1> QED
  BY <1>0, <1>1, <1>2, <1>3, <1>4, <1>5, <1>6, <1>7, <1>8, <1>9, <1>10, <1>11, <1>12
     DEF Next, Runner

\* Every variable of GraphRunner keeps its type, for every workflow.
THEOREM TypeCorrect == Spec => []TypeOK
<1>1. IInv => TypeOK
  BY DEF IInv
<1> QED
  BY <1>1, InitIInv, StepIInv, PTL DEF Spec

-----------------------------------------------------------------------------
(* What an approval and a cancel are good for *)

\* The steps of the task that neither ask, wait nor resume.
Works == RunTask \/ ChatFails \/ ChatReturns \/ ToolReturns \/ ToolFails \/ ToolRaises

\* Such a step keeps the run running or ends it, as cancelled only if it is.
LEMMA WorksDoes ==
  ASSUME IInv, Works
  PROVE  /\ status = "running" /\ UNCHANGED <<cancelled, approvals, result, timedOut>>
         /\ \/ pc' \in {"chat", "tool"} /\ status' = status
            \/ pc' = "ended" /\ status' \in Terminal /\ (status' = "cancelled" => cancelled)
<1> USE DEF loop, waiter
<1>t. /\ TypeOK /\ node \in Nodes /\ queue \in Seq(Nodes)
      /\ visited \subseteq Nodes /\ log \in Seq(Logged)
  BY DEF IInv, TypeOK, Logged
<1>0. status = "running" /\ UNCHANGED <<cancelled, approvals, result, timedOut>>
  BY DEF Works, RunTask, ChatFails, ChatReturns, ToolReturns, ToolFails, ToolRaises,
         IInv, StatusInv
<1>1. CASE RunTask
  <2>1. << <<"run.started", Entry>> >> \in Seq(Logged)
    BY GraphRunnerAssumption DEF Logged, EventNames
  <2> QED
    BY <1>0, <1>1, <1>t, <2>1, LoopHeadDoes DEF RunTask
<1>2. CASE ChatFails \/ ToolRaises
  BY <1>0, <1>2, <1>t, EndDoes DEF ChatFails, ToolRaises, Terminal
<1>3. CASE FinishNode
  BY <1>0, <1>3, <1>t, FinishNodeDoes
<1>4. CASE pc' = "tool" /\ UNCHANGED status
  BY <1>0, <1>4
<1>5. CASE ToolFails
  <2>1. Append(log, <<"run_step.failed", node>>) \in Seq(Logged)
    BY <1>t, AppendProperties DEF Logged, EventNames
  <2> QED
    BY <1>0, <1>5, <1>t, <2>1, EndDoes DEF ToolFails, Terminal
<1> QED
  BY <1>1, <1>2, <1>3, <1>4, <1>5 DEF Works, ChatReturns, ToolReturns

\* However decide, cancel and the timer race, an asked call is invoked again
\* only for a run that is not cancelled and on an approval that stands.
THEOREM ResumedOnlyByApproval == Spec => ResumedByApproval
<1> DEFINE Step == pc' = "retry" /\ pc # "retry" =>
                     ~cancelled /\ approvals'[Len(approvals')] = "approved"
<1>1. IInv /\ [Next]_vars => [Step]_vars
  <2> SUFFICES ASSUME IInv, Next PROVE Step
    OBVIOUS
  <2>1. CASE Works
    BY <2>1, WorksDoes
  <2>2. CASE Resume
    BY <2>2 DEF Resume, waiter, IInv, AnswerInv, Latest, End
  <2>3. CASE Ask \/ TimerFires \/ Expire \/ Decide \/ Cancel
    BY <2>3 DEF Ask, TimerFires, Expire, Decide, Cancel, End
  <2> QED
    BY <2>1, <2>2, <2>3 DEF Next, Runner, Works
<1> QED
  BY <1>1, InitIInv, StepIInv, PTL DEF Spec, ResumedByApproval

\* The events m adds to l start no step.
Quiet(l, m) == \A i \in Len(l) + 1 .. Len(m) : m[i][1] # "run_step.started"

\* An event that starts no step keeps a log quiet.
LEMMA QuietAppend ==
  ASSUME NEW l \in Seq(Logged), NEW m \in Seq(Logged), Quiet(l, m),
         NEW e \in EventNames \ {"run_step.started"}, NEW n \in Nodes
  PROVE  Append(m, <<e, n>>) \in Seq(Logged) /\ Quiet(l, Append(m, <<e, n>>))
<1> DEFINE M == Append(m, <<e, n>>)
<1>1. <<e, n>> \in Logged
  BY DEF Logged
<1>2. /\ M \in Seq(Logged) /\ Len(M) = Len(m) + 1 /\ M[Len(m) + 1] = <<e, n>>
      /\ \A i \in 1 .. Len(m) : M[i] = m[i]
  BY <1>1, AppendProperties
<1>3. Len(l) \in Nat /\ Len(m) \in Nat
  BY LenProperties
<1> HIDE DEF M
<1>4. ASSUME NEW i \in Len(l) + 1 .. Len(M) PROVE M[i][1] # "run_step.started"
  <2>1. CASE i = Len(m) + 1
    BY <1>2, <2>1
  <2>2. CASE i \in 1 .. Len(m)
    BY <1>2, <1>3, <2>2 DEF Quiet
  <2> QED
    BY <1>2, <1>3, <2>1, <2>2
<1>5. Quiet(l, M)
  BY <1>4 DEF Quiet
<1> QED
  BY <1>2, <1>5 DEF M

\* Terminal events, and no others, are left to a cancelled run that goes on.
LEMMA WorksQuietly ==
  ASSUME IInv, Works, cancelled
  PROVE  Quiet(log, log')
<1> USE DEF loop, waiter
<1>t. /\ TypeOK /\ node \in Nodes /\ queue \in Seq(Nodes)
      /\ visited \in SUBSET Nodes /\ log \in Seq(Logged) /\ Len(log) \in Nat
  BY LenProperties DEF IInv, TypeOK, Logged
<1>q. Quiet(log, log)
  BY <1>t DEF Quiet
<1>e. \A s \in Terminal : RunEvent[s] \in EventNames \ {"run_step.started"}
  BY DEF EventNames, RunEvent, Terminal
<1>1. ASSUME NEW l \in Seq(Logged), Quiet(log, l), NEW s \in Terminal,
             log' = Append(l, <<RunEvent[s], node>>)
      PROVE  Quiet(log, log')
  BY <1>t, <1>e, <1>1, QuietAppend
<1>2. CASE RunTask
  <2> DEFINE started == << <<"run.started", Entry>> >>
  <2>1. started \in Seq(Logged) /\ Len(started) = 1 /\ started[1][1] = "run.started"
    BY GraphRunnerAssumption DEF Logged, EventNames
  <2>2. Quiet(log, started)
    BY <1>t, <2>1 DEF Quiet
  <2> HIDE DEF started
  <2>3. LoopHead(queue, visited, started)
    BY <1>2 DEF RunTask, started
  <2> QED
    BY <1>t, <1>1, <2>1, <2>2, <2>3, LoopHeadDoes
<1>3. CASE ChatFails \/ ToolRaises
  BY <1>3, <1>t, <1>q, <1>1 DEF ChatFails, ToolRaises, End, Terminal
<1>4. CASE FinishNode
  <2>1. /\ Append(log, <<"run_step.succeeded", node>>) \in Seq(Logged)
        /\ Quiet(log, Append(log, <<"run_step.succeeded", node>>))
    BY <1>t, <1>q, QuietAppend DEF EventNames
  <2> QED
    BY <1>4, <1>t, <1>q, <1>1, <2>1, FinishNodeDoes
<1>5. CASE UNCHANGED log
  BY <1>q, <1>5
<1>6. CASE ToolFails
  <2>1. /\ Append(log, <<"run_step.failed", node>>) \in Seq(Logged)
        /\ Quiet(log, Append(log, <<"run_step.failed", node>>))
    BY <1>t, <1>q, QuietAppend DEF EventNames
  <2> QED
    BY <1>6, <1>t, <1>1, <2>1 DEF ToolFails, End, Terminal
<1> QED
  BY <1>2, <1>3, <1>4, <1>5, <1>6 DEF Works, ChatReturns, ToolReturns

\* A cancelled run starts no further step, whatever it was at.
THEOREM CancelStopsSteps == Spec => NoStepAfterCancel
<1> DEFINE Step == cancelled /\ Len(log') > Len(log) =>
                     \A i \in Len(log) + 1 .. Len(log') : log'[i][1] # "run_step.started"
<1>1. IInv /\ [Next]_vars => [Step]_vars
  <2> SUFFICES ASSUME IInv, Next, cancelled PROVE Quiet(log, log')
    BY DEF Quiet
  <2> USE DEF loop, waiter
  <2>t. node \in Nodes /\ log \in Seq(Logged) /\ Len(log) \in Nat
    BY LenProperties DEF IInv, TypeOK, Logged
  <2>q. Quiet(log, log)
    BY <2>t DEF Quiet
  <2>1. CASE Works
    BY <2>1, WorksQuietly
  <2>2. CASE Resume
    BY <2>2, <2>t, <2>q, QuietAppend DEF Resume, End, RunEvent, Terminal, EventNames
  <2>3. CASE Ask
    <3>1. log' = Append(Append(log, <<"approval.requested", node>>),
                        <<"approval.requested", node>>)
      BY <2>3, <2>t DEF Ask
    <3>2. "approval.requested" \in EventNames \ {"run_step.started"}
      BY DEF EventNames
    <3> QED
      BY <2>t, <2>q, <3>1, <3>2, QuietAppend
  <2>4. CASE Expire
    <3>1. log' = Append(Append(Append(log, <<"approval.expired", node>>),
                               <<"approval.expired", node>>), <<"run.failed", node>>)
      <4>1. log \o << <<"approval.expired", node>>, <<"approval.expired", node>> >> =
              Append(Append(log, <<"approval.expired", node>>), <<"approval.expired", node>>)
        BY <2>t
      <4>2. log' = Append(log \o << <<"approval.expired", node>>, <<"approval.expired", node>> >>,
                          <<RunEvent["failed"], node>>)
        BY <2>4 DEF Expire, End
      <4>3. RunEvent["failed"] = "run.failed"
        BY DEF RunEvent
      <4> QED
        BY <4>1, <4>2, <4>3
    <3>2. {"approval.expired", "run.failed"} \subseteq EventNames \ {"run_step.started"}
      BY DEF EventNames, RunEvent, Terminal
    <3> QED
      BY <2>t, <2>q, <3>1, <3>2, QuietAppend
  <2>5. CASE TimerFires \/ Decide \/ Cancel
    BY <2>5, <2>q DEF TimerFires, Decide, Cancel
  <2> QED
    BY <2>1, <2>2, <2>3, <2>4, <2>5 DEF Next, Runner, Works
<1> QED
  BY <1>1, InitIInv, StepIInv, PTL DEF Spec, NoStepAfterCancel

-----------------------------------------------------------------------------
(* What the stream of a run tells *)

Started(l, i) == l[i][1] = "run_step.started"
Finished(l, i, upto) == \E k \in i .. upto : l[k] = <<"run_step.succeeded", l[i][2]>>

\* The steps that were started are of nodes in V, and serial.
Serial(l, V) ==
  /\ \A i \in 1 .. Len(l) : Started(l, i) => l[i][2] \in V
  /\ \A i, j \in 1 .. Len(l) :
       i < j /\ Started(l, i) /\ Started(l, j) => l[i][2] # l[j][2] /\ Finished(l, i, j)

\* Steps not finished are of the node n; there are none.
OpenAt(l, n) == \A i \in 1 .. Len(l) : Started(l, i) => l[i][2] = n \/ Finished(l, i, Len(l))
AllFinished(l) == \A i \in 1 .. Len(l) : Started(l, i) => Finished(l, i, Len(l))

EndEvents == {RunEvent[s] : s \in Terminal}
Unended(l) == \A i \in 1 .. Len(l) : l[i][1] \notin EndEvents
Asking(l) == l # <<>> /\ l[Len(l)][1] = "approval.requested"

StoryInv ==
  /\ Serial(log, visited)
  /\ pc # "ended" => OpenAt(log, node) /\ Unended(log) /\ (pc = "waiting" <=> Asking(log))
  /\ pc = "ended" => \E l \in Seq(Logged), n \in Nodes :
                        log = Append(l, <<RunEvent[status], n>>) /\ Unended(l)

\* What an event adds to a log.
LEMMA Appended ==
  ASSUME NEW l \in Seq(Logged), NEW e \in EventNames, NEW n \in Nodes
  PROVE  LET m == Append(l, <<e, n>>) IN
         /\ m \in Seq(Logged) /\ Len(l) \in Nat /\ Len(m) = Len(l) + 1
         /\ m[Len(l) + 1] = <<e, n>> /\ m # <<>>
         /\ \A i \in 1 .. Len(l) : m[i] = l[i]
<1>1. <<e, n>> \in Logged
  BY DEF Logged
<1>2. Len(l) \in Nat
  BY LenProperties
<1>3. Append(l, <<e, n>>) # <<>>
  BY <1>1, AppendProperties
<1> QED
  BY <1>1, <1>2, <1>3, AppendProperties

\* An event other than a start leaves the steps serial, and finishes its own if it
\* says so.
LEMMA OtherEvent ==
  ASSUME NEW l \in Seq(Logged), NEW V, Serial(l, V),
         NEW e \in EventNames \ {"run_step.started"}, NEW n \in Nodes
  PROVE  LET m == Append(l, <<e, n>>) IN
         /\ Serial(m, V)
         /\ \A x : OpenAt(l, x) => OpenAt(m, x)
         /\ OpenAt(l, n) /\ e = "run_step.succeeded" => AllFinished(m)
<1> DEFINE m == Append(l, <<e, n>>)
<1>1. /\ Len(l) \in Nat /\ Len(m) = Len(l) + 1 /\ m[Len(l) + 1] = <<e, n>>
      /\ \A i \in 1 .. Len(l) : m[i] = l[i]
  BY Appended
<1> HIDE DEF m
<1>2. ASSUME NEW i \in 1 .. Len(m), Started(m, i)
      PROVE  i \in 1 .. Len(l) /\ Started(l, i) /\ m[i] = l[i]
  BY <1>1, <1>2 DEF Started
<1>3. ASSUME NEW i \in 1 .. Len(l), NEW j \in 1 .. Len(l), Finished(l, i, j)
      PROVE  Finished(m, i, j) /\ Finished(m, i, Len(m))
  BY <1>1, <1>3 DEF Finished
<1>4. Serial(m, V)
  BY <1>2, <1>3 DEF Serial
<1>5. ASSUME NEW x, OpenAt(l, x) PROVE OpenAt(m, x)
  BY <1>1, <1>2, <1>3, <1>5 DEF OpenAt
<1>6. ASSUME OpenAt(l, n), e = "run_step.succeeded" PROVE AllFinished(m)
  <2> SUFFICES ASSUME NEW i \in 1 .. Len(m), Started(m, i) PROVE Finished(m, i, Len(m))
    BY DEF AllFinished
  <2>1. i \in 1 .. Len(l) /\ Started(l, i) /\ m[i] = l[i]
    BY <1>2
  <2>2. CASE l[i][2] = n
    BY <1>1, <1>6, <2>1, <2>2 DEF Finished
  <2>3. CASE Finished(l, i, Len(l))
    BY <1>1, <1>3, <2>1, <2>3
  <2> QED
    BY <1>6, <2>1, <2>2, <2>3 DEF OpenAt
<1> QED
  BY <1>4, <1>5, <1>6 DEF m

\* A start after the others have finished, of a node that was none of theirs.
LEMMA StartEvent ==
  ASSUME NEW l \in Seq(Logged), NEW V, Serial(l, V), AllFinished(l), NEW n \in Nodes \ V
  PROVE  LET m == Append(l, <<"run_step.started", n>>) IN
         Serial(m, V \cup {n}) /\ OpenAt(m, n)
<1> DEFINE m == Append(l, <<"run_step.started", n>>)
<1>0. "run_step.started" \in EventNames
  BY DEF EventNames
<1>1. /\ Len(l) \in Nat /\ Len(m) = Len(l) + 1 /\ m[Len(l) + 1] = <<"run_step.started", n>>
      /\ \A i \in 1 .. Len(l) : m[i] = l[i]
  BY <1>0, Appended
<1> HIDE DEF m
<1>2. ASSUME NEW i \in 1 .. Len(l), NEW j \in 1 .. Len(l), Finished(l, i, j)
      PROVE  Finished(m, i, j) /\ Finished(m, i, Len(m))
  <2>1. PICK k \in i .. j : l[k] = <<"run_step.succeeded", l[i][2]>>
    BY <1>2 DEF Finished
  <2>2. k \in 1 .. Len(l) /\ k \in i .. Len(m) /\ m[k] = l[k] /\ m[i] = l[i]
    BY <1>1, <2>1
  <2> QED
    BY <2>1, <2>2 DEF Finished
<1>3. ASSUME NEW i \in 1 .. Len(l), Started(m, i)
      PROVE  m[i] = l[i] /\ Started(l, i) /\ l[i][2] \in V /\ Finished(m, i, Len(m))
  <2>1. m[i] = l[i] /\ Started(l, i) /\ l[i][2] \in V
    BY <1>1, <1>3 DEF Serial, Started
  <2>2. Finished(l, i, Len(l)) /\ Len(l) \in 1 .. Len(l)
    BY <1>1, <2>1 DEF AllFinished
  <2> QED
    BY <1>2, <2>1, <2>2
<1>4. ASSUME NEW i \in 1 .. Len(m), NEW j \in 1 .. Len(m), i < j, Started(m, i), Started(m, j)
      PROVE  m[i][2] # m[j][2] /\ Finished(m, i, j)
  <2>1. i \in 1 .. Len(l)
    BY <1>1, <1>4
  <2>2. CASE j \in 1 .. Len(l)
    BY <1>2, <1>3, <1>4, <2>1, <2>2 DEF Serial
  <2>3. CASE j = Len(m)
    BY <1>1, <1>3, <1>4, <2>1, <2>3
  <2> QED
    BY <1>1, <2>2, <2>3
<1>5. \A i \in 1 .. Len(m) : Started(m, i) => m[i][2] \in V \cup {n}
  BY <1>1, <1>3
<1>6. OpenAt(m, n)
  BY <1>1, <1>3 DEF OpenAt
<1> QED
  BY <1>4, <1>5, <1>6 DEF m, Serial

\* An event that does not end the run, and is none that asks.
LEMMA GoesOn ==
  ASSUME NEW l \in Seq(Logged), Unended(l), NEW e \in EventNames \ EndEvents, NEW n \in Nodes
  PROVE  LET m == Append(l, <<e, n>>) IN
         Unended(m) /\ (Asking(m) <=> e = "approval.requested")
<1> DEFINE m == Append(l, <<e, n>>)
<1>1. /\ Len(l) \in Nat /\ Len(m) = Len(l) + 1 /\ m[Len(l) + 1] = <<e, n>> /\ m # <<>>
      /\ \A i \in 1 .. Len(l) : m[i] = l[i]
  BY Appended
<1> HIDE DEF m
<1> QED
  BY <1>1 DEF Unended, Asking, m

\* The run ends after what l tells.
LEMMA EndStory ==
  ASSUME node \in Nodes, NEW l \in Seq(Logged), Serial(l, visited'), Unended(l),
         NEW outcome \in Terminal, End(l, outcome)
  PROVE  StoryInv'
<1>1. RunEvent[outcome] \in EventNames \ {"run_step.started"}
  BY DEF EventNames, RunEvent, Terminal
<1>2. pc' = "ended" /\ log' = Append(l, <<RunEvent[status'], node>>)
  BY DEF End
<1>3. Serial(log', visited')
  BY <1>1, OtherEvent DEF End
<1> QED
  BY <1>2, <1>3 DEF StoryInv

\* The loop goes round after what l tells.
LEMMA LoopHeadStory ==
  ASSUME TypeOK, NEW q \in Seq(Nodes), NEW l \in Seq(Logged),
         Serial(l, visited), AllFinished(l), Unended(l), ~Asking(l),
         LoopHead(q, visited, l)
  PROVE  StoryInv'
<1>0. node \in Nodes /\ visited \subseteq Nodes
  BY DEF TypeOK
<1>1. CASE visited' = visited /\ \E outcome \in Terminal : End(l, outcome)
  BY <1>0, <1>1, EndStory
<1>2. CASE \E i \in DOMAIN q : /\ q[i] \notin visited
                              /\ visited' = visited \cup {q[i]}
                              /\ node' = q[i]
                              /\ Begin(q[i], l)
  <2>1. PICK n \in Nodes : n \notin visited /\ visited' = visited \cup {n} /\ node' = n /\ Begin(n, l)
    <3>1. \A i \in DOMAIN q : q[i] \in Nodes
      BY ElementOfSeq, LenProperties
    <3> QED
      BY <1>2, <3>1
  <2> DEFINE started == Append(l, <<"run_step.started", n>>)
  <2>2. "run_step.started" \in EventNames \ EndEvents
    BY DEF EventNames, EndEvents, RunEvent, Terminal
  <2>3. /\ started \in Seq(Logged) /\ Serial(started, visited') /\ OpenAt(started, n)
        /\ Unended(started) /\ ~Asking(started)
    BY <2>1, <2>2, Appended, StartEvent, GoesOn
  <2>4. Serial(l, visited')
    BY <2>1 DEF Serial
  <2>5. CASE End(l, "failed") \/ End(started, "failed")
    BY <1>0, <2>3, <2>4, <2>5, EndStory DEF Terminal
  <2>6. CASE pc' = "chat" /\ log' = started
    BY <2>1, <2>3, <2>6 DEF StoryInv
  <2> QED
    BY <2>1, <2>5, <2>6 DEF Begin
<1> QED
  BY <1>1, <1>2 DEF LoopHead, Terminal

\* A node is finished.
LEMMA FinishNodeStory ==
  ASSUME TypeOK, StoryInv, pc \notin {"waiting", "ended"}, FinishNode
  PROVE  StoryInv'
<1>0. /\ node \in Nodes /\ queue \in Seq(Nodes) /\ log \in Seq(Logged)
      /\ Serial(log, visited) /\ OpenAt(log, node) /\ Unended(log) /\ ~Asking(log)
  BY DEF TypeOK, StoryInv, Logged
<1>1. CASE End(log, "failed") /\ UNCHANGED <<queue, visited, node>>
  BY <1>0, <1>1, EndStory DEF Terminal
<1>2. CASE \E next \in Routes :
             LoopHead(queue \o next, visited, Append(log, <<"run_step.succeeded", node>>))
  <2>1. PICK next \in Routes :
          LoopHead(queue \o next, visited, Append(log, <<"run_step.succeeded", node>>))
    BY <1>2
  <2>2. queue \o next \in Seq(Nodes)
    BY <1>0, RoutesType, ConcatProperties
  <2>3. "run_step.succeeded" \in EventNames \ ({"run_step.started"} \cup EndEvents)
    BY DEF EventNames, EndEvents, RunEvent, Terminal
  <2> DEFINE l == Append(log, <<"run_step.succeeded", node>>)
  <2>4. l \in Seq(Logged) /\ Serial(l, visited) /\ AllFinished(l) /\ Unended(l) /\ ~Asking(l)
    BY <1>0, <2>3, Appended, OtherEvent, GoesOn
  <2> QED
    BY <2>1, <2>2, <2>4, LoopHeadStory
<1> QED
  BY <1>1, <1>2 DEF FinishNode

\* The run ends after one more event.
LEMMA LastWords ==
  ASSUME TypeOK, StoryInv, pc # "ended", UNCHANGED visited,
         NEW e \in EventNames \ ({"run_step.started"} \cup EndEvents), NEW outcome \in Terminal,
         End(Append(log, <<e, node>>), outcome)
  PROVE  StoryInv'
<1>1. node \in Nodes /\ log \in Seq(Logged) /\ Serial(log, visited) /\ Unended(log)
  BY DEF TypeOK, StoryInv, Logged
<1> DEFINE l == Append(log, <<e, node>>)
<1>2. l \in Seq(Logged) /\ Serial(l, visited) /\ Unended(l)
  BY <1>1, Appended, OtherEvent, GoesOn
<1> QED
  BY <1>1, <1>2, EndStory

\* Two events, one after the other.
LEMMA TwoEvents ==
  ASSUME NEW l \in Seq(Logged), NEW e, NEW f
  PROVE  l \o << e, f >> = Append(Append(l, e), f)
OBVIOUS

\* Every step keeps the story.
LEMMA StepStory == IInv /\ StoryInv /\ [Next]_vars => StoryInv'
<1> SUFFICES ASSUME IInv, StoryInv, [Next]_vars PROVE StoryInv'
  OBVIOUS
<1> USE DEF loop, waiter
<1>t. TypeOK /\ StatusInv /\ node \in Nodes /\ queue \in Seq(Nodes) /\ log \in Seq(Logged)
  BY DEF IInv, TypeOK, Logged
<1>e. {"run_step.failed", "approval.requested", "approval.approved", "approval.rejected",
       "approval.expired"} \subseteq EventNames \ ({"run_step.started"} \cup EndEvents)
  BY DEF EventNames, EndEvents, RunEvent, Terminal
<1>0. CASE UNCHANGED <<pc, status, visited, node, log>>
  BY <1>0 DEF StoryInv
<1>1. CASE RunTask
  <2> DEFINE l == << <<"run.started", Entry>> >>
  <2>1. l \in Seq(Logged) /\ Len(l) = 1 /\ l[1][1] = "run.started" /\ l # <<>>
    BY GraphRunnerAssumption DEF Logged, EventNames
  <2>2. LoopHead(queue, visited, l)
    BY <1>1 DEF RunTask
  <2> HIDE DEF l
  <2>3. "run.started" \notin EndEvents
    BY DEF EndEvents, RunEvent, Terminal
  <2>4. Serial(l, visited) /\ AllFinished(l) /\ Unended(l) /\ ~Asking(l)
    BY <2>1, <2>3 DEF Serial, AllFinished, Started, Unended, Asking
  <2> QED
    BY <1>t, <2>1, <2>2, <2>4, LoopHeadStory
<1>2. CASE ChatFails \/ ToolRaises
  <2>1. /\ End(log, "failed") /\ visited' = visited
        /\ Serial(log, visited) /\ Unended(log)
    BY <1>2 DEF ChatFails, ToolRaises, StoryInv
  <2> QED
    BY <1>t, <2>1, EndStory DEF Terminal
<1>3. CASE ChatReturns \/ ToolReturns
  <2>1. CASE FinishNode /\ pc \notin {"waiting", "ended"}
    BY <1>t, <2>1, FinishNodeStory
  <2>2. CASE pc \in {"chat", "tool", "retry"} /\ pc' = "tool"
             /\ UNCHANGED <<status, visited, node, log>>
    BY <2>2 DEF StoryInv
  <2> QED
    BY <1>3, <2>1, <2>2 DEF ChatReturns, ToolReturns
<1>4. CASE ToolFails
  BY <1>4, <1>t, <1>e, LastWords DEF ToolFails, Terminal
<1>5. CASE Ask
  <2> DEFINE l == Append(log, <<"approval.requested", node>>)
             m == Append(l, <<"approval.requested", node>>)
  <2>1. log' = m /\ pc' = "waiting" /\ pc = "tool" /\ UNCHANGED <<visited, node>>
    BY <1>5, <1>t, TwoEvents DEF Ask
  <2>2. l \in Seq(Logged) /\ Serial(l, visited) /\ OpenAt(l, node) /\ Unended(l)
    BY <1>t, <1>e, <2>1, Appended, OtherEvent, GoesOn DEF StoryInv
  <2> HIDE DEF l
  <2>3. Serial(m, visited) /\ OpenAt(m, node) /\ Unended(m) /\ Asking(m)
    BY <1>t, <1>e, <2>2, OtherEvent, GoesOn
  <2> QED
    BY <2>1, <2>3 DEF StoryInv
<1>6. CASE Expire
  <2> DEFINE l == Append(log, <<"approval.expired", node>>)
             m == Append(l, <<"approval.expired", node>>)
  <2>1. End(m, "failed") /\ pc = "waiting" /\ visited' = visited
    BY <1>6, <1>t, TwoEvents DEF Expire
  <2>2. l \in Seq(Logged) /\ Serial(l, visited) /\ Unended(l)
    BY <1>t, <1>e, <2>1, Appended, OtherEvent, GoesOn DEF StoryInv
  <2>3. m \in Seq(Logged) /\ Serial(m, visited) /\ Unended(m)
    BY <1>t, <1>e, <2>2, Appended, OtherEvent, GoesOn
  <2> HIDE DEF m
  <2> QED
    BY <1>t, <2>1, <2>3, EndStory DEF Terminal
<1>7. CASE Resume
  <2>0. pc = "waiting" /\ UNCHANGED <<visited, node>>
    BY <1>7 DEF Resume
  <2>1. CASE End(log, "cancelled")
    BY <1>t, <2>0, <2>1, EndStory DEF StoryInv, Terminal
  <2>2. CASE End(Append(log, <<"approval.rejected", node>>), "failed")
    BY <1>t, <1>e, <2>0, <2>2, LastWords DEF Terminal
  <2>3. CASE pc' = "retry" /\ log' = Append(log, <<"approval.approved", node>>)
    BY <1>t, <1>e, <2>0, <2>3, OtherEvent, GoesOn DEF StoryInv
  <2> QED
    BY <1>7, <2>1, <2>2, <2>3 DEF Resume
<1>8. CASE TimerFires \/ Decide \/ Cancel
  BY <1>0, <1>8 DEF TimerFires, Decide, Cancel
<1> QED
  BY <1>0, <1>1, <1>2, <1>3, <1>4, <1>5, <1>6, <1>7, <1>8 DEF Next, Runner, vars

LEMMA StoryInvariance == Spec => [](IInv /\ StoryInv)
<1>1. Init => StoryInv
  BY DEF Init, StoryInv, Serial, OpenAt, Unended, Asking
<1> QED
  BY <1>1, InitIInv, StepIInv, StepStory, PTL DEF Spec

\* In any workflow a step begins when the one before has succeeded, and no node is a
\* step twice, whatever its joins.
THEOREM SerialSteps == Spec => []StepsAreSerial
<1>1. IInv /\ StoryInv => StepsAreSerial
  <2> SUFFICES ASSUME IInv, StoryInv, NEW i \in DOMAIN log, NEW j \in DOMAIN log, i < j,
                      log[i][1] = "run_step.started", log[j][1] = "run_step.started"
               PROVE  /\ log[i][2] # log[j][2]
                      /\ \E k \in i .. j : log[k] = <<"run_step.succeeded", log[i][2]>>
    BY DEF StepsAreSerial
  <2>1. i \in 1 .. Len(log) /\ j \in 1 .. Len(log)
    BY LenProperties DEF IInv, TypeOK
  <2> QED
    BY <2>1 DEF StoryInv, Serial, Started, Finished
<1> QED
  BY <1>1, StoryInvariance, PTL

\* Who follows a run's stream and who polls its status learn the same, at every moment.
THEOREM StreamTells == Spec => []StreamTellsStatus
<1>1. IInv /\ StoryInv => StreamTellsStatus
  <2> SUFFICES ASSUME IInv, StoryInv PROVE StreamTellsStatus
    OBVIOUS
  <2>t. TypeOK /\ StatusInv /\ log \in Seq(Logged) /\ Len(log) \in Nat /\ DOMAIN log = 1 .. Len(log)
    BY LenProperties DEF IInv, TypeOK, Logged
  <2>s. "awaiting_approval" \notin Terminal /\ "running" \notin Terminal
    BY DEF Terminal
  <2>1. CASE pc # "ended"
    <3>1. Unended(log) /\ (status = "awaiting_approval" <=> Asking(log)) /\ status \notin Terminal
      BY <2>t, <2>s, <2>1 DEF StoryInv, StatusInv
    <3> QED
      BY <2>t, <3>1 DEF StreamTellsStatus, Unended, Asking, EndEvents
  <2>2. CASE pc = "ended"
    <3>1. status \in Terminal
      BY <2>t, <2>2 DEF StatusInv
    <3>2. PICK l \in Seq(Logged), n \in Nodes :
            log = Append(l, <<RunEvent[status], n>>) /\ Unended(l)
      BY <2>2 DEF StoryInv
    <3>3. RunEvent[status] \in EventNames /\ RunEvent[status] # "approval.requested"
      BY <3>1 DEF EventNames, RunEvent, Terminal
    <3>4. /\ Len(l) \in Nat /\ Len(log) = Len(l) + 1 /\ log # <<>>
          /\ log[Len(l) + 1] = <<RunEvent[status], n>>
          /\ \A i \in 1 .. Len(l) : log[i] = l[i]
      BY <3>2, <3>3, Appended
    <3>5. ASSUME NEW i \in DOMAIN log, log[i][1] \in EndEvents
          PROVE  i = Len(log) /\ log[i][1] = RunEvent[status]
      BY <2>t, <3>2, <3>4, <3>5 DEF Unended
    <3> QED
      BY <2>s, <3>1, <3>3, <3>4, <3>5 DEF StreamTellsStatus, EndEvents
  <2> QED
    BY <2>1, <2>2
<1> QED
  BY <1>1, StoryInvariance, PTL

-----------------------------------------------------------------------------
(* A run keeps RunSpec *)

\* A run starts as RunSpec does.
LEMMA InitKeeps == Init => Abstract!Init
BY DEF Init, Abstract!Init

\* Every step of a run is a step of RunSpec or one it does not see.
LEMMA StepKeeps == IInv /\ IInv' /\ [Next]_vars => [Abstract!Next]_(Abstract!vars)
<1> SUFFICES ASSUME IInv, IInv', [Next]_vars PROVE [Abstract!Next]_(Abstract!vars)
  OBVIOUS
<1> USE DEF loop, waiter, Latest
<1>t. TypeOK /\ StatusInv /\ AnswerInv
  BY DEF IInv
<1>0. CASE UNCHANGED vars
  BY <1>0 DEF vars, Abstract!vars
<1>1. CASE Works
  <2>1. \/ status' \in Terminal /\ (status' = "cancelled" => cancelled)
        \/ status' = status
    BY <1>1, WorksDoes
  <2> QED
    BY <1>1, <2>1, WorksDoes
       DEF Abstract!Next, Abstract!End, Abstract!vars, Terminal, Abstract!Terminal, Abstract!Live
<1>2. CASE Ask
  <2>0. approvals \in Seq({"pending", "approved", "rejected", "expired"})
    BY <1>t DEF TypeOK
  <2>2. approvals' # <<>> /\ approvals'[Len(approvals')] = "pending"
    <3>1. approvals' = Append(approvals, "pending")
      BY <1>2 DEF Ask
    <3>2. "pending" \in {"pending", "approved", "rejected", "expired"}
      OBVIOUS
    <3> HIDE DEF Latest
    <3> QED
      BY <2>0, <3>1, <3>2, LatestOf
  <2>1. status = "running" /\ status' = "awaiting_approval" /\ Latest' = "pending"
        /\ UNCHANGED cancelled
    BY <1>2, <1>t, <2>2 DEF Ask, StatusInv
  <2> QED
    BY <2>1 DEF Abstract!Next, Abstract!Ask
<1>3. CASE TimerFires
  BY <1>3 DEF TimerFires, Abstract!vars
<1>4. CASE Expire
  <2>1. status = "awaiting_approval" /\ status' = "failed" /\ Latest' = "expired"
        /\ UNCHANGED cancelled
    BY <1>4, <1>t, LatestOf DEF Expire, StatusInv, AnswerInv, TypeOK, End
  <2> QED
    BY <2>1 DEF Abstract!Next, Abstract!Expire
<1>5. CASE Resume
  <2>1. CASE result = "approved" /\ ~cancelled /\ status' = "running"
    BY <1>5, <1>t, <2>1
       DEF Resume, StatusInv, AnswerInv, Abstract!Next, Abstract!Pass
  <2>2. CASE \/ status' = "cancelled" /\ (result = "cancelled" \/ cancelled)
             \/ status' = "failed"
    <3>1. status = "awaiting_approval" /\ UNCHANGED <<approvals, cancelled>>
      BY <1>5, <1>t DEF Resume, StatusInv
    <3>2. status' = "cancelled" => cancelled
      BY <1>t, <2>2 DEF AnswerInv
    <3> QED
      BY <2>2, <3>1, <3>2 DEF Abstract!Next, Abstract!End, Abstract!Live, Abstract!Terminal
  <2> QED
    BY <1>5, <2>1, <2>2 DEF Resume, End
<1>6. CASE Decide
  <2>1. Latest = "pending" /\ Latest' \in {"approved", "rejected"}
        /\ UNCHANGED <<status, cancelled>>
    BY <1>6, <1>t, LatestOf DEF Decide, TypeOK
  <2> QED
    BY <2>1 DEF Abstract!Next, Abstract!Answer
<1>7. CASE Cancel
  BY <1>7, <1>t DEF Cancel, TypeOK, Terminal, Abstract!Next, Abstract!Cancel, Abstract!Live
<1> QED
  BY <1>0, <1>1, <1>2, <1>3, <1>4, <1>5, <1>6, <1>7 DEF Next, Runner, Works

\* Whoever polls a run's status and answers its requests sees RunSpec.
THEOREM RefinesRunSpec == Spec => KeepsRunSpec
<1> QED
  BY InitIInv, StepIInv, InitKeeps, StepKeeps, PTL DEF Spec, KeepsRunSpec, Abstract!Spec

=============================================================================
