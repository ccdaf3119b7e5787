--------------------------- MODULE ToolRuntimeProofs ---------------------------
(***************************************************************************)
(* Proofs about ToolRuntime, for every set of calls, tools, targets and    *)
(* faults.  The inductive invariant says, for each call, what its record,  *)
(* its log lines and its effect look like at each point of invoke.         *)
(***************************************************************************)
EXTENDS ToolRuntime, SequenceTheorems, TLAPS

RunVerdicts == {"succeeded", "run_failed", "run_cancelled"}

Allowed(c) ==
  /\ effect[c] = "allow" \/ (effect[c] = "ask" /\ req[c].override)
  /\ ~req[c].dryRun
  /\ req[c].tool \notin DryByDefault

\* Which verdict may be pending where, and that only allowed calls get to run.
PhaseInv(c) ==
  /\ pc[c] \in {"idle", "dry", "journal", "run", "running"} => verdict[c] = "none"
  /\ pc[c] = "preview" => verdict[c] = "asked"
  /\ pc[c] = "insert" =>
       verdict[c] \in {"none", "denied", "asked", "dry", "dry_failed", "blocked"}
  /\ pc[c] \in {"audit", "mirror", "link", "commit", "emit"} =>
       verdict[c] \in Verdicts \ {"none", "invalid"}
  /\ pc[c] = "fallback" => verdict[c] = "blocked"
  /\ pc[c] = "done" => verdict[c] # "none"
  /\ pc[c] \in {"aborted", "crashed"} => verdict[c] # "invalid"
  /\ pc[c] = "dry" => Decision(c) \in {"allow", "dry_run_only"}
  /\ \/ pc[c] \in {"journal", "run", "running"}
     \/ pc[c] = "insert" /\ verdict[c] = "none"
     \/ verdict[c] \in RunVerdicts
     => Allowed(c)

\* The rows of the open transaction at each point.
TxnInv(c) ==
  /\ txn[c].row <=> pc[c] \in {"journal", "run", "running", "audit", "mirror", "link", "commit"}
  /\ ~txn[c].row => txn[c] = NoRows
  /\ txn[c].audit = IF pc[c] \in {"mirror", "link", "commit"}
                    THEN AuditStatus(verdict[c]) ELSE "none"
  /\ txn[c].linked <=> pc[c] = "commit"
  /\ pc[c] = "journal" => req[c].tool \in Reversible /\ txn[c].before = None
  /\ pc[c] \in {"run", "running"} => (txn[c].before # None <=> req[c].tool \in Reversible)
  /\ pc[c] \in {"audit", "mirror", "link", "commit"} =>
       (txn[c].before # None <=> req[c].tool \in Reversible /\ verdict[c] \in RunVerdicts)
  /\ txn[c].before \in {None, snapshot[c]}

\* The committed rows.
StoredInv(c) ==
  /\ ~stored[c].row => stored[c] = NoRows
  /\ stored[c].row =>
       /\ pc[c] \in {"emit", "done", "aborted", "crashed"}
       /\ stored[c].linked
       /\ stored[c].audit = AuditStatus(verdict[c])
       /\ stored[c].before # None <=> req[c].tool \in Reversible /\ verdict[c] \in RunVerdicts
       /\ stored[c].before \in {None, snapshot[c]}
  /\ pc[c] \in {"emit", "done"} => verdict[c] \in {"invalid", "blocked"} \/ stored[c].row

\* The lines in the file, and the events.
OutputInv(c) ==
  /\ mirror[c] # <<>> =>
       pc[c] \in {"link", "commit", "fallback", "emit", "done", "aborted", "crashed"}
  /\ pc[c] \in {"link", "commit"} \/ stored[c].row => mirror[c] # <<>>
  /\ \A i \in DOMAIN mirror[c] : mirror[c][i] = AuditStatus(verdict[c])
  /\ events[c] # <<>> => pc[c] = "done" /\ events[c][Len(events[c])] = EventOf(verdict[c])

\* The effect, and the content the dry run saw.
EffectInv(c) ==
  /\ landed[c] # None \/ c \in inflight =>
       pc[c] \in {"running", "crashed"} \/ verdict[c] \in RunVerdicts
  /\ landed[c] # None \/ c \in inflight => Allowed(c)
  /\ c \in inflight => landed[c] = None
  /\ snapshot[c] <= version[req[c].target]
  /\ landed[c] # None => snapshot[c] <= landed[c]

CallInv(c) == PhaseInv(c) /\ TxnInv(c) /\ StoredInv(c) /\ OutputInv(c) /\ EffectInv(c)

IInv == TypeOK /\ \A c \in Calls : CallInv(c)

-----------------------------------------------------------------------------

\* Every verdict has an audit status and an event.
LEMMA StatusType ==
  ASSUME NEW v \in Verdicts
  PROVE  AuditStatus(v) \in Statuses /\ EventOf(v) \in EventNames
BY DEF Verdicts, AuditStatus, EventOf, Statuses, EventNames

\* Writing one column of a row leaves a row.
LEMMA RowUpdate ==
  ASSUME NEW r \in Rows
  PROVE  /\ [r EXCEPT !.row = TRUE] \in Rows
         /\ [r EXCEPT !.linked = TRUE] \in Rows
         /\ \A s \in Statuses : [r EXCEPT !.audit = s] \in Rows
         /\ \A n \in Nat \cup {None} : [r EXCEPT !.before = n] \in Rows
BY DEF Rows

\* A transaction that wrote nothing holds rows of no content.
LEMMA NoRowsType == NoRows \in Rows
BY DEF NoRows, Rows, None

\* The events of an allowed call.
LEMMA EventsType ==
  ASSUME NEW v \in Verdicts, NEW b \in BOOLEAN
  PROVE  (IF b THEN <<"policy.downgraded_by_approval">> ELSE <<>>) \o <<EventOf(v)>>
           \in Seq(EventNames)
<1>1. EventOf(v) \in EventNames
  BY StatusType
<1>2. <<EventOf(v)>> \in Seq(EventNames)
  BY <1>1
<1>3. "policy.downgraded_by_approval" \in EventNames
  BY DEF EventNames
<1>4. (IF b THEN <<"policy.downgraded_by_approval">> ELSE <<>>) \in Seq(EventNames)
  BY <1>3
<1> QED
  BY <1>2, <1>4, ConcatProperties

\* Type correctness: every step keeps each variable in its set.
LEMMA TypeStep == TypeOK /\ [Next]_vars => TypeOK'
<1> SUFFICES ASSUME TypeOK, [Next]_vars PROVE TypeOK'
  OBVIOUS
<1> USE ToolRuntimeAssumption, StatusType, NoRowsType
    DEF TypeOK, Active, Ended, Requests, world, None
<1>1. ASSUME NEW c \in Calls, Reject(c) PROVE TypeOK'
  BY <1>1 DEF Reject, Goto, Verdicts
<1>2. ASSUME NEW c \in Calls, Invoke(c) PROVE TypeOK'
  BY <1>2 DEF Invoke, Verdicts
<1>3. ASSUME NEW c \in Calls, Preview(c) PROVE TypeOK'
  BY <1>3 DEF Preview, Goto
<1>4. ASSUME NEW c \in Calls, DryRun(c) PROVE TypeOK'
  BY <1>4 DEF DryRun, Goto, Verdicts
<1>5. ASSUME NEW c \in Calls, DryRunFails(c) PROVE TypeOK'
  BY <1>5 DEF DryRunFails, Goto, Verdicts
<1>6. ASSUME NEW c \in Calls, InsertToolCall(c) PROVE TypeOK'
  <2>1. [txn[c] EXCEPT !.row = TRUE] \in Rows
    <3>1. txn[c] \in Rows /\ AuditStatus(verdict[c]) \in Statuses
      OBVIOUS
    <3> QED
      BY ONLY <3>1, RowUpdate
  <2>2. txn' \in [Calls -> Rows]
    BY <1>6, <2>1 DEF InsertToolCall
  <2> QED
    BY <1>6, <2>2 DEF InsertToolCall, Goto
<1>7. ASSUME NEW c \in Calls, RecordBefore(c) PROVE TypeOK'
  <2>1. [txn[c] EXCEPT !.before = snapshot[c]] \in Rows
    <3>1. txn[c] \in Rows /\ snapshot[c] \in Nat \cup {None}
      OBVIOUS
    <3> QED
      BY ONLY <3>1, RowUpdate
  <2>2. txn' \in [Calls -> Rows]
    BY <1>7, <2>1 DEF RecordBefore
  <2> QED
    BY <1>7, <2>2 DEF RecordBefore, Goto
<1>8. ASSUME NEW c \in Calls, JournalFails(c) PROVE TypeOK'
  BY <1>8 DEF JournalFails, Goto, Verdicts
<1>9. ASSUME NEW c \in Calls, StartRun(c) PROVE TypeOK'
  <2>1. pc' \in [Calls -> {"idle"} \cup Active \cup Ended] /\ verdict' \in [Calls -> Verdicts]
    BY <1>9 DEF StartRun, Verdicts
  <2>2. inflight' \subseteq Calls
    BY <1>9 DEF StartRun
  <2> QED
    BY <1>9, <2>1, <2>2 DEF StartRun
<1>10. ASSUME NEW c \in Calls, RunTimesOut(c) PROVE TypeOK'
  BY <1>10 DEF RunTimesOut, Goto, Verdicts
<1>11. ASSUME NEW c \in Calls, RunCancelled(c) PROVE TypeOK'
  BY <1>11 DEF RunCancelled, Goto, Verdicts
<1>12. ASSUME NEW c \in Calls, AuditInsert(c) PROVE TypeOK'
  <2>1. [txn[c] EXCEPT !.audit = AuditStatus(verdict[c])] \in Rows
    <3>1. txn[c] \in Rows /\ AuditStatus(verdict[c]) \in Statuses
      OBVIOUS
    <3> QED
      BY ONLY <3>1, RowUpdate
  <2>2. txn' \in [Calls -> Rows]
    BY <1>12, <2>1 DEF AuditInsert
  <2> QED
    BY <1>12, <2>2 DEF AuditInsert, Goto
<1>13. ASSUME NEW c \in Calls, AppendMirror(c) PROVE TypeOK'
  BY <1>13 DEF AppendMirror, Goto
<1>14. ASSUME NEW c \in Calls, LinkAudit(c) PROVE TypeOK'
  <2>1. [txn[c] EXCEPT !.linked = TRUE] \in Rows
    <3>1. txn[c] \in Rows /\ AuditStatus(verdict[c]) \in Statuses
      OBVIOUS
    <3> QED
      BY ONLY <3>1, RowUpdate
  <2>2. txn' \in [Calls -> Rows]
    BY <1>14, <2>1 DEF LinkAudit
  <2> QED
    BY <1>14, <2>2 DEF LinkAudit, Goto
<1>15. ASSUME NEW c \in Calls, Commit(c) PROVE TypeOK'
  BY <1>15 DEF Commit, Goto
<1>16. ASSUME NEW c \in Calls, WriteFails(c) PROVE TypeOK'
  BY <1>16 DEF WriteFails
<1>17. ASSUME NEW c \in Calls, HostCancel(c) PROVE TypeOK'
  BY <1>17 DEF HostCancel
<1>18. ASSUME NEW c \in Calls, Fallback(c) PROVE TypeOK'
  <2>1. Append(mirror[c], AuditStatus("blocked")) \in Seq(Statuses)
    BY AppendProperties DEF Verdicts
  <2>2. mirror' \in [Calls -> Seq(Statuses)]
    BY <1>18, <2>1 DEF Fallback
  <2> QED
    BY <1>18, <2>2 DEF Fallback, Goto
<1>19. ASSUME NEW c \in Calls, Emit(c) PROVE TypeOK'
  <2> DEFINE out == (IF Downgraded(c) THEN <<"policy.downgraded_by_approval">> ELSE <<>>)
                      \o <<EventOf(verdict[c])>>
  <2>1. Downgraded(c) \in BOOLEAN
    BY DEF Downgraded
  <2>2. out \in Seq(EventNames)
    BY <2>1, EventsType
  <2>3. events' = [events EXCEPT ![c] = out]
    BY <1>19 DEF Emit
  <2> HIDE DEF out
  <2>4. events' \in [Calls -> Seq(EventNames)]
    BY <2>2, <2>3
  <2> QED
    BY <1>19, <2>4 DEF Emit, Goto
<1>20. ASSUME NEW c \in Calls, Land(c) PROVE TypeOK'
  BY <1>20 DEF Land
<1>21. ASSUME NEW c \in Calls, RunReturns(c) PROVE TypeOK'
  BY <1>21 DEF RunReturns, Goto, Verdicts
<1>22. ASSUME NEW c \in Calls, RunRaises(c) PROVE TypeOK'
  BY <1>22 DEF RunRaises, Goto, Verdicts
<1>23. ASSUME NEW c \in Calls, Cancel(c) PROVE TypeOK'
  BY <1>23 DEF Cancel
<1>24. ASSUME Crash PROVE TypeOK'
  BY <1>24 DEF Crash
<1>25. CASE UNCHANGED vars
  BY <1>25 DEF vars
<1>26. QED
  BY <1>1, <1>2, <1>3, <1>4, <1>5, <1>6, <1>7, <1>8, <1>9, <1>10, <1>11, <1>12, <1>13, <1>14, <1>15, <1>16, <1>17, <1>18, <1>19, <1>20, <1>21, <1>22, <1>23, <1>24, <1>25
     DEF Next, Step, ToolStep, Interrupt
\* The action's own call.
LEMMA OwnStep ==
  ASSUME TypeOK, NEW c \in Calls, CallInv(c), Step(c) \/ ToolStep(c) \/ Reject(c) \/ Invoke(c) \/ Interrupt(c)
  PROVE  CallInv(c)'
<1> USE ToolRuntimeAssumption DEF TypeOK, world
<1>1. CASE Reject(c)
  <2>1. PhaseInv(c)'
    BY <1>1 DEF Reject, Goto, CallInv, PhaseInv, Allowed, Decision, Downgraded, DryOnly, RunVerdicts, Verdicts
  <2>2. TxnInv(c)'
    BY <1>1 DEF Reject, Goto, CallInv, PhaseInv, TxnInv, NoRows, Rows, Statuses, AuditStatus, RunVerdicts, Verdicts
  <2>3. StoredInv(c)'
    BY <1>1 DEF Reject, Goto, CallInv, PhaseInv, StoredInv, NoRows, Rows, RunVerdicts, Verdicts
  <2>4. OutputInv(c)'
    BY <1>1 DEF Reject, Goto, CallInv, PhaseInv, OutputInv
  <2>5. EffectInv(c)'
    BY <1>1 DEF Reject, Goto, CallInv, PhaseInv, EffectInv, Allowed, RunVerdicts, None, Requests
  <2> QED
    BY <2>1, <2>2, <2>3, <2>4, <2>5 DEF CallInv
<1>2. CASE Invoke(c)
  <2>1. PhaseInv(c)'
    <3>1. effect[c] \in PolicyEffects /\ UNCHANGED <<req, effect>>
      BY <1>2 DEF Invoke
    <3>2. CASE Decision(c) = "deny"
      <4>1. pc[c] = "idle" /\ pc'[c] = "insert" /\ verdict'[c] = "denied"
        BY <1>2, <3>2 DEF Invoke
      <4> QED
        BY <4>1 DEF PhaseInv, RunVerdicts, Verdicts
    <3>3. CASE Decision(c) = "ask"
      <4>1. pc[c] = "idle" /\ pc'[c] \in {"preview", "insert"} /\ verdict'[c] = "asked"
        BY <1>2, <3>3 DEF Invoke
      <4> QED
        BY <4>1 DEF PhaseInv, RunVerdicts, Verdicts
    <3>4. CASE Decision(c) \notin {"deny", "ask"}
      <4>1. pc[c] = "idle" /\ pc'[c] \in {"dry", "insert"} /\ verdict'[c] = "none"
        BY <1>2, <3>4 DEF Invoke
      <4>2. pc'[c] = "insert" => ~DryOnly(c)
        BY <1>2, <3>4 DEF Invoke
      <4>3. Decision(c) \in {"allow", "dry_run_only"} /\ (~DryOnly(c) => Allowed(c))
        BY <3>1, <3>4 DEF Decision, Downgraded, DryOnly, Allowed, PolicyEffects
      <4>4. Decision(c)' = Decision(c) /\ (Allowed(c)' <=> Allowed(c))
        BY <3>1 DEF Decision, Downgraded, Allowed
      <4> QED
        BY <4>1, <4>2, <4>3, <4>4 DEF PhaseInv, RunVerdicts, Verdicts
    <3> QED
      BY <3>2, <3>3, <3>4
  <2>2. TxnInv(c)'
    BY <1>2 DEF Invoke, CallInv, PhaseInv, TxnInv, NoRows, Rows, Statuses, AuditStatus, RunVerdicts, Verdicts
  <2>3. StoredInv(c)'
    BY <1>2 DEF Invoke, CallInv, PhaseInv, StoredInv, NoRows, Rows, RunVerdicts, Verdicts
  <2>4. OutputInv(c)'
    BY <1>2 DEF Invoke, CallInv, PhaseInv, OutputInv
  <2>5. EffectInv(c)'
    BY <1>2 DEF Invoke, CallInv, PhaseInv, EffectInv, Allowed, RunVerdicts, None, Requests
  <2> QED
    BY <2>1, <2>2, <2>3, <2>4, <2>5 DEF CallInv
<1>3. CASE Preview(c)
  <2>1. PhaseInv(c)'
    BY <1>3 DEF Preview, Goto, CallInv, PhaseInv, Allowed, Decision, Downgraded, DryOnly, RunVerdicts, Verdicts
  <2>2. TxnInv(c)'
    BY <1>3 DEF Preview, Goto, CallInv, PhaseInv, TxnInv, NoRows, Rows, Statuses, AuditStatus, RunVerdicts, Verdicts
  <2>3. StoredInv(c)'
    BY <1>3 DEF Preview, Goto, CallInv, PhaseInv, StoredInv, NoRows, Rows, RunVerdicts, Verdicts
  <2>4. OutputInv(c)'
    BY <1>3 DEF Preview, Goto, CallInv, PhaseInv, OutputInv
  <2>5. EffectInv(c)'
    BY <1>3 DEF Preview, Goto, CallInv, PhaseInv, EffectInv, Allowed, RunVerdicts, None, Requests
  <2> QED
    BY <2>1, <2>2, <2>3, <2>4, <2>5 DEF CallInv
<1>4. CASE DryRun(c)
  <2>1. PhaseInv(c)'
    BY <1>4 DEF DryRun, Goto, CallInv, PhaseInv, Allowed, Decision, Downgraded, DryOnly, RunVerdicts, Verdicts
  <2>2. TxnInv(c)'
    BY <1>4 DEF DryRun, Goto, CallInv, PhaseInv, TxnInv, NoRows, Rows, Statuses, AuditStatus, RunVerdicts, Verdicts
  <2>3. StoredInv(c)'
    BY <1>4 DEF DryRun, Goto, CallInv, PhaseInv, StoredInv, NoRows, Rows, RunVerdicts, Verdicts
  <2>4. OutputInv(c)'
    BY <1>4 DEF DryRun, Goto, CallInv, PhaseInv, OutputInv
  <2>5. EffectInv(c)'
    BY <1>4 DEF DryRun, Goto, CallInv, PhaseInv, EffectInv, Allowed, RunVerdicts, None, Requests
  <2> QED
    BY <2>1, <2>2, <2>3, <2>4, <2>5 DEF CallInv
<1>5. CASE DryRunFails(c)
  <2>1. PhaseInv(c)'
    BY <1>5 DEF DryRunFails, Goto, CallInv, PhaseInv, Allowed, Decision, Downgraded, DryOnly, RunVerdicts, Verdicts
  <2>2. TxnInv(c)'
    BY <1>5 DEF DryRunFails, Goto, CallInv, PhaseInv, TxnInv, NoRows, Rows, Statuses, AuditStatus, RunVerdicts, Verdicts
  <2>3. StoredInv(c)'
    BY <1>5 DEF DryRunFails, Goto, CallInv, PhaseInv, StoredInv, NoRows, Rows, RunVerdicts, Verdicts
  <2>4. OutputInv(c)'
    BY <1>5 DEF DryRunFails, Goto, CallInv, PhaseInv, OutputInv
  <2>5. EffectInv(c)'
    BY <1>5 DEF DryRunFails, Goto, CallInv, PhaseInv, EffectInv, Allowed, RunVerdicts, None, Requests
  <2> QED
    BY <2>1, <2>2, <2>3, <2>4, <2>5 DEF CallInv
<1>6. CASE InsertToolCall(c)
  <2>1. PhaseInv(c)'
    BY <1>6 DEF InsertToolCall, Goto, CallInv, PhaseInv, Allowed, Decision, Downgraded, DryOnly, RunVerdicts, Verdicts
  <2>2. TxnInv(c)'
    BY <1>6 DEF InsertToolCall, Goto, CallInv, PhaseInv, TxnInv, NoRows, Rows, Statuses, AuditStatus, RunVerdicts, Verdicts
  <2>3. StoredInv(c)'
    BY <1>6 DEF InsertToolCall, Goto, CallInv, PhaseInv, StoredInv, NoRows, Rows, RunVerdicts, Verdicts
  <2>4. OutputInv(c)'
    BY <1>6 DEF InsertToolCall, Goto, CallInv, PhaseInv, OutputInv
  <2>5. EffectInv(c)'
    BY <1>6 DEF InsertToolCall, Goto, CallInv, PhaseInv, EffectInv, Allowed, RunVerdicts, None, Requests
  <2> QED
    BY <2>1, <2>2, <2>3, <2>4, <2>5 DEF CallInv
<1>7. CASE RecordBefore(c)
  <2>1. PhaseInv(c)'
    BY <1>7 DEF RecordBefore, Goto, CallInv, PhaseInv, Allowed, Decision, Downgraded, DryOnly, RunVerdicts, Verdicts
  <2>2. TxnInv(c)'
    BY <1>7 DEF RecordBefore, Goto, CallInv, PhaseInv, TxnInv, NoRows, Rows, Statuses, AuditStatus, RunVerdicts, Verdicts
  <2>3. StoredInv(c)'
    BY <1>7 DEF RecordBefore, Goto, CallInv, PhaseInv, StoredInv, NoRows, Rows, RunVerdicts, Verdicts
  <2>4. OutputInv(c)'
    BY <1>7 DEF RecordBefore, Goto, CallInv, PhaseInv, OutputInv
  <2>5. EffectInv(c)'
    BY <1>7 DEF RecordBefore, Goto, CallInv, PhaseInv, EffectInv, Allowed, RunVerdicts, None, Requests
  <2> QED
    BY <2>1, <2>2, <2>3, <2>4, <2>5 DEF CallInv
<1>8. CASE JournalFails(c)
  <2>1. PhaseInv(c)'
    BY <1>8 DEF JournalFails, Goto, CallInv, PhaseInv, Allowed, Decision, Downgraded, DryOnly, RunVerdicts, Verdicts
  <2>2. TxnInv(c)'
    BY <1>8 DEF JournalFails, Goto, CallInv, PhaseInv, TxnInv, NoRows, Rows, Statuses, AuditStatus, RunVerdicts, Verdicts
  <2>3. StoredInv(c)'
    BY <1>8 DEF JournalFails, Goto, CallInv, PhaseInv, StoredInv, NoRows, Rows, RunVerdicts, Verdicts
  <2>4. OutputInv(c)'
    BY <1>8 DEF JournalFails, Goto, CallInv, PhaseInv, OutputInv
  <2>5. EffectInv(c)'
    BY <1>8 DEF JournalFails, Goto, CallInv, PhaseInv, EffectInv, Allowed, RunVerdicts, None, Requests
  <2> QED
    BY <2>1, <2>2, <2>3, <2>4, <2>5 DEF CallInv
<1>9. CASE StartRun(c)
  <2>1. PhaseInv(c)'
    BY <1>9 DEF StartRun, CallInv, PhaseInv, Allowed, Decision, Downgraded, DryOnly, RunVerdicts, Verdicts
  <2>2. TxnInv(c)'
    BY <1>9 DEF StartRun, CallInv, PhaseInv, TxnInv, NoRows, Rows, Statuses, AuditStatus, RunVerdicts, Verdicts
  <2>3. StoredInv(c)'
    BY <1>9 DEF StartRun, CallInv, PhaseInv, StoredInv, NoRows, Rows, RunVerdicts, Verdicts
  <2>4. OutputInv(c)'
    BY <1>9 DEF StartRun, CallInv, PhaseInv, OutputInv
  <2>5. EffectInv(c)'
    BY <1>9 DEF StartRun, CallInv, PhaseInv, EffectInv, Allowed, RunVerdicts, None, Requests
  <2> QED
    BY <2>1, <2>2, <2>3, <2>4, <2>5 DEF CallInv
<1>10. CASE RunTimesOut(c)
  <2>1. PhaseInv(c)'
    BY <1>10 DEF RunTimesOut, Goto, CallInv, PhaseInv, Allowed, Decision, Downgraded, DryOnly, RunVerdicts, Verdicts
  <2>2. TxnInv(c)'
    BY <1>10 DEF RunTimesOut, Goto, CallInv, PhaseInv, TxnInv, NoRows, Rows, Statuses, AuditStatus, RunVerdicts, Verdicts
  <2>3. StoredInv(c)'
    BY <1>10 DEF RunTimesOut, Goto, CallInv, PhaseInv, StoredInv, NoRows, Rows, RunVerdicts, Verdicts
  <2>4. OutputInv(c)'
    BY <1>10 DEF RunTimesOut, Goto, CallInv, PhaseInv, OutputInv
  <2>5. EffectInv(c)'
    BY <1>10 DEF RunTimesOut, Goto, CallInv, PhaseInv, EffectInv, Allowed, RunVerdicts, None, Requests
  <2> QED
    BY <2>1, <2>2, <2>3, <2>4, <2>5 DEF CallInv
<1>11. CASE RunCancelled(c)
  <2>1. PhaseInv(c)'
    BY <1>11 DEF RunCancelled, Goto, CallInv, PhaseInv, Allowed, Decision, Downgraded, DryOnly, RunVerdicts, Verdicts
  <2>2. TxnInv(c)'
    BY <1>11 DEF RunCancelled, Goto, CallInv, PhaseInv, TxnInv, NoRows, Rows, Statuses, AuditStatus, RunVerdicts, Verdicts
  <2>3. StoredInv(c)'
    BY <1>11 DEF RunCancelled, Goto, CallInv, PhaseInv, StoredInv, NoRows, Rows, RunVerdicts, Verdicts
  <2>4. OutputInv(c)'
    BY <1>11 DEF RunCancelled, Goto, CallInv, PhaseInv, OutputInv
  <2>5. EffectInv(c)'
    BY <1>11 DEF RunCancelled, Goto, CallInv, PhaseInv, EffectInv, Allowed, RunVerdicts, None, Requests
  <2> QED
    BY <2>1, <2>2, <2>3, <2>4, <2>5 DEF CallInv
<1>12. CASE AuditInsert(c)
  <2>1. PhaseInv(c)'
    BY <1>12 DEF AuditInsert, Goto, CallInv, PhaseInv, Allowed, Decision, Downgraded, DryOnly, RunVerdicts, Verdicts
  <2>2. TxnInv(c)'
    BY <1>12 DEF AuditInsert, Goto, CallInv, PhaseInv, TxnInv, NoRows, Rows, Statuses, AuditStatus, RunVerdicts, Verdicts
  <2>3. StoredInv(c)'
    BY <1>12 DEF AuditInsert, Goto, CallInv, PhaseInv, StoredInv, NoRows, Rows, RunVerdicts, Verdicts
  <2>4. OutputInv(c)'
    BY <1>12 DEF AuditInsert, Goto, CallInv, PhaseInv, OutputInv
  <2>5. EffectInv(c)'
    BY <1>12 DEF AuditInsert, Goto, CallInv, PhaseInv, EffectInv, Allowed, RunVerdicts, None, Requests
  <2> QED
    BY <2>1, <2>2, <2>3, <2>4, <2>5 DEF CallInv
<1>13. CASE AppendMirror(c)
  <2>1. PhaseInv(c)'
    BY <1>13 DEF AppendMirror, Goto, CallInv, PhaseInv, Allowed, Decision, Downgraded, DryOnly, RunVerdicts, Verdicts
  <2>2. TxnInv(c)'
    BY <1>13 DEF AppendMirror, Goto, CallInv, PhaseInv, TxnInv, NoRows, Rows, Statuses, AuditStatus, RunVerdicts, Verdicts
  <2>3. StoredInv(c)'
    BY <1>13 DEF AppendMirror, Goto, CallInv, PhaseInv, StoredInv, NoRows, Rows, RunVerdicts, Verdicts
  <2>4. OutputInv(c)'
    BY <1>13 DEF AppendMirror, Goto, CallInv, PhaseInv, OutputInv
  <2>5. EffectInv(c)'
    BY <1>13 DEF AppendMirror, Goto, CallInv, PhaseInv, EffectInv, Allowed, RunVerdicts, None, Requests
  <2> QED
    BY <2>1, <2>2, <2>3, <2>4, <2>5 DEF CallInv
<1>14. CASE LinkAudit(c)
  <2>1. PhaseInv(c)'
    BY <1>14 DEF LinkAudit, Goto, CallInv, PhaseInv, Allowed, Decision, Downgraded, DryOnly, RunVerdicts, Verdicts
  <2>2. TxnInv(c)'
    BY <1>14 DEF LinkAudit, Goto, CallInv, PhaseInv, TxnInv, NoRows, Rows, Statuses, AuditStatus, RunVerdicts, Verdicts
  <2>3. StoredInv(c)'
    BY <1>14 DEF LinkAudit, Goto, CallInv, PhaseInv, StoredInv, NoRows, Rows, RunVerdicts, Verdicts
  <2>4. OutputInv(c)'
    BY <1>14 DEF LinkAudit, Goto, CallInv, PhaseInv, OutputInv
  <2>5. EffectInv(c)'
    BY <1>14 DEF LinkAudit, Goto, CallInv, PhaseInv, EffectInv, Allowed, RunVerdicts, None, Requests
  <2> QED
    BY <2>1, <2>2, <2>3, <2>4, <2>5 DEF CallInv
<1>15. CASE Commit(c)
  <2>1. PhaseInv(c)'
    BY <1>15 DEF Commit, Goto, CallInv, PhaseInv, Allowed, Decision, Downgraded, DryOnly, RunVerdicts, Verdicts
  <2>2. TxnInv(c)'
    BY <1>15 DEF Commit, Goto, CallInv, PhaseInv, TxnInv, NoRows, Rows, Statuses, AuditStatus, RunVerdicts, Verdicts
  <2>3. StoredInv(c)'
    BY <1>15 DEF Commit, Goto, CallInv, PhaseInv, TxnInv, StoredInv, NoRows, Rows, RunVerdicts, Verdicts
  <2>4. OutputInv(c)'
    BY <1>15 DEF Commit, Goto, CallInv, PhaseInv, OutputInv
  <2>5. EffectInv(c)'
    BY <1>15 DEF Commit, Goto, CallInv, PhaseInv, EffectInv, Allowed, RunVerdicts, None, Requests
  <2> QED
    BY <2>1, <2>2, <2>3, <2>4, <2>5 DEF CallInv
<1>16. CASE WriteFails(c)
  <2>1. PhaseInv(c)'
    BY <1>16 DEF WriteFails, FaultAt, CallInv, PhaseInv, Allowed, Decision, Downgraded, DryOnly, RunVerdicts, Verdicts
  <2>2. TxnInv(c)'
    BY <1>16 DEF WriteFails, FaultAt, CallInv, PhaseInv, TxnInv, NoRows, Rows, Statuses, AuditStatus, RunVerdicts, Verdicts
  <2>3. StoredInv(c)'
    BY <1>16 DEF WriteFails, FaultAt, CallInv, PhaseInv, StoredInv, NoRows, Rows, RunVerdicts, Verdicts
  <2>4. OutputInv(c)'
    BY <1>16 DEF WriteFails, FaultAt, CallInv, PhaseInv, OutputInv
  <2>5. EffectInv(c)'
    BY <1>16 DEF WriteFails, FaultAt, CallInv, PhaseInv, EffectInv, Allowed, RunVerdicts, None, Requests
  <2> QED
    BY <2>1, <2>2, <2>3, <2>4, <2>5 DEF CallInv
<1>17. CASE HostCancel(c)
  <2>1. PhaseInv(c)'
    BY <1>17 DEF HostCancel, CallInv, PhaseInv, Allowed, Decision, Downgraded, DryOnly, RunVerdicts, Verdicts
  <2>2. TxnInv(c)'
    BY <1>17 DEF HostCancel, CallInv, PhaseInv, TxnInv, NoRows, Rows, Statuses, AuditStatus, RunVerdicts, Verdicts
  <2>3. StoredInv(c)'
    BY <1>17 DEF HostCancel, CallInv, PhaseInv, TxnInv, StoredInv, NoRows, Rows, RunVerdicts, Verdicts
  <2>4. OutputInv(c)'
    BY <1>17 DEF HostCancel, CallInv, PhaseInv, OutputInv
  <2>5. EffectInv(c)'
    BY <1>17 DEF HostCancel, CallInv, PhaseInv, EffectInv, Allowed, RunVerdicts, None, Requests
  <2> QED
    BY <2>1, <2>2, <2>3, <2>4, <2>5 DEF CallInv
<1>18. CASE Fallback(c)
  <2>1. PhaseInv(c)'
    BY <1>18 DEF Fallback, Goto, CallInv, PhaseInv, Allowed, Decision, Downgraded, DryOnly, RunVerdicts, Verdicts
  <2>2. TxnInv(c)'
    BY <1>18 DEF Fallback, Goto, CallInv, PhaseInv, TxnInv, NoRows, Rows, Statuses, AuditStatus, RunVerdicts, Verdicts
  <2>3. StoredInv(c)'
    BY <1>18 DEF Fallback, Goto, CallInv, PhaseInv, StoredInv, NoRows, Rows, RunVerdicts, Verdicts
  <2>4. OutputInv(c)'
    <3>1. /\ pc'[c] = "emit" /\ pc[c] = "fallback" /\ verdict'[c] = verdict[c]
          /\ verdict[c] = "blocked" /\ events'[c] = events[c] /\ stored'[c] = stored[c]
      BY <1>18 DEF Fallback, Goto, CallInv, PhaseInv
    <3>2. CASE mirror'[c] = mirror[c]
      BY <3>1, <3>2 DEF CallInv, StoredInv, OutputInv
    <3>3. CASE mirror'[c] = Append(mirror[c], AuditStatus("blocked"))
      BY <3>1, <3>3 DEF CallInv, StoredInv, OutputInv
    <3> QED
      BY <1>18, <3>2, <3>3 DEF Fallback
  <2>5. EffectInv(c)'
    BY <1>18 DEF Fallback, Goto, CallInv, PhaseInv, EffectInv, Allowed, RunVerdicts, None, Requests
  <2> QED
    BY <2>1, <2>2, <2>3, <2>4, <2>5 DEF CallInv
<1>19. CASE Emit(c)
  <2>1. PhaseInv(c)'
    BY <1>19 DEF Emit, Goto, CallInv, PhaseInv, Allowed, Decision, Downgraded, DryOnly, RunVerdicts, Verdicts
  <2>2. TxnInv(c)'
    BY <1>19 DEF Emit, Goto, CallInv, PhaseInv, TxnInv, NoRows, Rows, Statuses, AuditStatus, RunVerdicts, Verdicts
  <2>3. StoredInv(c)'
    BY <1>19 DEF Emit, Goto, CallInv, PhaseInv, StoredInv, NoRows, Rows, RunVerdicts, Verdicts
  <2>4. OutputInv(c)'
    BY <1>19 DEF Emit, Goto, CallInv, PhaseInv, OutputInv
  <2>5. EffectInv(c)'
    BY <1>19 DEF Emit, Goto, CallInv, PhaseInv, EffectInv, Allowed, RunVerdicts, None, Requests
  <2> QED
    BY <2>1, <2>2, <2>3, <2>4, <2>5 DEF CallInv
<1>20. CASE Land(c)
  <2>1. PhaseInv(c)'
    BY <1>20 DEF Land, CallInv, PhaseInv, Allowed, Decision, Downgraded, DryOnly, RunVerdicts, Verdicts
  <2>2. TxnInv(c)'
    BY <1>20 DEF Land, CallInv, PhaseInv, TxnInv, NoRows, Rows, Statuses, AuditStatus, RunVerdicts, Verdicts
  <2>3. StoredInv(c)'
    BY <1>20 DEF Land, CallInv, PhaseInv, StoredInv, NoRows, Rows, RunVerdicts, Verdicts
  <2>4. OutputInv(c)'
    BY <1>20 DEF Land, CallInv, PhaseInv, OutputInv
  <2>5. EffectInv(c)'
    <3> DEFINE t == req[c].target
    <3>1. t \in Targets /\ version[t] \in Nat
      BY DEF Requests
    <3>2. landed'[c] = version[t] /\ version'[t] = version[t] + 1
      BY <1>20, <3>1 DEF Land
    <3>3. c \in inflight /\ c \notin inflight'
      BY <1>20 DEF Land
    <3>4. UNCHANGED <<req, effect, pc, verdict, snapshot>>
      BY <1>20 DEF Land
    <3>5. Allowed(c)'
      BY <3>3, <3>4 DEF CallInv, EffectInv, Allowed
    <3>6. snapshot[c] \in Int /\ snapshot[c] <= version[t]
      BY DEF CallInv, EffectInv, None
    <3> QED
      BY <3>1, <3>2, <3>3, <3>4, <3>5, <3>6 DEF CallInv, EffectInv, None
  <2> QED
    BY <2>1, <2>2, <2>3, <2>4, <2>5 DEF CallInv
<1>21. CASE RunReturns(c)
  <2>1. PhaseInv(c)'
    BY <1>21 DEF RunReturns, Goto, CallInv, PhaseInv, Allowed, Decision, Downgraded, DryOnly, RunVerdicts, Verdicts
  <2>2. TxnInv(c)'
    BY <1>21 DEF RunReturns, Goto, CallInv, PhaseInv, TxnInv, NoRows, Rows, Statuses, AuditStatus, RunVerdicts, Verdicts
  <2>3. StoredInv(c)'
    BY <1>21 DEF RunReturns, Goto, CallInv, PhaseInv, StoredInv, NoRows, Rows, RunVerdicts, Verdicts
  <2>4. OutputInv(c)'
    BY <1>21 DEF RunReturns, Goto, CallInv, PhaseInv, OutputInv
  <2>5. EffectInv(c)'
    BY <1>21 DEF RunReturns, Goto, CallInv, PhaseInv, EffectInv, Allowed, RunVerdicts, None, Requests
  <2> QED
    BY <2>1, <2>2, <2>3, <2>4, <2>5 DEF CallInv
<1>22. CASE RunRaises(c)
  <2>1. PhaseInv(c)'
    BY <1>22 DEF RunRaises, Goto, CallInv, PhaseInv, Allowed, Decision, Downgraded, DryOnly, RunVerdicts, Verdicts
  <2>2. TxnInv(c)'
    BY <1>22 DEF RunRaises, Goto, CallInv, PhaseInv, TxnInv, NoRows, Rows, Statuses, AuditStatus, RunVerdicts, Verdicts
  <2>3. StoredInv(c)'
    BY <1>22 DEF RunRaises, Goto, CallInv, PhaseInv, StoredInv, NoRows, Rows, RunVerdicts, Verdicts
  <2>4. OutputInv(c)'
    BY <1>22 DEF RunRaises, Goto, CallInv, PhaseInv, OutputInv
  <2>5. EffectInv(c)'
    BY <1>22 DEF RunRaises, Goto, CallInv, PhaseInv, EffectInv, Allowed, RunVerdicts, None, Requests
  <2> QED
    BY <2>1, <2>2, <2>3, <2>4, <2>5 DEF CallInv
<1>23. CASE Cancel(c)
  <2>1. PhaseInv(c)'
    BY <1>23 DEF Cancel, CallInv, PhaseInv, Allowed, Decision, Downgraded, DryOnly, RunVerdicts, Verdicts
  <2>2. TxnInv(c)'
    BY <1>23 DEF Cancel, CallInv, PhaseInv, TxnInv, NoRows, Rows, Statuses, AuditStatus, RunVerdicts, Verdicts
  <2>3. StoredInv(c)'
    BY <1>23 DEF Cancel, CallInv, PhaseInv, StoredInv, NoRows, Rows, RunVerdicts, Verdicts
  <2>4. OutputInv(c)'
    BY <1>23 DEF Cancel, CallInv, PhaseInv, OutputInv
  <2>5. EffectInv(c)'
    BY <1>23 DEF Cancel, CallInv, PhaseInv, EffectInv, Allowed, RunVerdicts, None, Requests
  <2> QED
    BY <2>1, <2>2, <2>3, <2>4, <2>5 DEF CallInv
<1> QED
  BY <1>1, <1>2, <1>3, <1>4, <1>5, <1>6, <1>7, <1>8, <1>9, <1>10, <1>11, <1>12, <1>13, <1>14, <1>15, <1>16, <1>17, <1>18, <1>19, <1>20, <1>21, <1>22, <1>23 DEF Step, ToolStep, Interrupt

\* The other calls: a step of c leaves d alone, but for the content of a target.
LEMMA OtherStep ==
  ASSUME TypeOK, NEW c \in Calls, NEW d \in Calls, d # c, CallInv(d),
         Step(c) \/ ToolStep(c) \/ Reject(c) \/ Invoke(c) \/ Interrupt(c)
  PROVE  CallInv(d)'
<1>1. /\ UNCHANGED <<req, effect>>
      /\ pc'[d] = pc[d] /\ verdict'[d] = verdict[d] /\ snapshot'[d] = snapshot[d]
      /\ txn'[d] = txn[d] /\ stored'[d] = stored[d] /\ landed'[d] = landed[d]
      /\ mirror'[d] = mirror[d] /\ events'[d] = events[d]
  BY DEF TypeOK, Step, ToolStep, Interrupt, Goto, world, Reject, Invoke, Preview, DryRun, DryRunFails,
         InsertToolCall, RecordBefore, JournalFails, StartRun, RunTimesOut, RunCancelled,
         AuditInsert, AppendMirror, LinkAudit, Commit, WriteFails, HostCancel, Fallback, Emit,
         Land, RunReturns, RunRaises, Cancel
<1>2. d \in inflight' <=> d \in inflight
  BY DEF TypeOK, Step, ToolStep, Interrupt, Goto, world, Reject, Invoke, Preview, DryRun, DryRunFails,
         InsertToolCall, RecordBefore, JournalFails, StartRun, RunTimesOut, RunCancelled,
         AuditInsert, AppendMirror, LinkAudit, Commit, WriteFails, HostCancel, Fallback, Emit,
         Land, RunReturns, RunRaises, Cancel
<1>3. /\ version[req[d].target] \in Nat /\ version'[req[d].target] \in Nat
      /\ version[req[d].target] <= version'[req[d].target]
  <2>1. req[d].target \in Targets
    BY DEF TypeOK, Requests
  <2>2. CASE version' = version
    BY <2>1, <2>2 DEF TypeOK
  <2>3. CASE Land(c)
    BY <2>1, <2>3 DEF Land, TypeOK
  <2> QED
    BY <2>2, <2>3 DEF Step, ToolStep, Interrupt, world, Reject, Invoke, Preview, DryRun, DryRunFails,
         InsertToolCall, RecordBefore, JournalFails, StartRun, RunTimesOut, RunCancelled,
         AuditInsert, AppendMirror, LinkAudit, Commit, WriteFails, HostCancel, Fallback, Emit,
         RunReturns, RunRaises, Cancel
<1>4. snapshot[d] \in Int
  BY DEF TypeOK, None
<1>5. PhaseInv(d)'
  BY <1>1 DEF CallInv, PhaseInv, Allowed, Decision, Downgraded
<1>6. TxnInv(d)' /\ StoredInv(d)' /\ OutputInv(d)'
  BY <1>1 DEF CallInv, TxnInv, StoredInv, OutputInv
<1>7. EffectInv(d)'
  BY <1>1, <1>2, <1>3, <1>4 DEF CallInv, EffectInv, Allowed
<1> QED
  BY <1>5, <1>6, <1>7 DEF CallInv

\* The process dies: what was stored stays, calls under way are crashed.
LEMMA CrashStep ==
  ASSUME TypeOK, NEW c \in Calls, CallInv(c), Crash
  PROVE  CallInv(c)'
<1>1. /\ UNCHANGED <<req, effect, verdict, snapshot, stored, mirror, events, version, landed>>
      /\ pc'[c] = IF pc[c] \in Active THEN "crashed" ELSE pc[c]
      /\ txn'[c] = NoRows
      /\ c \notin inflight'
  BY DEF Crash
<1>2. Allowed(c)' <=> Allowed(c)
  BY <1>1 DEF Allowed
<1>3. pc[c] \in {"idle"} \cup Active \cup Ended
  BY DEF TypeOK
<1>4. PhaseInv(c)'
  BY <1>1, <1>2, <1>3 DEF CallInv, PhaseInv, Active, Ended, Verdicts, Decision, Downgraded
<1>5. TxnInv(c)'
  BY <1>1, <1>3 DEF CallInv, TxnInv, NoRows, Active, Ended
<1>6. StoredInv(c)' /\ OutputInv(c)'
  BY <1>1, <1>3 DEF CallInv, StoredInv, OutputInv, Active, Ended
<1>7. EffectInv(c)'
  BY <1>1, <1>2, <1>3 DEF CallInv, EffectInv, Active, Ended
<1> QED
  BY <1>4, <1>5, <1>6, <1>7 DEF CallInv

\* No call has begun: the invariant holds.
LEMMA InitIInv == Init => IInv
<1> SUFFICES ASSUME Init PROVE IInv
  OBVIOUS
<1>1. TypeOK
  BY NoRowsType, ToolRuntimeAssumption
     DEF Init, TypeOK, Active, Ended, Verdicts, None
<1>2. ASSUME NEW c \in Calls PROVE CallInv(c)
  BY <1>1 DEF Init, TypeOK, Requests, CallInv, PhaseInv, TxnInv, StoredInv, OutputInv, EffectInv,
              NoRows, None, RunVerdicts
<1> QED
  BY <1>1, <1>2 DEF IInv

\* Every step keeps the invariant: for its own call by OwnStep, for the others
\* by OtherStep.
LEMMA StepIInv == IInv /\ [Next]_vars => IInv'
<1> SUFFICES ASSUME IInv, [Next]_vars PROVE IInv'
  OBVIOUS
<1>1. TypeOK'
  BY TypeStep DEF IInv
<1>2. ASSUME NEW d \in Calls PROVE CallInv(d)'
  <2>1. CASE UNCHANGED vars
    BY <2>1 DEF vars, IInv, CallInv, PhaseInv, TxnInv, StoredInv, OutputInv, EffectInv,
                Allowed, Decision, Downgraded
  <2>2. CASE Crash
    BY <2>2, CrashStep DEF IInv
  <2>3. ASSUME NEW c \in Calls,
               Step(c) \/ ToolStep(c) \/ Reject(c) \/ Invoke(c) \/ Interrupt(c)
        PROVE  CallInv(d)'
    <3>1. CASE d = c
      BY <2>3, <3>1, OwnStep DEF IInv
    <3>2. CASE d # c
      BY <2>3, <3>2, OtherStep DEF IInv
    <3> QED
      BY <3>1, <3>2
  <2> QED
    BY <2>1, <2>2, <2>3 DEF Next
<1> QED
  BY <1>1, <1>2 DEF IInv

\* The invariant holds in every reachable state.
LEMMA Invariance == Spec => []IInv
BY InitIInv, StepIInv, PTL DEF Spec

-----------------------------------------------------------------------------

(***************************************************************************)
(* Type correctness, of the model of invoke for any number of calls.       *)
(***************************************************************************)
THEOREM TypeCorrect == Spec => []TypeOK
<1>1. IInv => TypeOK
  BY DEF IInv
<1> QED
  BY <1>1, Invariance, PTL

(***************************************************************************)
(* Whichever write of whichever call fails, and whenever the process dies, *)
(* a committed tool_call has its audit row, linked and of the right status,*)
(* and its journal row exactly if a reversible tool was let run.           *)
(***************************************************************************)
THEOREM RecordsAreWhole == Spec => []RecordIsWhole
<1>1. IInv => RecordIsWhole
  BY DEF IInv, CallInv, StoredInv, RecordIsWhole, RunVerdicts
<1> QED
  BY <1>1, Invariance, PTL

(***************************************************************************)
(* No tool of any call touches its target unless the policy, or the user   *)
(* it asked, let it, and never in a dry run.                               *)
(***************************************************************************)
THEOREM EffectsWereAllowed == Spec => []EffectWasAllowed
<1>1. IInv => EffectWasAllowed
  BY DEF IInv, CallInv, EffectInv, EffectWasAllowed, Allowed
<1> QED
  BY <1>1, Invariance, PTL

(***************************************************************************)
(* Fail closed: no reversible tool writes without its journal row, and the *)
(* journaled content is never newer than the one the write replaced.       *)
(***************************************************************************)
THEOREM EffectsWereJournaled == Spec => []EffectWasJournaled
<1>1. IInv => EffectWasJournaled
  <2> SUFFICES ASSUME IInv, NEW c \in Calls, req[c].tool \in Reversible,
                      landed[c] # None \/ c \in inflight,
                      pc[c] \notin {"aborted", "crashed"}
               PROVE  LET rows == IF stored[c].row THEN stored[c] ELSE txn[c] IN
                        /\ rows.before # None
                        /\ landed[c] # None => rows.before <= landed[c]
    BY DEF EffectWasJournaled
  <2> USE DEF IInv, CallInv
  <2>1. pc[c] = "running" \/ verdict[c] \in RunVerdicts
    BY DEF EffectInv
  <2>2. pc[c] \in {"idle"} \cup Active \cup Ended
    BY DEF TypeOK
  <2>3. CASE stored[c].row
    BY <2>1, <2>3 DEF StoredInv, EffectInv
  <2>4. CASE ~stored[c].row
    BY <2>1, <2>2, <2>4 DEF PhaseInv, TxnInv, StoredInv, EffectInv, Active, Ended, RunVerdicts
  <2> QED
    BY <2>3, <2>4
<1> QED
  BY <1>1, Invariance, PTL

(***************************************************************************)
(* Events come after the commit: whoever hears of an outcome finds the     *)
(* record of that outcome.                                                 *)
(***************************************************************************)
THEOREM EventsTellRecords == Spec => []EventTellsRecord
<1>1. IInv => EventTellsRecord
  BY DEF IInv, CallInv, StoredInv, OutputInv, EventTellsRecord, EventOf, AuditStatus
<1> QED
  BY <1>1, Invariance, PTL

(***************************************************************************)
(* The audit log file has a line for every committed audit row, and no     *)
(* line of a call contradicts the outcome of the call.                     *)
(***************************************************************************)
THEOREM MirrorsTellRecords == Spec => []MirrorTellsRecord
<1>1. IInv => MirrorTellsRecord
  BY DEF IInv, CallInv, OutputInv, MirrorTellsRecord
<1> QED
  BY <1>1, Invariance, PTL

(***************************************************************************)
(* Committed rows are final and the log file is append-only.               *)
(***************************************************************************)
THEOREM RecordsAreFinal == Spec => RecordIsFinal
<1>1. IInv /\ [Next]_vars =>
        [\A c \in Calls :
           /\ stored[c].row => stored'[c] = stored[c]
           /\ mirror'[c] # mirror[c] => \E s \in Statuses : mirror'[c] = Append(mirror[c], s)]_vars
  <2> SUFFICES ASSUME IInv, Next, NEW c \in Calls
               PROVE  /\ stored[c].row => stored'[c] = stored[c]
                      /\ mirror'[c] # mirror[c] =>
                           \E s \in Statuses : mirror'[c] = Append(mirror[c], s)
    OBVIOUS
  <2>1. CASE Crash
    BY <2>1 DEF Crash
  <2>2. ASSUME NEW d \in Calls, Reject(d) \/ Invoke(d) \/ Step(d) \/ ToolStep(d) \/ Interrupt(d)
        PROVE  stored[c].row => stored'[c] = stored[c]
    <3>1. \/ stored' = stored
          \/ pc[d] \in {"commit"} /\ stored' = [stored EXCEPT ![d] = txn[d]]
      BY <2>2 DEF Step, ToolStep, Interrupt, Goto, Reject, Invoke, Preview, DryRun, DryRunFails,
         InsertToolCall, RecordBefore, JournalFails, StartRun, RunTimesOut, RunCancelled,
         AuditInsert, AppendMirror, LinkAudit, Commit, WriteFails, HostCancel, Fallback, Emit,
         Land, RunReturns, RunRaises, Cancel
    <3>2. pc[c] = "commit" => ~stored[c].row
      BY DEF IInv, CallInv, StoredInv
    <3> QED
      BY <3>1, <3>2 DEF IInv, TypeOK
  <2>3. ASSUME NEW d \in Calls, Reject(d) \/ Invoke(d) \/ Step(d) \/ ToolStep(d) \/ Interrupt(d)
        PROVE  mirror'[c] # mirror[c] =>
                 \E s \in Statuses : mirror'[c] = Append(mirror[c], s)
    <3>1. AuditStatus(verdict[d]) \in Statuses /\ AuditStatus("blocked") \in Statuses
      BY StatusType DEF IInv, TypeOK, Verdicts
    <3>2. \/ mirror' = mirror
          \/ \E s \in Statuses : mirror' = [mirror EXCEPT ![d] = Append(@, s)]
      BY <2>3, <3>1 DEF Step, ToolStep, Interrupt, Goto, Reject, Invoke, Preview, DryRun, DryRunFails,
         InsertToolCall, RecordBefore, JournalFails, StartRun, RunTimesOut, RunCancelled,
         AuditInsert, AppendMirror, LinkAudit, Commit, WriteFails, HostCancel, Fallback, Emit,
         Land, RunReturns, RunRaises, Cancel
    <3> QED
      BY <3>2 DEF IInv, TypeOK
  <2> QED
    BY <2>1, <2>2, <2>3 DEF Next
<1> QED
  BY <1>1, Invariance, PTL DEF Spec, RecordIsFinal

(***************************************************************************)
(* No tool starts once the token of its run is set.                        *)
(***************************************************************************)
THEOREM CancelStopsRuns == Spec => CancelStopsTheRun
<1>1. [Next]_vars => [inflight' \cap token \subseteq inflight]_vars
  BY DEF Next, Step, ToolStep, Interrupt, Goto, world, Reject, Invoke, Preview, DryRun, DryRunFails,
         InsertToolCall, RecordBefore, JournalFails, StartRun, RunTimesOut, RunCancelled,
         AuditInsert, AppendMirror, LinkAudit, Commit, WriteFails, HostCancel, Fallback, Emit,
         Land, RunReturns, RunRaises, Cancel, Crash
<1> QED
  BY <1>1, PTL DEF Spec, CancelStopsTheRun

=============================================================================
