------------------------------ MODULE ToolRuntime ------------------------------
(***************************************************************************)
(* ToolRuntime.invoke: the one path every tool call takes.                 *)
(*                                                                         *)
(* A call is checked against its schema and the policy, rehearsed by the   *)
(* tool's dry_run, journaled if the tool is reversible, run, audited and   *)
(* committed; its events leave after the commit.  tool_call, journal and   *)
(* audit rows share one database transaction, the audit log file does not, *)
(* and neither does the file the tool changes.  Calls of different runs    *)
(* interleave at every await; every writer may fail; the user may cancel;  *)
(* a tool may time out while its worker thread is still at work; and the   *)
(* process may die.                                                        *)
(*                                                                         *)
(* The content of a target is abstracted to the number of writes that have *)
(* landed on it, so two contents are equal iff no write separates them.    *)
(***************************************************************************)
EXTENDS Integers, Sequences

CONSTANTS
  Calls,         \* invocations of ToolRuntime.invoke
  Tools,
  Targets,       \* what tools act on: paths
  Mutating,      \* tools with side_effect write or destructive
  Reversible,    \* tools with reversible = True
  DryByDefault,  \* tools with default_dry_run = True
  Effects,       \* what the policy may answer, see PolicyEffects
  Overrides,     \* values approval_override takes: resumed calls pass TRUE
  DryFlags,      \* values the caller's dry_run flag takes
  Faults         \* failures of the environment this instance allows

PolicyEffects == {"allow", "ask", "deny", "dry_run_only"}

(***************************************************************************)
(* "tool_call", "journal", "audit_db", "audit_file", "link", "commit": the *)
(* write of that name fails.  "snapshot": a reversible tool's dry_run gave *)
(* no before_snapshot, which JournalEntry refuses.  "host_cancel": the     *)
(* task that runs invoke is cancelled by the event loop.  "crash": the     *)
(* process dies.                                                           *)
(***************************************************************************)
FaultNames == {"tool_call", "journal", "snapshot", "audit_db", "audit_file",
               "link", "commit", "host_cancel", "crash"}

ASSUME ToolRuntimeAssumption ==
  /\ Mutating \subseteq Tools
  /\ Reversible \subseteq Tools
  /\ DryByDefault \subseteq Tools
  /\ Effects \subseteq PolicyEffects
  /\ Overrides \subseteq BOOLEAN
  /\ DryFlags \subseteq BOOLEAN
  /\ Faults \subseteq FaultNames

VARIABLES
  pc,        \* where invoke stands
  req,       \* its arguments
  effect,    \* what the policy answered
  verdict,   \* which record is being written
  snapshot,  \* before_snapshot of the dry_run
  txn,       \* rows written in the open transaction
  stored,    \* rows committed
  mirror,    \* lines of the call in the audit log file, oldest first
  events,    \* events emitted
  token,     \* calls whose cancel token is set
  inflight,  \* calls whose worker thread has not touched the target yet
  version,   \* writes that landed on each target
  landed     \* the content the call's write replaced

vars == <<pc, req, effect, verdict, snapshot, txn, stored, mirror, events,
          token, inflight, version, landed>>
world == <<inflight, version, landed>>

None == -1   \* no content: nothing journaled, nothing written

Statuses == {"success", "failed", "blocked", "approved"}

Rows == [row : BOOLEAN, audit : Statuses \cup {"none"}, linked : BOOLEAN,
         before : Nat \cup {None}]

NoRows == [row |-> FALSE, audit |-> "none", linked |-> FALSE, before |-> None]

Requests == [tool : Tools, target : Targets, dryRun : DryFlags, override : Overrides]

(***************************************************************************)
(* The record each way out of invoke leaves: the status of its audit row,  *)
(* and the event that announces it.                                        *)
(***************************************************************************)
AuditStatus(v) ==
  CASE v \in {"denied", "blocked"}                          -> "blocked"
    [] v = "asked"                                          -> "approved"
    [] v \in {"dry_failed", "run_failed", "run_cancelled"}  -> "failed"
    [] OTHER                                                -> "success"

EventOf(v) ==
  CASE v = "denied"                         -> "tool_call.denied"
    [] v = "asked"                          -> "approval.requested"
    [] v \in {"dry", "succeeded"}           -> "tool_call.succeeded"
    [] OTHER                                -> "tool_call.failed"

EventNames == {"policy.downgraded_by_approval", "approval.requested",
               "tool_call.denied", "tool_call.succeeded", "tool_call.failed"}

Verdicts == {"none", "invalid", "denied", "asked", "dry", "dry_failed",
             "succeeded", "run_failed", "run_cancelled", "blocked"}

Active == {"preview", "dry", "insert", "journal", "run", "running", "audit",
           "mirror", "link", "commit", "fallback", "emit"}
Ended  == {"done", "aborted", "crashed"}

-----------------------------------------------------------------------------

Init ==
  /\ pc = [c \in Calls |-> "idle"]
  /\ req \in [Calls -> Requests]
  /\ effect \in [Calls -> Effects]
  /\ verdict = [c \in Calls |-> "none"]
  /\ snapshot = [c \in Calls |-> None]
  /\ txn = [c \in Calls |-> NoRows]
  /\ stored = [c \in Calls |-> NoRows]
  /\ mirror = [c \in Calls |-> <<>>]
  /\ events = [c \in Calls |-> <<>>]
  /\ token = {}
  /\ inflight = {}
  /\ version = [t \in Targets |-> 0]
  /\ landed = [c \in Calls |-> None]

\* approval_override turns an ask, and only an ask, into an allow.
Downgraded(c) == req[c].override /\ effect[c] = "ask"

\* Slip: the override lifts a deny as well.
DecisionLiftsDeny(c) == IF req[c].override THEN "allow" ELSE effect[c]

Decision(c)   == IF Downgraded(c) THEN "allow" ELSE effect[c]

\* The call stops after its dry_run.
DryOnly(c) ==
  \/ req[c].dryRun
  \/ req[c].tool \in DryByDefault
  \/ Decision(c) = "dry_run_only"

\* Everything but the step of c's own control flow stays.
Goto(c, from, to) == pc[c] = from /\ pc' = [pc EXCEPT ![c] = to]

\* input_schema rejects the arguments: one event, no transaction, no record.
Reject(c) ==
  /\ Goto(c, "idle", "done")
  /\ verdict' = [verdict EXCEPT ![c] = "invalid"]
  /\ events' = [events EXCEPT ![c] = <<EventOf("invalid")>>]
  /\ UNCHANGED <<req, effect, snapshot, txn, stored, mirror, token, world>>

(***************************************************************************)
(* Arguments are valid: the transaction scope opens and the policy answers.*)
(* A denied call goes straight to its record; an asked call of a mutating  *)
(* tool is previewed first; any other is rehearsed if it will stop there   *)
(* or if the tool mutates.                                                 *)
(***************************************************************************)
Invoke(c) ==
  /\ pc[c] = "idle"
  /\ pc' = [pc EXCEPT ![c] =
       CASE Decision(c) = "deny" -> "insert"
         [] Decision(c) = "ask"  -> IF req[c].tool \in Mutating THEN "preview" ELSE "insert"
         [] OTHER -> IF DryOnly(c) \/ req[c].tool \in Mutating THEN "dry" ELSE "insert"]
  /\ verdict' = [verdict EXCEPT ![c] =
       CASE Decision(c) = "deny" -> "denied"
         [] Decision(c) = "ask"  -> "asked"
         [] OTHER                -> "none"]
  /\ UNCHANGED <<req, effect, snapshot, txn, stored, mirror, events, token, world>>

\* _do_ask: the preview may succeed, fail, time out or be cancelled; whatever
\* happens, the approval request is recorded.
Preview(c) ==
  /\ Goto(c, "preview", "insert")
  /\ UNCHANGED <<req, effect, verdict, snapshot, txn, stored, mirror, events, token, world>>

\* dry_run returns; its before_snapshot is the content the target has now.
DryRun(c) ==
  /\ Goto(c, "dry", "insert")
  /\ snapshot' = [snapshot EXCEPT ![c] = version[req[c].target]]
  /\ verdict' = [verdict EXCEPT ![c] = IF DryOnly(c) THEN "dry" ELSE "none"]
  /\ UNCHANGED <<req, effect, txn, stored, mirror, events, token, world>>

\* dry_run raises, times out, or is cancelled: recorded as failed.
DryRunFails(c) ==
  /\ Goto(c, "dry", "insert")
  /\ verdict' = [verdict EXCEPT ![c] = "dry_failed"]
  /\ UNCHANGED <<req, effect, snapshot, txn, stored, mirror, events, token, world>>

\* SQLite has one writer: the transaction that inserted first holds the write
\* lock until it ends.
Locked(c) == \E d \in Calls \ {c} : txn[d].row

\* tool_call_writer.insert: the final row of a call that does not run, the
\* preliminary row of one that does.
InsertToolCall(c) ==
  /\ ~Locked(c)
  /\ Goto(c, "insert", IF verdict[c] # "none" THEN "audit"
                       ELSE IF req[c].tool \in Reversible THEN "journal" ELSE "run")
  /\ txn' = [txn EXCEPT ![c].row = TRUE]
  /\ UNCHANGED <<req, effect, verdict, snapshot, stored, mirror, events, token, world>>

\* journal.record_before, in the same transaction, before run.
RecordBefore(c) ==
  /\ snapshot[c] # None
  /\ Goto(c, "journal", "run")
  /\ txn' = [txn EXCEPT ![c].before = snapshot[c]]
  /\ UNCHANGED <<req, effect, verdict, snapshot, stored, mirror, events, token, world>>

\* Slips: the tool runs all the same; what was written is committed first.
JournalFailsOpen(c) ==
  /\ "journal" \in Faults
  /\ Goto(c, "journal", "run")
  /\ UNCHANGED <<req, effect, verdict, snapshot, txn, stored, mirror, events, token, world>>

\* record_before raises JournalWriteError: the transaction rolls back, the tool
\* does not run, and a fresh transaction records the blocked call.
JournalFails(c) ==
  /\ "journal" \in Faults
  /\ Goto(c, "journal", "insert")
  /\ txn' = [txn EXCEPT ![c] = NoRows]
  /\ verdict' = [verdict EXCEPT ![c] = "blocked"]
  /\ UNCHANGED <<req, effect, snapshot, stored, mirror, events, token, world>>

\* Slip: no check_cancel.
StartRunUnchecked(c) ==
  /\ Goto(c, "run", "running")
  /\ inflight' = IF req[c].tool \in Mutating THEN inflight \cup {c} ELSE inflight
  /\ UNCHANGED <<req, effect, verdict, snapshot, txn, stored, mirror, events, token, version, landed>>

\* check_cancel, then tool.run starts: a mutating tool hands its write to a
\* worker thread.
StartRun(c) ==
  /\ pc[c] = "run"
  /\ IF c \in token
     THEN /\ pc' = [pc EXCEPT ![c] = "audit"]
          /\ verdict' = [verdict EXCEPT ![c] = "run_cancelled"]
          /\ UNCHANGED inflight
     ELSE /\ pc' = [pc EXCEPT ![c] = "running"]
          /\ inflight' = IF req[c].tool \in Mutating THEN inflight \cup {c} ELSE inflight
          /\ UNCHANGED verdict
  /\ UNCHANGED <<req, effect, snapshot, txn, stored, mirror, events, token, version, landed>>

\* The worker thread's write takes effect, whether or not anyone still waits.
Land(c) ==
  /\ c \in inflight
  /\ inflight' = inflight \ {c}
  /\ landed' = [landed EXCEPT ![c] = version[req[c].target]]
  /\ version' = [version EXCEPT ![req[c].target] = @ + 1]
  /\ UNCHANGED <<pc, req, effect, verdict, snapshot, txn, stored, mirror, events, token>>

\* run returns: its write has landed.
RunReturns(c) ==
  /\ c \notin inflight
  /\ Goto(c, "running", "audit")
  /\ verdict' = [verdict EXCEPT ![c] = "succeeded"]
  /\ UNCHANGED <<req, effect, snapshot, txn, stored, mirror, events, token, world>>

\* Slip: the failure is not audited.
RunRaisesUnaudited(c) ==
  /\ Goto(c, "running", "commit")
  /\ verdict' = [verdict EXCEPT ![c] = "run_failed"]
  /\ inflight' = inflight \ {c}
  /\ UNCHANGED <<req, effect, snapshot, txn, stored, mirror, events, token, version, landed>>

\* run raises: the worker has ended, with or without its write.
RunRaises(c) ==
  /\ Goto(c, "running", "audit")
  /\ verdict' = [verdict EXCEPT ![c] = "run_failed"]
  /\ inflight' = inflight \ {c}
  /\ UNCHANGED <<req, effect, snapshot, txn, stored, mirror, events, token, version, landed>>

\* Slip: the timeout is never enforced.
RunNeverTimesOut(c) == FALSE /\ pc[c] = "running"

\* timeout_ms passes: the task is cancelled, its thread is not.
RunTimesOut(c) ==
  /\ Goto(c, "running", "audit")
  /\ verdict' = [verdict EXCEPT ![c] = "run_failed"]
  /\ UNCHANGED <<req, effect, snapshot, txn, stored, mirror, events, token, world>>

\* The token, or the host, cancels the run: again the thread goes on.
RunCancelled(c) ==
  /\ c \in token \/ "host_cancel" \in Faults
  /\ Goto(c, "running", "audit")
  /\ verdict' = [verdict EXCEPT ![c] = "run_cancelled"]
  /\ UNCHANGED <<req, effect, snapshot, txn, stored, mirror, events, token, world>>

\* AuditSink.record, first half: the database row.
AuditInsert(c) ==
  /\ Goto(c, "audit", "mirror")
  /\ txn' = [txn EXCEPT ![c].audit = AuditStatus(verdict[c])]
  /\ UNCHANGED <<req, effect, verdict, snapshot, stored, mirror, events, token, world>>

\* Second half: the line in the audit log file, which no rollback removes.
AppendMirror(c) ==
  /\ Goto(c, "mirror", "link")
  /\ mirror' = [mirror EXCEPT ![c] = Append(@, AuditStatus(verdict[c]))]
  /\ UNCHANGED <<req, effect, verdict, snapshot, txn, stored, events, token, world>>

\* tool_call_writer.update_result back-fills audit_log_id.
LinkAudit(c) ==
  /\ Goto(c, "link", "commit")
  /\ txn' = [txn EXCEPT ![c].linked = TRUE]
  /\ UNCHANGED <<req, effect, verdict, snapshot, stored, mirror, events, token, world>>

\* The transaction scope closes without an exception.
Commit(c) ==
  /\ Goto(c, "commit", "emit")
  /\ stored' = [stored EXCEPT ![c] = txn[c]]
  /\ txn' = [txn EXCEPT ![c] = NoRows]
  /\ UNCHANGED <<req, effect, verdict, snapshot, mirror, events, token, world>>

\* The failures that can strike a call at each write; a second writer waiting
\* for the lock fails when the busy timeout passes.
FaultAt(c) ==
  \/ pc[c] = "insert" /\ (Locked(c) \/ "tool_call" \in Faults)
  \/ pc[c] = "journal" /\ (snapshot[c] = None \/ "snapshot" \in Faults)
  \/ pc[c] = "audit" /\ "audit_db" \in Faults
  \/ pc[c] = "mirror" /\ "audit_file" \in Faults
  \/ pc[c] = "link" /\ "link" \in Faults
  \/ pc[c] = "commit" /\ "commit" \in Faults

\* Slips: the pending events leave after a rollback; a failure to write the
\* record of a success is itself recorded, as a failure of the run.
WriteFailsAndEmits(c) ==
  /\ FaultAt(c)
  /\ pc' = [pc EXCEPT ![c] = "emit"]
  /\ txn' = [txn EXCEPT ![c] = NoRows]
  /\ UNCHANGED <<req, effect, verdict, snapshot, stored, mirror, events, token, world>>

WriteFailsAndRecords(c) ==
  /\ FaultAt(c)
  /\ pc' = [pc EXCEPT ![c] = IF verdict[c] = "succeeded" THEN "audit" ELSE "aborted"]
  /\ txn' = [txn EXCEPT ![c] = IF verdict[c] = "succeeded" THEN @ ELSE NoRows]
  /\ verdict' = [verdict EXCEPT ![c] = IF @ = "succeeded" THEN "run_failed" ELSE @]
  /\ UNCHANGED <<req, effect, snapshot, stored, mirror, events, token, world>>

\* Any other exception leaves the scope: rollback, no event, the exception goes
\* to the caller.  In the rescue transaction it is caught instead.
WriteFails(c) ==
  /\ FaultAt(c)
  /\ pc' = [pc EXCEPT ![c] = IF verdict[c] = "blocked" THEN "fallback" ELSE "aborted"]
  /\ txn' = [txn EXCEPT ![c] = NoRows]
  /\ UNCHANGED <<req, effect, verdict, snapshot, stored, mirror, events, token, world>>

\* asyncio.CancelledError passes every except Exception: the transaction is
\* dropped, unless its commit is already under way in the database thread.
HostCancel(c) ==
  /\ "host_cancel" \in Faults
  /\ pc[c] \in {"preview", "dry", "insert", "journal", "audit", "link", "commit", "emit"}
  /\ pc' = [pc EXCEPT ![c] = "aborted"]
  /\ \/ UNCHANGED stored
     \/ pc[c] = "commit" /\ stored' = [stored EXCEPT ![c] = txn[c]]
  /\ txn' = [txn EXCEPT ![c] = NoRows]
  /\ UNCHANGED <<req, effect, verdict, snapshot, mirror, events, token, world>>

\* _file_mirror_blocked_audit: one line in the file, best effort.
Fallback(c) ==
  /\ Goto(c, "fallback", "emit")
  /\ \/ mirror' = [mirror EXCEPT ![c] = Append(@, AuditStatus("blocked"))]
     \/ "audit_file" \in Faults /\ UNCHANGED mirror
  /\ UNCHANGED <<req, effect, verdict, snapshot, txn, stored, events, token, world>>

\* The pending events leave in order; then invoke returns, or raises the
\* deferred error.
Emit(c) ==
  /\ Goto(c, "emit", "done")
  /\ events' = [events EXCEPT ![c] =
       (IF Downgraded(c) THEN <<"policy.downgraded_by_approval">> ELSE <<>>)
         \o <<EventOf(verdict[c])>>]
  /\ UNCHANGED <<req, effect, verdict, snapshot, txn, stored, mirror, token, world>>

\* The user cancels the run the call belongs to.
Cancel(c) ==
  /\ c \notin token
  /\ pc[c] \in {"idle"} \cup Active
  /\ token' = token \cup {c}
  /\ UNCHANGED <<pc, req, effect, verdict, snapshot, txn, stored, mirror, events, world>>

\* The process dies: open transactions are lost, worker threads die with it,
\* and no code resumes the calls after a restart.
Crash ==
  /\ "crash" \in Faults
  /\ \E c \in Calls : pc[c] \in Active
  /\ pc' = [c \in Calls |-> IF pc[c] \in Active THEN "crashed" ELSE pc[c]]
  /\ txn' = [c \in Calls |-> NoRows]
  /\ inflight' = {}
  /\ UNCHANGED <<req, effect, verdict, snapshot, stored, mirror, events, token, version, landed>>

\* What the runtime does next for a call, whatever its tool does.
Step(c) ==
  \/ Preview(c) \/ DryRun(c) \/ DryRunFails(c)
  \/ InsertToolCall(c) \/ RecordBefore(c) \/ JournalFails(c)
  \/ StartRun(c) \/ RunTimesOut(c)
  \/ AuditInsert(c) \/ AppendMirror(c) \/ LinkAudit(c) \/ Commit(c)
  \/ WriteFails(c) \/ Fallback(c) \/ Emit(c)

\* What the tool, or its worker thread, does.
ToolStep(c) == Land(c) \/ RunReturns(c) \/ RunRaises(c)

\* What the user and the host do to a call under way.
Interrupt(c) == Cancel(c) \/ RunCancelled(c) \/ HostCancel(c)

Next ==
  \/ \E c \in Calls : Reject(c) \/ Invoke(c) \/ Step(c) \/ ToolStep(c) \/ Interrupt(c)
  \/ Crash

Spec == Init /\ [][Next]_vars

\* The event loop keeps running every invoke it started, and its timers fire;
\* tools, worker threads, users, the host and crashes owe nothing.
FairSpec == Spec /\ \A c \in Calls : WF_vars(Step(c))

-----------------------------------------------------------------------------

TypeOK ==
  /\ pc \in [Calls -> {"idle"} \cup Active \cup Ended]
  /\ req \in [Calls -> Requests]
  /\ effect \in [Calls -> Effects]
  /\ verdict \in [Calls -> Verdicts]
  /\ snapshot \in [Calls -> Nat \cup {None}]
  /\ txn \in [Calls -> Rows]
  /\ stored \in [Calls -> Rows]
  /\ mirror \in [Calls -> Seq(Statuses)]
  /\ events \in [Calls -> Seq(EventNames)]
  /\ token \subseteq Calls
  /\ inflight \subseteq Calls
  /\ version \in [Targets -> Nat]
  /\ landed \in [Calls -> Nat \cup {None}]

(***************************************************************************)
(* The rows of a call are committed together or not at all: a stored       *)
(* tool_call is linked to an audit row of the status its outcome calls for,*)
(* and it comes with a journal row exactly if a reversible tool was let    *)
(* run.  Every path of _do_deny, _do_ask, _do_allow_or_dry, the dry_run    *)
(* failure and the rescue has to write them in this way.                   *)
(***************************************************************************)
RecordIsWhole ==
  \A c \in Calls :
    IF stored[c].row
    THEN /\ stored[c].linked
         /\ stored[c].audit = AuditStatus(verdict[c])
         /\ stored[c].before # None <=>
              /\ req[c].tool \in Reversible
              /\ verdict[c] \in {"succeeded", "run_failed", "run_cancelled"}
    ELSE stored[c] = NoRows

(***************************************************************************)
(* A tool touches its target only if the policy allowed it, or asked and   *)
(* the user approved, and only if no dry run was called for: a deny is     *)
(* never overridden, and a rehearsal never writes, not even late.          *)
(***************************************************************************)
EffectWasAllowed ==
  \A c \in Calls :
    landed[c] # None \/ c \in inflight =>
      /\ effect[c] = "allow" \/ (effect[c] = "ask" /\ req[c].override)
      /\ ~req[c].dryRun
      /\ req[c].tool \notin DryByDefault

(***************************************************************************)
(* Fail closed: the write of a reversible tool lands only under a journal  *)
(* row whose before is no newer than the content replaced, unless the      *)
(* transaction that held the row was lost after the tool had started.      *)
(***************************************************************************)
EffectWasJournaled ==
  \A c \in Calls :
    /\ req[c].tool \in Reversible
    /\ landed[c] # None \/ c \in inflight
    /\ pc[c] \notin {"aborted", "crashed"}
    => LET rows == IF stored[c].row THEN stored[c] ELSE txn[c] IN
         /\ rows.before # None
         /\ landed[c] # None => rows.before <= landed[c]

(***************************************************************************)
(* Events leave after the commit and say what was committed: whoever hears *)
(* of a call's outcome finds its record.  Only a call refused by its       *)
(* schema, and a blocked one whose rescue failed, are announced without.   *)
(***************************************************************************)
EventTellsRecord ==
  \A c \in Calls :
    events[c] # <<>> =>
      /\ events[c][Len(events[c])] = EventOf(verdict[c])
      /\ verdict[c] \in {"invalid", "blocked"} \/ stored[c].row
      /\ EventOf(verdict[c]) = "tool_call.succeeded" => stored[c].audit = "success"

(***************************************************************************)
(* The audit log file holds a line for every committed audit row, and the  *)
(* lines of one call never contradict each other, though a line outlives   *)
(* the transaction it was written in.                                      *)
(***************************************************************************)
MirrorTellsRecord ==
  \A c \in Calls :
    /\ stored[c].row => mirror[c] # <<>>
    /\ \A i \in DOMAIN mirror[c] : mirror[c][i] = AuditStatus(verdict[c])

\* Committed rows are never changed or removed, and the file only grows: the
\* rescue writes a record only where none was committed.
RecordIsFinal ==
  [][\A c \in Calls :
       /\ stored[c].row => stored'[c] = stored[c]
       /\ mirror'[c] # mirror[c] => \E s \in Statuses : mirror'[c] = Append(mirror[c], s)]_vars

\* A tool is not started for a run that is already cancelled.
CancelStopsTheRun == [][inflight' \cap token \subseteq inflight]_vars

\* Whatever fails, hangs or is cancelled, invoke returns or raises.
EveryCallEnds == \A c \in Calls : pc[c] \in Active ~> pc[c] \in Ended

-----------------------------------------------------------------------------
(* What the documents promise and the code does not do. *)

\* runtime.py:16: an audit row on success, failure and block alike; here for
\* the calls that changed something.
EffectIsAudited ==
  \A c \in Calls :
    landed[c] # None /\ pc[c] \in {"done", "aborted"} => stored[c].audit # "none"

=============================================================================
