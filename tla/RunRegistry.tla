------------------------------ MODULE RunRegistry ------------------------------
(***************************************************************************)
(* The runs a sidecar keeps: they are registered when they start, settled  *)
(* by a callback when their tasks are done, forgotten when there are too   *)
(* many, and cancelled when the process ends.                              *)
(*                                                                         *)
(* What a run does between its start and its end is GraphRunner's, what    *)
(* its stream carries EventBus's.  Here a run has a task, a status, a      *)
(* place in the registry and an entry in the bus, which go separately.     *)
(***************************************************************************)
EXTENDS Naturals, FiniteSets

CONSTANTS
  Runs,
  Clients,    \* connections that may carry a stream
  Retention,  \* run_retention
  None

ASSUME RunRegistryAssumption ==
  /\ IsFiniteSet(Runs)
  /\ Retention \in Nat
  /\ None \notin Runs

VARIABLES
  runs,        \* the ids in services.runs
  number,      \* the place of a run in the order of starts, 0 before its own
  task,        \* each run's task; "done" before its callback was called, "over" after
  status,      \* the snapshot's status, by kind
  background,  \* background_tasks
  bus,         \* what the bus keeps of a run
  late,        \* what the callback of a crashed run has left to do
  stream,      \* the stream of each client
  phase        \* of the process

registry == <<runs, number, background>>
vars == <<registry, task, status, bus, late, stream, phase>>

Started(r) == number[r] > 0
Running(r) == task[r] \in {"new", "live"}
NoStream == [run |-> None, pc |-> "none"]

\* close_run wakes every subscriber, of the run's bus entry or of one that was cleared.
Told(r) ==
  [c \in Clients |-> IF stream[c] = [run |-> r, pc |-> "reading"]
                     THEN [run |-> r, pc |-> "ending"] ELSE stream[c]]

-----------------------------------------------------------------------------

Init ==
  /\ runs = {}
  /\ number = [r \in Runs |-> 0]
  /\ task = [r \in Runs |-> "none"]
  /\ status = [r \in Runs |-> "none"]
  /\ background = {}
  /\ bus = [r \in Runs |-> "absent"]
  /\ late = [r \in Runs |-> "nothing"]
  /\ stream = [c \in Clients |-> NoStream]
  /\ phase = "serving"

\* start_run: registered before its task has run.
StartRun(r) ==
  /\ phase = "serving"
  /\ ~Started(r)
  /\ number' = [number EXCEPT ![r] = Cardinality({s \in Runs : Started(s)}) + 1]
  /\ runs' = runs \cup {r}
  /\ background' = background \cup {r}
  /\ task' = [task EXCEPT ![r] = "new"]
  /\ status' = [status EXCEPT ![r] = "active"]
  /\ UNCHANGED <<bus, late, stream, phase>>

\* The task's first turn emits run.started.
Begin(r) ==
  /\ task[r] = "new"
  /\ phase \in {"serving", "draining"}
  /\ task' = [task EXCEPT ![r] = "live"]
  /\ bus' = [bus EXCEPT ![r] = "open"]
  /\ UNCHANGED <<registry, status, late, stream, phase>>

\* The run ends: its last event, its status and the close of the bus in one turn.
Settle(r) ==
  /\ task[r] = "live"
  /\ task' = [task EXCEPT ![r] = "done"]
  /\ status' = [status EXCEPT ![r] = "terminal"]
  /\ bus' = [bus EXCEPT ![r] = "closed"]
  /\ stream' = Told(r)
  /\ UNCHANGED <<registry, late, phase>>

\* The task raises before it could say so.
Crash(r) ==
  /\ task[r] = "live"
  /\ task' = [task EXCEPT ![r] = "crashed"]
  /\ UNCHANGED <<registry, status, bus, late, stream, phase>>

\* A cancelled task ends without settling the run: CancelledError is none of the
\* exceptions that run handles.
Die(r) ==
  /\ Running(r)
  /\ phase \in {"cancelling", "closing"}
  /\ task' = [task EXCEPT ![r] = "done"]
  /\ UNCHANGED <<registry, status, bus, late, stream, phase>>

Overflow == IF Cardinality(runs) > Retention THEN Cardinality(runs) - Retention ELSE 0

\* Slip: as many as there are above the limit, less one.
EvictedOneLess ==
  LET idle == {r \in runs : ~Running(r)} IN
  IF Retention = 0 THEN {}
  ELSE {r \in idle : Cardinality({s \in idle : number[s] <= number[r]}) < Overflow}

\* Slip: also those that run.
EvictedRunning ==
  IF Retention = 0 THEN {}
  ELSE {r \in runs : Cardinality({s \in runs : number[s] <= number[r]}) <= Overflow}

\* What _cleanup_run forgets: of those that do not run, the first in the order of
\* insertion, as many as there are above the limit.  No limit if it is not positive.
Evicted ==
  LET idle == {r \in runs : ~Running(r)} IN
  IF Retention = 0 THEN {}
  ELSE {r \in idle : Cardinality({s \in idle : number[s] <= number[r]}) <= Overflow}

\* Slip: the status of a crashed run is left to its task.
FinalizeUnsettled(r) ==
  /\ task[r] \in {"done", "crashed"}
  /\ task' = [task EXCEPT ![r] = "over"]
  /\ UNCHANGED <<status, late>>
  /\ background' = background \ {r}
  /\ runs' = runs \ Evicted
  /\ bus' = [s \in Runs |-> IF s \in Evicted THEN "absent" ELSE bus[s]]
  /\ UNCHANGED <<number, stream, phase>>

\* _finalize_run, in a turn of the loop after the task is done: the status of a
\* crashed run is settled, its last event and the close of the bus are left to
\* tasks of their own; then _cleanup_run, which may forget this run too.
Finalize(r) ==
  /\ task[r] \in {"done", "crashed"}
  /\ task' = [task EXCEPT ![r] = "over"]
  /\ IF task[r] = "crashed"
     THEN /\ status' = [status EXCEPT ![r] = "terminal"]
          /\ late' = [late EXCEPT ![r] = "emit"]
     ELSE UNCHANGED <<status, late>>
  /\ background' = background \ {r}
  /\ runs' = runs \ Evicted
  /\ bus' = [s \in Runs |-> IF s \in Evicted THEN "absent" ELSE bus[s]]
  /\ UNCHANGED <<number, stream, phase>>

\* The two tasks, in the order of their creation.  An entry that was cleared
\* meanwhile is made anew.
LateEmit(r) ==
  /\ late[r] = "emit"
  /\ late' = [late EXCEPT ![r] = "close"]
  /\ bus' = [bus EXCEPT ![r] = IF @ = "absent" THEN "open" ELSE @]
  /\ UNCHANGED <<registry, task, status, stream, phase>>

LateClose(r) ==
  /\ late[r] = "close"
  /\ late' = [late EXCEPT ![r] = "nothing"]
  /\ bus' = [bus EXCEPT ![r] = "closed"]
  /\ stream' = Told(r)
  /\ UNCHANGED <<registry, task, status, phase>>

\* stream_events finds the run; the response has not begun.
Connect(c, r) ==
  /\ phase = "serving"
  /\ stream[c] = NoStream
  /\ r \in runs
  /\ stream' = [stream EXCEPT ![c] = [run |-> r, pc |-> "asked"]]
  /\ UNCHANGED <<registry, task, status, bus, late, phase>>

\* Nobody is left who would emit or close on the bus for the run.
Silent(r) == r \notin runs /\ task[r] # "crashed" /\ late[r] = "nothing"

\* Slip: that the run was closed is not looked at.
SubscribeUnchecked(c) ==
  /\ stream[c].pc = "asked"
  /\ stream' = [stream EXCEPT ![c].pc = IF Silent(stream[c].run) THEN "astray" ELSE "reading"]
  /\ UNCHANGED <<registry, task, status, bus, late, phase>>

\* It begins, and ends after the replay if the bus knows the run as closed.  If the
\* run was forgotten meanwhile it waits all the same.
Subscribe(c) ==
  /\ stream[c].pc = "asked"
  /\ LET r == stream[c].run IN
     stream' = [stream EXCEPT ![c].pc =
                  CASE bus[r] = "closed" -> "ending"
                    [] bus[r] # "closed" /\ Silent(r) -> "astray"
                    [] OTHER -> "reading"]
  /\ UNCHANGED <<registry, task, status, bus, late, phase>>

\* emit drops a subscriber whose queue is full, which is not told.
DropSlow(c) ==
  /\ stream[c].pc = "reading"
  /\ task[stream[c].run] = "live" \/ late[stream[c].run] = "emit"
  /\ stream' = [stream EXCEPT ![c].pc = "dropped"]
  /\ UNCHANGED <<registry, task, status, bus, late, phase>>

StreamEnds(c) ==
  /\ stream[c].pc = "ending"
  /\ stream' = [stream EXCEPT ![c] = NoStream]
  /\ UNCHANGED <<registry, task, status, bus, late, phase>>

\* The client goes.
Leave(c) ==
  /\ stream[c] # NoStream
  /\ stream' = [stream EXCEPT ![c] = NoStream]
  /\ UNCHANGED <<registry, task, status, bus, late, phase>>

\* A signal: the server accepts nothing more and waits for open responses.
Exit ==
  /\ phase = "serving"
  /\ phase' = "draining"
  /\ UNCHANGED <<registry, task, status, bus, late, stream>>

\* When there are none left, the application's shutdown hook, cancel_all_runs.
CancelAllRuns ==
  /\ phase = "draining"
  /\ \A c \in Clients : stream[c] = NoStream
  /\ phase' = "cancelling"
  /\ UNCHANGED <<registry, task, status, bus, late, stream>>

\* The server returns, after the hook or upon a second signal without it, and
\* asyncio.run cancels whatever there is, streams included.
ServerReturns ==
  /\ phase \in {"draining", "cancelling"}
  /\ phase' = "closing"
  /\ stream' = [c \in Clients |-> NoStream]
  /\ UNCHANGED <<registry, task, status, bus, late>>

Stop ==
  /\ phase = "closing"
  /\ \A r \in Runs : task[r] \in {"none", "over"}
  /\ phase' = "stopped"
  /\ UNCHANGED <<registry, task, status, bus, late, stream>>

Up == phase # "stopped"

\* What a run's task and the event loop bring about.
Advances(r) == Up /\ (Begin(r) \/ Settle(r) \/ Die(r) \/ Finalize(r) \/ LateEmit(r) \/ LateClose(r))
Serves(c) == Up /\ (Subscribe(c) \/ StreamEnds(c))
Closes == CancelAllRuns \/ (phase = "cancelling" /\ ServerReturns) \/ Stop

Next ==
  \/ \E r \in Runs : StartRun(r) \/ Advances(r) \/ (Up /\ Crash(r))
  \/ \E c \in Clients :
       \/ \E r \in Runs : Connect(c, r)
       \/ Serves(c)
       \/ Up /\ (DropSlow(c) \/ Leave(c))
  \/ Exit \/ Closes \/ ServerReturns

Spec == Init /\ [][Next]_vars

\* A run's task ends (GraphRunner!RunEnds), the loop calls callbacks and runs
\* tasks, the server reads and returns.  Nobody has to start, to connect, to
\* leave or to end the process.
FairSpec ==
  /\ Spec
  /\ \A r \in Runs : WF_vars(Advances(r))
  /\ \A c \in Clients : WF_vars(Serves(c))
  /\ WF_vars(Closes)

-----------------------------------------------------------------------------

TypeOK ==
  /\ runs \subseteq Runs /\ background \subseteq Runs
  /\ number \in [Runs -> Nat]
  /\ task \in [Runs -> {"none", "new", "live", "done", "crashed", "over"}]
  /\ status \in [Runs -> {"none", "active", "terminal"}]
  /\ bus \in [Runs -> {"absent", "open", "closed"}]
  /\ late \in [Runs -> {"nothing", "emit", "close"}]
  /\ stream \in [Clients -> [run : Runs \cup {None},
                             pc : {"none", "asked", "reading", "ending", "dropped",
                                    "astray"}]]
  /\ phase \in {"serving", "draining", "cancelling", "closing", "stopped"}

\* However many runs end, in whatever order their callbacks are called, those that
\* are over and kept are no more than run_retention (runs.py:210), if there is a
\* limit.
FinishedAreBounded ==
  Retention > 0 => Cardinality({r \in runs : task[r] = "over"}) <= Retention

\* A run whose task goes on can be polled, cancelled and decided, and is reached by
\* the shutdown hook: its handle is in the registry, its task among those in the
\* background.
LiveIsReachable == \A r \in Runs : Running(r) => r \in runs \cap background

\* What is forgotten does not run, and was the oldest that did not (runs.py:218): no
\* run is forgotten before an older one that could be.
OldestGoFirst ==
  [][\A r \in runs \ runs' :
       /\ ~Running(r)
       /\ \A s \in runs' : number[s] < number[r] => Running(s)]_vars

\* A client that polls never finds a run active whose task is over (runs.py:163),
\* unless the process is going down.
EndIsSeen ==
  phase \in {"serving", "draining"} =>
    \A r \in runs : task[r] = "over" => status[r] = "terminal"

\* A stream nobody will end: its client was dropped as too slow, or subscribed after
\* the run was forgotten.
Stranded(c) == stream[c].pc \in {"dropped", "astray"}

\* A signal ends the process, without a second one, as streams end with their runs:
\* but for one that is stranded and whose client stays.
ShutdownEnds == phase = "draining" ~> (phase = "stopped" \/ \E c \in Clients : Stranded(c))

=============================================================================
