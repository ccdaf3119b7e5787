# Verified parts of OrcaFlow

TLA+ models of OrcaFlow's sidecar, checked with TLC on small instances, and
theorems about them checked with TLAPS for every value of the constants.

OrcaFlow runs workflows of LLM agents on the user's own machine. Its promise is
*policy before action*: whatever an agent does to a file or an application
passes the policy, the user's approval if the policy asks for it, the change
journal and the audit log, in that order, and can be undone. The modules here
are about that promise, about what the user is shown while a run is under way,
and about what is still there when the application is launched again: the places
where failures, timeouts, cancellations, restarts and several actors at once make
the order of steps matter.

Contents: 1 the system, 2 the modules and the code they stand for, 3 the runs,
4 fairness, 5 the proofs, 6 where code and documents disagree, 7 what is not
modelled, 8 plan.

## 1. The system

Three processes: a Tauri shell (Rust) that starts and supervises a Python
sidecar, the sidecar (FastAPI, everything below in *one* asyncio event loop,
plus worker threads for file and database operations), and a web frontend that
talks HTTP and server-sent events (SSE) to the sidecar.

### 1.1 Components

Paths are below `src/sidecar/orca_core/` unless they start with `src/`.

| component | state it keeps | operations | what makes it correct |
|---|---|---|---|
| tool runtime `tools/runtime.py` | per call: verdict, open transaction, pending events, cancel token | `invoke` with its branches deny, ask, dry run, allow; rescue of a blocked call | effect only if allowed; journal before effect; rows all or nothing; events only after the commit; every call ends |
| audit sink `audit/sink.py` | one row and one line of the log file per record | `record` | file and database tell the same; nothing recorded is changed |
| transaction scope `persistence/db.py` | SQLite connection, one writer at a time | begin, commit, rollback | all rows of a call or none |
| journal `journal/store.py` | before rows, spilled payloads | `record_before`, (`record_after`, restore: no caller) | what a tool takes away can be found |
| file tools `tools/fs/*.py`, `tools/_base.py` | the disk, temporary files, the trash | dry_run and run of write, move, delete | nothing is lost, writes are atomic |
| graph runner `orchestrator/runner.py` | queue, visited nodes, step, status | `run`, loop, tool dispatch, approval and retry | steps serial, along edges, once; cancel stops; the run ends |
| approval waiter, decide, cancel `ipc/routes/runs.py`, `approvals.py` | request state, event, timer, result | wait, `POST decide`, `POST cancel` | an answer is given once; only a standing approval resumes |
| event bus `orchestrator/events.py` | event ids, replay buffer, queues | `emit`, `subscribe`, `close_run`, `clear` | in order, none twice, no silent gap, streams end |
| SSE endpoint `ipc/sse.py` | one stream per client | connect, heartbeat, disconnect | as above, across reconnects |
| planner, chat `orchestrator/planner.py`, `ipc/routes/chat.py` | chat turns, last error of an attempt | two attempts, validation, preview of effects | what is shown is what the policy will decide |
| policy engine `policy/*.py` | none | `evaluate` | system paths first, then the least priority |
| run registry `ipc/routes/runs.py`, `ipc/dependencies.py` | handles in the order of starts, background tasks | start, finalize, retention, shutdown | no live run forgotten, finished ones bounded, an end is seen |
| provider adapters `providers/*.py` | HTTP client, attempt | chat with retries and pauses | bounded attempts, together with the planner's; the last error is raised |
| workflow schema `schema/workflow.py` | in-degrees, queue and count of Kahn's algorithm | validation, cycle check | what is accepted is acyclic with known nodes, what is refused is not |
| sidecar process `__main__.py`, `persistence/migrations.py` | port, database and its version, lifespan | migrate, load, handshake, listen, shutdown | a start never fails for an earlier one; the handshake is the first line |
| shell bridge `src/app/src-tauri/src/bridge/sidecar.rs`, `main.rs` | child, status under a lock | spawn with the read of the handshake, kill on drop | the window comes up; no sidecar is left but by an end without a drop or for want of a client |
| providers and profiles `ipc/routes/providers.py`, `llm_profiles.py`, `persistence/repo/*` | memory and tables of both | list, add, delete | what was answered holds across restarts; a profile has its provider |
| settings store `src/frontend/src/features/settings/store.ts` | two lists, requests under way | load, add, delete | the lists are the sidecar's |
| workflow editor `src/frontend/src/features/editor/*` | nodes, edges, dirty, mode, requests under way | edits on the canvas, in the inspector and of the YAML text; save, validate, new, load | edges and entrypoint are of nodes; what is shown as saved is what was saved |
| run store and stream `src/frontend/src/stores/run-store.ts`, `lib/ipc/run-stream.ts` | status of the open run and in the list, last id, retries | subscribe, reconnect, unsubscribe, cancel | what is shown is what the run is; the end is learnt or an error shown |

PROJECT.json lists all 35 components, the ones not modelled too, with reasons.

### 1.2 How they interact

1. `POST /runs` registers a handle and starts `GraphRunner.run` as a task. The
   task takes nodes from its queue, asks the model (`chat`), and passes each
   tool call of the answer to `ToolRuntime.invoke`.
2. `invoke` opens one database transaction for the tool_call, journal and audit
   rows of a call, evaluates the policy, rehearses the tool, journals, runs it
   in a worker thread, audits, commits, and emits its events. The audit line in
   the log file and the effect on the disk are outside the transaction.
3. A call for which the policy says *ask* returns `approval_pending`; the runner
   waits in the waiter `start_run` installed, which `decide`, `cancel` and a
   timer wake; an approved call is invoked again with `approval_override`.
4. Every step emits on the event bus, to which the SSE endpoint subscribes; the
   client reconnects with the id of the last event it saw.
5. The end of a run sets the status, emits the terminal event and closes the bus
   for that run; retention drops finished runs later.
6. The shell starts the sidecar and blocks on the first line of its output; the
   sidecar migrates its database, loads providers and profiles, writes that line
   and listens. From then on the window talks to it directly. The routes of
   providers and profiles change the memory, await a commit of their own, and answer.

### 1.3 What is hard

* *Interleaving of runs* at every await: two runs on one file, the journal's
  snapshot taken before another run's write.
* *One step of several failing*: six writes in `invoke`, each of which may fail,
  most of them again in the rescue of another.
* *Timeouts that do not stop what they time out*: a cancelled asyncio task, a
  worker thread that goes on.
* *Races of three*: an approval's answer, its timer and a cancel, each of which
  wakes the waiter in a later turn of the loop.
* *Reconnects and overflow* of a bounded buffer and bounded queues.
* *Three conversations about one run* (the run itself, its stream, the request
  that cancels it) which nothing keeps in step at the client.
* *Edits while a request is under way*: the editor's answers write over what the
  user did since.
* *Ends in the wrong order*: a run is done before its callback is called, is
  forgotten in the callback of another, and is followed by a stream that opens late.
* *Crash* between a tool's effect and the commit of its record; between a change in
  memory and its row; between the schema's script and the version that says it ran.
* *Answers out of order* to a window that changes its lists by them.

PROJECT.json lists these as 40 hazards at their lines with the properties that
would catch each of them going wrong.

## 2. Modules

| module | models | code |
|---|---|---|
| `ToolRuntime` | `invoke` as a whole, with the audit sink, the journal and the transaction | `tools/runtime.py`, `audit/sink.py`, `persistence/db.py` |
| `ToolRuntimeProofs` | eight theorems about it | |
| `RunSpec` | what a run promises to a user who polls it and answers its requests | `ipc/routes/runs.py`, `approvals.py` |
| `GraphRunner` | the run's task, its waiter, `decide` and `cancel`; implements `RunSpec` | `orchestrator/runner.py`, `ipc/routes/*.py` |
| `MCGraphRunner` | the workflow of its runs | |
| `GraphRunnerProofs` | six theorems about it, the refinement among them | |
| `EventBus` | the bus of one run, its subscribers and the SSE clients behind them; its actions are steps of `RunClient` | `orchestrator/events.py`, `ipc/sse.py` |
| `RunClient` | the desktop's stream and run store, over `EventBus` and an abstract run | `src/frontend/src/lib/ipc/run-stream.ts`, `stores/run-store.ts`, `ipc/sse.py` |
| `FileTools` | write, move and delete on the disk, one operation of `ToolIo` at a time | `tools/fs/*.py`, `tools/_base.py`, `journal/store.py` |
| `MCFileTools` | the calls of its runs | |
| `FileToolsProofs` | four theorems about it | |
| `WorkflowCheck` | the validation of a workflow, Kahn's algorithm step by step | `schema/workflow.py` |
| `MCWorkflowCheck` | the documents of its run | |
| `WorkflowCheckProofs` | four theorems about it | |
| `PolicyEngine` | `evaluate`, as operators | `policy/*.py`, `schema/policy.py` |
| `Planning` | planner turns, policies that change, the decisions of a run; over `PolicyEngine` | `orchestrator/planner.py`, `ipc/routes/chat.py`, `policies.py`, `runs.py` |
| `PlanningProofs` | five theorems about it and `PlannerChat`, the refinement among them | |
| `PlannerChat` | `Planning` with the adapter's posts, pauses and errors under each answer of the model; implements `Planning` | `providers/openai_compatible.py`, `orchestrator/planner.py` |
| `MCPlannerChat` | the policies and workflows of its run | |
| `RunRegistry` | the runs a sidecar keeps, from their start to their being forgotten, and the shutdown | `ipc/routes/runs.py`, `ipc/dependencies.py`, `ipc/sse.py` |
| `RunRegistryProofs` | four theorems about it | |
| `EditorStore` | the editor's store, its edits and its two requests | `src/frontend/src/features/editor/*` |
| `MCEditorStore` | the text that is typed in its run | |
| `FrontendProofs` | seven theorems about the window: five about `RunClient` with `EventBus`, two about `EditorStore` | |
| `Sidecar` | the application and the sidecar it starts: spawn, migration, handshake, kill | `src/app/src-tauri/src/bridge/sidecar.rs`, `main.rs`, `__main__.py`, `persistence/migrations.py` |
| `Settings` | providers and profiles in the window, the memory and the database; over `Sidecar` | `ipc/routes/providers.py`, `llm_profiles.py`, `persistence/repo/*`, `src/frontend/src/features/settings/*` |
| `SettingsProofs` | six theorems about both | |

Definitions named *Slip* in a module are the mistakes its properties are tried
against: each property has one that, put in place of the definition it follows,
makes TLC report the property violated.

### 2.1 ToolRuntime

`pc[c]` is where `invoke` stands for call `c`: `preview` and `dry` are the two
rehearsals, `insert`, `journal`, `audit`, `mirror`, `link` and `commit` the
writes in order, `run` and `running` before and after `tool.run` starts,
`fallback` the file line written when the rescue transaction failed too, `emit`
the release of the pending events. `verdict[c]` stands for the method the call
went through (`_do_deny`, `_do_ask`, `_do_allow_or_dry`, ...) and decides which
record is written; `AuditStatus` and `EventOf` are the constants those methods
pass.

* `txn[c]` holds the rows of the open transaction and `stored[c]` the committed
  ones; a rollback is `txn' = NoRows`. `mirror[c]` are the lines in the log file,
  which no rollback takes away. `Locked(c)` is SQLite's single writer: a second
  transaction that wants to write waits, and fails when the connection's timeout
  passes (`FaultAt`).
* `inflight`, `version` and `landed` are the world: a mutating tool's write is
  handed to a thread (`StartRun`), takes effect at some time (`Land`), also after
  the call has timed out or was cancelled, and contents are told apart by the
  number of writes that came before.
* Every failure is a constant of the instance (`Faults`), so that a run says
  which failures it allows.

Abstracted: arguments, results, scrubbing, the wording of errors; a tool's effect
on anything but one target; the limit on the size of an output.

### 2.2 RunSpec and GraphRunner

`pc` is what the run's task waits for: its first turn (`created`), `chat`, a
first `invoke` (`tool`), the waiter (`waiting`), the `invoke` after an approval
(`retry`). Between two of these the task does not suspend, so the loop head, the
routing and the events in between are one action (`LoopHead`, `FinishNode`). The
timer (`TimerFires`) and the waiter's wake-up (`Expire`, `Resume`) are separate:
`decide` and `cancel` fall in between. `approvals` are the run's requests in
order, `result` what woke the latest waiter. `log` is what the run emitted, each
event with its node.

`RunSpec` has three variables, `status`, `answer` and `cancelled`, and says what
a user may rely on. `GraphRunner` maps `answer` to the state of the latest
request and keeps the other two.

Abstracted: messages, artifacts, tool results, the text of conditions (each edge
may be taken or not: `Routes`), how a tool call ends (`ToolReturns`,
`ToolFails`, `ToolRaises`; `ToolRuntime` says that it does).

### 2.3 EventBus

One action for each stretch of `emit`, `subscribe`, `close_run` and `clear` that
does not suspend. The module has no next-state relation of its own: who connects,
reads and leaves is the client, and `RunClient` puts the steps together. A subscriber is `out`, `connecting` (the HTTP handler has
found the run, the generator has not begun), in its `replay`, `live` on its
queue, or `over`. `last[s]` is the id of the last frame the client received, the
Last-Event-ID with which it comes back after `Leave`.

Abstracted: payloads, heartbeats, the queue between producer and response in
`sse.py` (it is unbounded and ends with its stream).

### 2.4 FileTools

The disk maps paths to inodes and inodes to contents: `rename` changes the first
map, `write` the second, which is what makes a write through a shared temporary
file visible. `handle[c]` is the inode a write has open; `holder` the call that
holds the database's write lock, which every journaled call holds from its
before row to its end, and gives up when it is abandoned by a timeout
(`Abandon`) while its thread works on. `pc` names the next operation of `ToolIo`.
Calls in `Late` may outlive their timeout; the others do not, so that a run can
tell which threads do.

Abstracted: directories, permissions, the diff preview, the size of a content
but for being larger than the cap (`Large`). Calls of one run follow each
other even after a failure, which the runner would not do: the model allows more
than the code there.

### 2.5 RunClient

Extends `EventBus`: its subscribers are the clients' connections, and its
`Emit`, `CloseRun` and eviction happen as the run goes. `outcome`, `endId` and
`token` are what of the run matters here: how it ended, the id of its terminal
event, and whether it was cancelled. `conn[s]` is where `subscribeRunEvents`
stands (`fetching`, `reading`, `backoff`, and the three ways it stops by itself or
is stopped: `closed`, `error`, `stopped`), `retries[s]` its count, `shown[s]` the
status of the open run and `summary[s]` the one in the list, `cancel[s]` the
request that cancels.

`Receive` delivers a frame and lets `OnEvent` set both statuses; `StreamDone`
is the end of the body, which is taken for the end of the run; `Breaks`,
`Failed` and `NotFound` are the ways a connection fails, of which all but the
404 are tried again; `CancelAnswered` writes what the answer means whatever the
stream has delivered meanwhile.

Abstracted: the step tree and the list of events, `fetchRun` (no caller), the
time a backoff takes, and the end of a stream by an exception of its producer
(`stream.error`, `sse.py:60-66`, `83-86`). A frame cut off by a break counts as not received, as the
parser dispatches at the blank line only.

### 2.6 WorkflowCheck

A document is its list of ids, its list of edges and its entrypoint, chosen in
`Init` and never changed. `Refuse` and `Count` are the checks of form and the
two initialising loops; `Take(n)` one turn of the `while`, with all the edges from
`n` to a successor taken off at once; `Conclude` the comparison at the end. The
code takes nodes from the end of a list that began as the iteration of a set,
so any node of the queue may be the next. `order` keeps the nodes of which the
code keeps the number (`visited`); the properties need the nodes.

What this module shows of an accepted workflow (a finite acyclic graph with a
known entrypoint) is what `GraphRunner` assumes of its constants.

### 2.7 PolicyEngine and Planning

A call is a tool and the set of things its arguments name (paths, a command,
hosts, an action); a rule is *on* a set of tools or of things, which stands for
its scope and its matcher, so that matching is a non-empty intersection. The
matcher resolves paths on the file system each time it is asked
(`matcher.py:142-152`), and the system paths before it do not: `Reached` are the
things a call may come to reach, each of its paths leading to itself or to another,
and every decision chooses among them anew, so that the same call may be answered
differently twice.
`Evaluate` is the order of the code: system paths, then the matching rule of
least priority, then the default of the mode.

`policies` is the dictionary, `first` the key it yields first, which is what
both `resolve_policy` and the chat route fall back on. `turn[t]` is a request to
the planner; `SendTurn` reads the policy, and only then does the model answer
(`Planned`, `Refused`, `ChatFails`), so that every `Put` may come in between. A
turn's `said` has a line for each tool, `"nothing"` where the code prints none.
`run[r].policy` is the policy object the run's context keeps. `Decide` is one
question to the policy, with any arguments; what becomes of the call after that is
`ToolRuntime`'s.

Abstracted: texts, ids and owners of rules, the list of questions and the
confidence of a plan. Roles and tools are constants, as nothing changes them.

### 2.8 PlannerChat

Extends `Planning`. What is one answer of the model there is a loop of posts here:
`post[t]` is where `OpenAICompatibleAdapter.chat` stands (`headers` while it looks
for the key, `posted`, `pausing`), its attempt and the error it raised last;
`made[t]` counts what the turn has posted. `Passing` are the failures that are
tried again, `Final` those that are not. `Disappoints` is an answer the planner
cannot use, after which it calls `chat` again from the start, once; `Raises` is
an exception the planner lets through: the provider's, or that of an answer whose
JSON has a shape nobody expects (`Misshapen`: a list for the body, no object for a
tool call's arguments; `openai_compatible.py:348`, `365-386`), which the HTTP layer
turns into `orca.unknown`. `ErrorOf` is the code the client gets. Every action is one
of `Planning` or a stutter of it.

Abstracted: the body of a request, the length of a pause, the content of an
answer (a plan, or the stage at which the planner refuses it).

### 2.9 RunRegistry

`task[r]` is `new` until the loop gives the task its first turn, `live` while it
runs, `done` or `crashed` when it has ended and its callback is yet to be called,
`over` afterwards. `runs` and `background` are the two collections of
`AppServices`, `number[r]` the place of a run in the dictionary's order of
insertion. `Finalize` is `_finalize_run` with the `_cleanup_run` it ends in, one
turn of the loop; what it leaves to two new tasks (`late[r]`) is `LateEmit` and
`LateClose`. `Evicted` is what `_cleanup_run` forgets. `bus[r]` says whether the bus
has an entry of the run, and one that is closed. `stream[c]` is a stream from the handler that finds the run
(`Connect`) to the generator that subscribes (`Subscribe`) and its end; `dropped` and
`astray` are those nobody will end. `phase` is the process: the server drains on a
signal, then runs the shutdown hook (`CancelAllRuns`), then returns
(`ServerReturns`), and `asyncio.run` cancels and awaits what is left.

A run's life between start and end is `GraphRunner`'s, what its stream carries
`EventBus`'s. `Settle` stands for every end in which the runner said how; `Crash`
for an exception raised while it did, as `_finalize_run` is there to settle.

Abstracted: requests other than starts and streams that are under way when the
signal comes, and the sidecar being killed, after which nothing is kept.

### 2.10 EditorStore

One action for each edit of the canvas (`EditCanvas`), of the inspector, which
stays beside the YAML view (`InspectNode`), and of the text (`EditYaml`); for the
toggle, New, and the start and the end of the two requests, `Saved` and
`Validated`, between which the user goes on. `Document` is what the store sends:
`flowToWorkflow` and `workflowToYaml`, which leave out the tools that are edited in
the inspector (`NodeInspector.tsx:31-37`, `rf-to-schema.ts:30-43`); `NodesOf` and `EdgesOf` are the way back.
`Acceptable` is what the sidecar says of a document (`WorkflowCheck`). `stored` is
the sidecar's dictionary, `workflowId` a place in it. `undisturbed` is a history
variable: whether anything but an edit of a clean canvas has happened since the
last save began.

Abstracted: the name and the description of the workflow, selection and error
texts; role, label, position and overrides of a node are one datum. The condition
of an edge is left out, as no component lets the user write it, and
`loadWorkflow`, which this sidecar answers in a shape the store cannot read (6).

### 2.11 Sidecar

`app` is where `main.rs` stands: `spawning` from the start to the end of
`SidecarBridge.spawn`, during which there is no window, then `open`. `child` is how
far `main` of `__main__.py` came: `scripted` and `migrated` are the two steps of
`run_migrations`, `providers` and `loaded` the two reads of `_build_services`,
`announced` after the handshake, `serving` once the server listens. `stdout` is the
pipe between them, `tables` and `version` the database as the migration sees it:
both survive the process. `status` and `owned` are the bridge's two fields;
`Shutdown` is the kill its drop performs, which `AppCloses` reaches and
`AppExits` does not: `main.rs` leaves it to the toolkit whether `run` returns to
`main` when the window is closed, and the model takes both. `ClientFails` is the
return from `spawn` after the handshake and before the child is kept
(`sidecar.rs:124`). `strays` are the earlier launches whose child still runs when the
next one begins: a stray that was starting migrates the database beside the new child
(`StrayMigrates`), and ends at any time (`StrayEnds`); `undropped` is the history of
how such children came to be left. `Logged` says what a log line adds to the pipe, which is
nothing since logs go to stderr. `faulted` is a history variable of the
launch.

Abstracted: the port and the secret, the relay threads, what the HTTP client of the
bridge is for, and a child that neither writes nor ends. Its start waits for nothing
but the pipe of its log: stderr is piped (`sidecar.rs:82`) and drained only after the
handshake (`116`), so that a child that had logged more than the pipe holds before its
handshake would wait for the application, which waits for it (4).

### 2.12 Settings

Extends `Sidecar`. `registry` and `llm_profiles` are the sidecar's memory, `rows` and
`profileRows` its tables, `shown` and `shownProfiles` the window's lists, in which
a provider may stand more than once. A profile is represented by the provider it names.
`request[s]` is a request from its sending (`sent`) over the handler, which changes the
memory and awaits the database (`writing`), to its answer (`answered`) and what the
store does with it (`ReceiveOk`, `ReceiveError`). `Allowed` is what the keys of the
tables say: `REFERENCES providers`, `ON DELETE RESTRICT`, `UNIQUE`. A crash of the
sidecar takes the memory and fails what is in flight but for the answers that had
arrived (`Dies`); a start loads what the tables hold. The lists go with their window
(`NoLists`).

`told` and `toldProfiles` are what the answers have said so far, `doubt` and `stale`
what they leave open, `blind` the profiles that were written to memory while their
provider was not there: history variables of the properties.

Abstracted: all fields but the id, whether names are the same, and the provider of
a profile; the health and the models of a provider, which are only read. `PUT
/llm-profiles` has no caller in the window.

## 3. The runs

| run | module, configuration | what it asks | answer |
|---|---|---|---|
| `tool_call` | `ToolRuntime`, `ToolRuntime_call.cfg` | one call of a reversible, an irreversible or a reading tool, any answer of the policy, any flag, any combination of failures: are its records whole, its effect allowed and journaled, its events true, its file lines consistent; does it stop on cancel; does it end? | yes, once effects of lost transactions are set aside (3.2) |
| `tool_unaudited_effect` | `ToolRuntime`, `ToolRuntime_unaudited_effect.cfg` | is every effect audited? | no, finding 1 |
| `graph_run` | `MCGraphRunner`, `GraphRunner_run.cfg` | a run with a join, several calls and approvals, against decide, cancel and the timer | steps serial, stream and status agree, approvals and cancel do what they say, the run ends, `RunSpec` is implemented |
| `graph_decided` | `MCGraphRunner`, `GraphRunner_decided.cfg` | is a decision final? | no, finding 2 |
| `run_client` | `RunClient`, `RunClient_monitor.cfg` | a client that opens its monitor, cancels, loses its connection and comes back, against a run that overflows buffer and queue, ends, is closed and dropped | events arrive in order, none twice, none skipped in silence; a stream taken for complete has told how the run ended; the list is wrong only after a cancel that came too late; the client learns the end or shows an error |
| `files_undo` | `MCFileTools`, `FileTools_undo.cfg` | three calls on two or three paths, failing or losing their transaction anywhere, one with a thread that outlives it | nothing is lost without a named reason, the journal accounts for what is replaced, writes are atomic |
| `files_late_thread` | `MCFileTools`, `FileTools_late_thread.cfg` | are writes atomic if a thread that writes outlives its call? | no, finding 3 |
| `workflow_check` | `MCWorkflowCheck`, `WorkflowCheck_all.cfg` | every list of up to four edges between three nodes, and malformed documents | what is accepted is acyclic, what is refused has a cycle |
| `planner_chat` | `MCPlannerChat`, `PlannerChat_turn.cfg` | a turn whose posts fail in passing or for good, or are answered with what is of no use, beside a run and its decisions, while policies are replaced and workflows come and go | what the user was told holds under the policy it was told of, but for rules about arguments that go first; posts are bounded; every turn ends, with a plan or the reason why there is none, but for 3.2 |
| `run_registry` | `RunRegistry`, `RunRegistry_life.cfg` | runs that end, crash and are forgotten, streams that open and close, and a signal | finished runs are bounded, the oldest go first, never one that runs; an end is seen by who polls; the process ends but for 3.2 |
| `editor_edits` | `MCEditorStore`, `EditorStore_edits.cfg` | edits of the canvas and of the text, New, saves and validations in any order | edges stay between nodes; without the badge the document drawn is what was saved, but for 3.2 |
| `settings_life` | `Settings`, `Settings_life.cfg` | launches, closes and crashes of the application and its sidecar at any step, and a window that adds, creates, deletes and lists meanwhile | no sidecar is left but for the reasons of 3.2; a start fails only if something fails in it; answers hold across restarts, profiles keep their providers, lists agree, but for 3.2; the window comes up and requests end |

### 3.1 Bounds, and why they are enough

* `ToolRuntime`: one call, with every combination of its failures. Calls share the
  target, the write lock and the process, so the run shows no contention between calls
  of `invoke`, which two of the hazards are about
  (the rows of a call while another writes, `runtime.py:711`; the lock held while a
  tool runs, `db.py:73`): that is the theorems', for any number of calls that
  contend, and any tools, targets and faults; `FileTools` has three calls on one
  target. Three tools are the kinds the runtime tells apart (mutating
  and reversible, mutating only, neither). Everything is finite without a bound: a
  call goes through `invoke` once.
* `GraphRunner`: the workflow `a -> b`, `a -> c`, `b -> c`, `b -> d`, `c -> d` has
  nodes that are queued twice and joins on paths of different length, the shapes
  for which breadth-first order, `visited` and the conditions matter; cycles are
  refused by the schema. `MaxCalls = 2` lets a call precede and
  follow another in a step, `MaxAsks = 2` an approval follow one that was
  answered or expired, so that a stale answer could be taken for a new one.
* `FileTools`: a move with another path, a write to either and a second run's
  write are the smallest set with an overwritten destination, a source that
  disappears and a path two runs want. The third call's content is `Large`, the
  first call's thread is `Late`. Two paths, or three where all calls have the same
  destination (`MCInit`): with two, a late move and the move of the call that has the
  lock have the one source between them, and never race for the destination. Paths are
  interchangeable (symmetry); no liveness is checked there. The theorems hold for any
  number of paths, calls and runs.
* `RunClient`: one client, since `emit` and `close_run` treat each subscriber on its
  own and clients share nothing but the run and its replay buffer, which they only
  read. Five events, with `BufferSize = QueueSize = 2`, let the buffer wrap more than
  once, a queue fill and its subscriber be dropped, and a client miss more than the
  buffer holds; `MaxRetries = 2` is the smallest count with a retry that succeeds and
  one that is the last (the code has 3); three failures of the network exhaust it and
  leave one more; a second opening of the monitor meets what the first left in the
  store. The theorems hold for any of these numbers and any clients.
* `WorkflowCheck`: three nodes and four edges have every cycle of two and of
  three nodes, with and without a way in, doubled edges on and off a cycle, and
  nodes with several predecessors. Its theorems hold for documents of any size.
* `Planning` and `PlannerChat`: a seed policy and one to PUT, in one of which rules
  about paths go before those about tools and in the other behind, stricter in
  one and more lenient in the other; paths of the system, of the user and none; a
  workflow that names a policy and one that does not. One turn and one run, as turns
  and runs share only the policies; `MaxCalls = 1`, as a run keeps the policy it began
  with and each decision is judged by itself; `MaxRetries = 2`, where the code has 3, gives
  each of the planner's two attempts a first and a last post. The theorems hold for
  any policies, turns, runs and retries.
* `RunRegistry`: three runs of which one is kept, so that two callbacks can be
  outstanding while a third run is forgotten or forgets them. One client, which
  opens one stream after the other: streams share nothing but the run, and the
  server waits for each. The theorems hold for any number of runs and any limit.
* `EditorStore`: three edits are two nodes and an edge, or a node, its flag and its
  deletion; two saves let one follow another; one validation at a time
  (`MaxValidations`) meets every edit and save. Two data values tell a change from
  none; the typed text starts at its second node, which no canvas built from
  nothing does without a flag. The theorems hold for any number of edits, saves and
  validations, and any texts.

* `Settings`: two providers and two profiles of one name, two requests at a time, of
  which one may overtake the other, and four in all: a provider, its profile and the
  deletion of both, or a deletion beside a creation and the lists after it. Two
  launches with one fault between or in them, so that each launch meets what the
  other left; the theorems hold for any number of all of these.

### 3.2 What the properties exempt

An exemption is a fact about the code, not a convenience; each is stated in the
property itself.

* `EffectWasJournaled` leaves out calls whose transaction was lost after the tool
  had started (`aborted`, `crashed`): the row goes with it and the effect stays.
* `NothingIsLost` and `ReplacedIsJournaled` leave out contents too large to
  journal (the journal keeps none), what only the row of a lost transaction
  kept, and what another call brought to the path after the rehearsal: for a write,
  which keeps what the rehearsal read, a call of another run (`Contended`); for all,
  a call the lock does not keep out, since it or the call itself is a thread that
  goes on after its call (`Raced`).
* `NoSilentSkip` lets the close of a run cost a client one event more: the
  sentinel displaces the oldest event of a full queue.
* `ListTellsOutcome` allows *cancelled* for a run that ended otherwise after its
  cancellation was accepted: the answer to the request is written over what the
  stream said. It, like `ClosedIsTold`, is about queues of two and more: in a
  queue of one the sentinel would displace the terminal event itself.
* `PreviewHolds` speaks of a run with the policy the turn was checked by: a PUT, an
  override or a policy the workflow names may have changed it since. It allows
  what a rule about arguments says that goes before all rules about the tool
  (`ByArguments`), since the planner decides without arguments.
* `FailureIsTold` leaves out the answer of a shape nobody expects: the exception it
  raises is no `ProviderError`, neither the adapter nor the planner catches it, and
  the turn is answered 500 with `orca.unknown` (`http_app.py:105-115`), which names
  neither a stage nor a failure of the provider.
* `CleanIsSaved` is about the document: the tools edited in the inspector never reach
  it and are saved by nobody. It leaves out what was edited or begun anew while the save was under
  way, since its answer clears the badge all the same; a canvas that a validation's
  answer has put back; and a save that failed.
* `ClientLearns` leaves out the client that is `Stranded`: one that `emit` dropped as
  too slow waits on a queue whose sentinel could not be put (`events.py:133-135`) and
  sees heartbeats until it leaves; so does one that subscribed to a run that was
  forgotten between its request and its stream.
* `ShutdownEnds` leaves out a signal that meets such a stranded stream, whose client
  stays: the server waits for it, and only a second signal ends the process.
* `EndIsSeen` is about the time before the shutdown hook: a run that it cancels keeps
  the status it had, since the runner handles no `CancelledError`.

* `StraysAreExplained` leaves out the sidecars that are in `undropped`: nothing tells a
  child that its application ended without a drop, and nothing kills one for which the
  bridge got no client (`sidecar.rs:124`); either stays (6), also beside the next
  launch. Of these it says how far they came: no spawn gives up a sidecar that has not
  announced itself.
* `AnswersHold` leaves out the ids in `doubt`: those whose last write failed (the
  memory stays changed, 6), was lost with a process, or ran beside another of the same
  id, since a provider that is listed may be deleted before the answer to its addition
  has come.
* `ProfilesAreLinked` leaves out of the memory, never of the table, the profiles in
  `blind`: `create_profile` does not ask whether the provider is there, and changes the
  memory before the key refuses the row.
* `ListsAgree` leaves out the ids in `stale`: what changed while a list was on its way,
  what failed, and a deletion that overtook the answer to an addition, which then
  appends a provider that is gone.
* `Start` waits until a sidecar that lost its application has finished what it was
  asked, and is about the new one only: an application is launched by hand, and the
  old one has nobody to ask it for anything.
* New ids are taken one after the other (`CHOOSE`): they are generated, and which one
  is next does not matter. Unlike a symmetry, this is sound for liveness too.

`CHECK_DEADLOCK FALSE` where everything may end: calls, runs, streams, validations,
the process and the launches do. `Planning`, `PlannerChat` and `EditorStore` always have a next
step, and TLC checks that they do.

## 4. Fairness

* `ToolRuntime!FairSpec`: weak fairness of `Step(c)` for each call, the steps the
  event loop or a timer takes without help. `Land`, `RunReturns`, `RunRaises`, the
  user, the host and crashes owe nothing, so `EveryCallEnds` rests on the timeout
  of the run (`_run_with_timeout`), not on the tool.
* `GraphRunner!FairSpec`: weak fairness of `Runner`, the steps of the run's own
  task and of its timer. `chat` ends by its HTTP timeout and `invoke` by
  `EveryCallEnds`. Nobody has to decide or to cancel: `RunEnds` rests on the TTL.
* `RunClient!ClientFairSpec`: the run ends and is closed (`GraphRunner!RunEnds`,
  after which `close_run` is called), and the client goes on: its timer fires, its request for the stream is answered or fails, what
  has arrived is read (`Progress`). Nobody has to cancel or to look.
* `RunRegistry!FairSpec`: a run's task gets its turns and ends (`RunEnds`), the loop
  calls callbacks and runs what was created (`Advances`), streams are served
  (`Serves`), and the server goes on with its shutdown when it can (`Closes`). Nobody
  has to start a run, to connect, to leave or to send a signal, and a second signal
  may never come.
* `PlannerChat!ChatFairSpec`: weak fairness of `Advances(t)` for each turn: a post
  ends by the HTTP timeout, a pause by its timer, the secret store answers. Nobody
  has to send a turn; the other actors owe nothing.
* `Settings!Fairness`: the start of a sidecar goes on (`Boots`, `LoadProviders`,
  `LoadProfiles`), as every step of it is local and ends or raises. This supposes that
  what it logs before the handshake fits the pipe of stderr, which the application
  drains only after it has read the handshake (`sidecar.rs:82`, `116`); a longer log
  would block both for good, and `AppComesUp` does not show otherwise. The read of the
  first line goes on, and so does each request: its handler and its commit (`Served`),
  or the answer or the refused connection (`Answered`). What becomes of a stray is left
  open. Nobody has to launch, to ask, to close
  the window or to fail. `SidecarSpec` says the same of `Sidecar` alone.
* `FileTools`, `WorkflowCheck`, `Planning` and `EditorStore` have no liveness of
  their own. The first two are about safety only; in the others it is up to the
  user whether anything happens.

## 5. The proofs

All theorems hold for every value of the constants under the modules' named
assumptions (`ToolRuntimeAssumption`, `GraphRunnerAssumption`,
`FileToolsAssumption`, `WorkflowCheckAssumption`, `PolicyEngineAssumption`,
`PlanningAssumption`, `PlannerChatAssumption`, `RunRegistryAssumption`,
`SidecarAssumption`, `SettingsAssumption`, `EventBusAssumption`,
`RunClientAssumption`, `EditorAssumption`), which TLC evaluates in the runs. They say
that bounds are numbers, that sets are finite where the code has them in memory, and
what the constants' members look like. Two modules' theorems have a hypothesis beside
them: three about the file tools suppose `NoLateWriter` (5.3), one about the editor
`TextsAreJoined` (5.9).

Every safety invariant, action property and refinement that a run checks is proved.

A type invariant, and what else a proof settles at little cost (`RecordIsFinal`,
`QueuedOnce`, `LiveIsReachable`), is proved and not part of a run; every other
theorem is about a property that some run checks as well, or a refinement.

### 5.1 ToolRuntimeProofs

`TypeCorrect`, `RecordsAreWhole`, `EffectsWereAllowed`, `EffectsWereJournaled`,
`EventsTellRecords`, `MirrorsTellRecords`, `RecordsAreFinal`,
`CancelStopsRuns`.

None of the invariants is inductive: that a stored row is whole follows from
what the open transaction held at each point, and that from the verdict. The
inductive invariant is `TypeOK` and, for each call, five parts:

* `PhaseInv`: which verdicts may be pending where, and that only an allowed call
  is where it may run;
* `TxnInv`: which rows the transaction holds at each `pc`;
* `StoredInv`: committed rows are whole and exist only after the commit;
* `OutputInv`: lines and events agree with the verdict;
* `EffectInv`: an effect, landed or in flight, belongs to an allowed call that
  got to run, and the rehearsal's snapshot is no newer than what it replaced.

`OwnStep` proves that a step of a call keeps the call's part, action by action;
`OtherStep` that it leaves the others' parts alone, the target's version
excepted, which only grows; `CrashStep` the same of a crash.

### 5.2 GraphRunnerProofs

`TypeCorrect`, `ResumedOnlyByApproval`, `CancelStopsSteps`, `SerialSteps`,
`StreamTells` and `RefinesRunSpec`, for any finite workflow, any number of calls and approvals.
The inductive invariant is `TypeOK`, `StatusInv` (the status is a function of
`pc`) and `AnswerInv` (what wakes a waiter is the state of its own request, or
a cancel). The second is what the race of decide, timer and cancel is about: a
stale answer would break it. `LoopHeadDoes` and `FinishNodeDoes` say once what
the loop does to all variables; `WorksDoes` and `WorksQuietly` lift that to all
steps of the task that do not touch an approval. `StepKeeps` maps each action
to the one of `RunSpec` it implements, or to a stutter.

`SerialSteps` and `StreamTells` are about the whole history of events, and need an
invariant that ties it to the state, `StoryInv`: the steps started are of visited
nodes, each finished before the next (`Serial`); a step that is not finished is the
current node's (`OpenAt`); the task waits exactly when the last event asks; and
before the end no event ends the run (`Unended`), so that the one that does is the
last. Lemmas say what one more event adds to such a history (`OtherEvent`,
`StartEvent`, `GoesOn`), so that each action is a few of them in a row.

### 5.3 FileToolsProofs

`TypeCorrect` without a condition; if no thread that writes outlives its call
(`NoLateWriter`), `AtomicWrites`: no path ever holds a file half written;
`RowsAreTrue`: the journal accounts for what a call replaced; and `TracesStay`:
nothing is lost without trace. The run `files_late_thread` shows that the first
needs the condition. For it, the invariant is `LockInv`
(a call that writes holds the database's lock, so there is one), `TmpInv` (the
temporary files are files of their own), `FreshInv` (a call's inode is nowhere
before it is opened), `OpenInv` (what a write has open is the temporary file of
its path, full before the swap), `WritesAreWhole`.

The other two rest on `UInv`. A rehearsal stays true until its call replaces the file
(`BeforeInv`), as only a call of another run, or past the lock, can come in between
(`Intrusion`, from `SerialInv` and the lock); a move finds its destination free,
but for such a call (`MoveInv`); nobody writes to what is in the trash
(`TrashInv`). `NothingIsLost` is not kept step by step: a row may be the only trace of a
content another call's row had kept. So its proof follows a stronger notion,
`Accounted`: a content is on the disk, in the row of the call that replaced it, or
exempt, and stays so (`AccountsStay`); and what any row holds is accounted for
(`SnapInv`). That races never end (`RacesStay`) makes the exemptions last.

### 5.4 WorkflowCheckProofs

`TypeCorrect`, `AcceptedOnlyIfAcyclic`, `RefusedOnlyIfCyclic` and
`NodesQueuedOnce`: Kahn's algorithm, with parallel edges, for documents of any
size. Invariant: `DegreeInv` (an in-degree is the number of edges whose source
has not been taken), `QueueInv` (the queue holds exactly the nodes without such
an edge that were not taken), `OrderInv` (no node is taken twice, and each after
its predecessors) and `VerdictInv`. The first makes the second inductive, and
that nothing is queued twice follows from it: a node that was queued had no open
edge, so none is left to take off. The verdicts then compare `Len(order)`, the number
of nodes taken (`CountOrder`), with the number of nodes.

### 5.5 PlanningProofs

`TypeCorrect` and `PreviewsHold`, for any policies. The inductive
invariant is `TypeOK`, `SaidInv` (what a turn said is `Expected` of its policy
and its plan), `DecidedInv` (every decision of a run is `Evaluate` of the run's
policy and of what the call's paths led to then; a run that has not begun has none) and the part that an id is first only
if it is there. The step
from there to `PreviewHolds` is about `Evaluate` alone: a candidate of least
priority exists (`FirstExists`, from the well-foundedness of the order on the
naturals), and adding arguments can change the answer only through a rule about
them with a smaller priority than any about the tool (`ArgumentsAccount`), as
priorities in a policy are distinct.

### 5.6 PlanningProofs: PlannerChat

`ImplementsPlanning`, `PostsBounded` and `FailuresAreTold`, for any number of
turns and any `max_retries`. The first is a step simulation with the identity as
its mapping, `PlannerChat` having all the variables of `Planning` (`StepImplements`);
through it the theorems of 5.5 hold of the planner with its adapter.
The invariant is `CountInv`: by where a turn's request stands, how often the turn may
have posted, `Earlier(t)` being what the planner's first attempt may have used up. The
bound on `made` alone is not inductive, as it says nothing of a turn half way
through its first attempt. `OneTurn` and `ChatRaises` say once what a step does to
the other turns and what a raise leaves behind; `CodesTell` that only a misshapen
answer has the code `orca.unknown`, so that what the client is told names the failure
in every other case.

### 5.7 RunRegistryProofs

`LiveAreReachable`, `EndsAreSeen`, `OldestGo` and `FinishedBounded`, for any number of
runs and any limit. The inductive invariant is `TypeOK`, `LiveIsReachable` and `SettledInv`, which
adds to `EndIsSeen` what a callback will find. `OldestGo` rests on
`EvictedAreOldest`: the set of idle runs up to a run grows with its number, and so
does its cardinality, so that with a run go all idle ones before it.

`FinishedBounded` says that enough are forgotten, which one would show by induction over
the idle runs, with an operator as the theorem's parameter. It is shown without one, by
ranks (`KeptAreBounded`): the rank of an idle run, how many idle ones have no greater
number, is injective, as numbers differ (`NumberInv`), and above `Overflow` for those
that are kept; and between that and the number of idle runs there are no more ranks than
the limit. Other steps end no run for good (`OthersFinishNone`).

### 5.8 SettingsProofs

`TypeCorrect`, `StraysExplained`, `StartsAgain`, `ProfilesKeepProviders`, `AnswersStand`
and `ListsStand`, for any providers, profiles, requests at a time, launches and faults.
The inductive invariant has five parts.

* `SidecarInv` adds to the two properties of the process, `StraysAreExplained` and
  `FailsOnlyByFault`, what makes them inductive:
  while the child boots the application has read nothing (`BootInv`), so that the
  first line is the handshake and who sent it is kept; a child that is dead while the application waits has failed
  (`DeathInv`), wherever the migration was left by an earlier one; only an open window
  keeps a child (`OwnedInv`), and a stray is of an earlier launch (`EarlierInv`), so that
  the end of a child explains no other away. A step of `Settings`
  is one of `Sidecar`, a fault or a stutter there (`NextMovesSidecar`).
* `Types`, in which a request is one of its operation's (`Requests`): what `Commit`
  writes is a provider or `None` because of where the request came from.
* `LinkInv` is `ProfilesAreLinked` and that nobody writes between the two reads of a
  start. In memory the check of `delete_provider` and the handler's not suspending
  carry it; in the tables the keys do, and `LoadProfiles` needs both reads to have
  seen one state.
* `AnswersInv`, for `AnswersHold`, is about every pair of requests in flight. Of two
  writes of one id neither is `alone` (`AloneInv`); one that is alone, once handled, is
  in memory, and once done in the tables and in the memory of every later sidecar
  (`DoneInv`); and an id without `doubt` that no write is changing is in the answers, the
  tables and, when it is loaded, the memory alike (`AgreeInv`). `ClosedInv` puts in doubt
  what a closed window was waiting for.
* `ListsInv`, for `ListsAgree`: an answered list carries what the memory has, but for
  what it noted of the writes that crossed it (`TouchedInv`, `ListedInv`); the window
  shows an id that is not `stale` as the memory has it, but for a new profile that will
  come with the next list (`ShownInv`, `ToCome`); what is being created is not shown
  (`NewInv`), and of an id that was not given yet there is nothing anywhere (`GivenInv`).

### 5.9 FrontendProofs

*The client of a run*: `TypeCorrect`, `ClosedAreTold`, `ListsTell`, `InOrder` and
`NothingSkipped`, for any number of clients, any buffer and queue, run and failures of
the network. The inductive invariant says what is on the way to a client as one chain
of ids: the buffer holds the latest ids and none is missing (`BufferInv`); a replay
continues where the client stood, or begins with a `run.gap` (`ReplayInv`); a queue
continues its replay, but for one event the sentinel may have displaced (`QueueInv`);
and a registered queue reaches up to the bus's last id (`ListenInv`), whose end the
chain so has in common with the run's (`Tip`, `Top`). `StopInv` says that the sentinel
comes after the run's last event, if a queue has room for two; `PhaseInv` and `ToldInv`
that a stream which is over, or a client that has the last id, has told both statuses how
the run ended. The order of frames and the absence of silent gaps are then what one
step does to such a chain (`Received`). That a run can end between the request for a
stream and its subscription, be forgotten in it, or be closed with a full queue, is
what the disjuncts with `Gone` are for.

What a subscriber misses is the tail of the buffer after `Last-Event-ID`. `Beyond`
defines it by the point where the buffer splits, not by selection of elements, which
the library defines recursively.

*The workflow editor*: `CanvasIsSaved` and `EdgesKeepEnds`, for any data and texts and
any number of edits, saves and validations. The first adds to `CleanIsSaved`, which
speaks of no moment in which a save is under way, that what is being saved is
what is drawn if nothing came in between (`SavingInv`); every edit disturbs a save that
is under way (`EditDraws`). The second, `EndsInv`, adds the text of the YAML view to the
places where an edge may be, since `ApplyYaml` brings it back to the canvas. The
editor does not look at the ends of a text's edges when it reads one, so the theorem
supposes `TextsAreJoined`: what users type joins nodes of the same text. It shows
that the editor loses no end by itself, by a deletion, an answer or its own text.
Nodes and edges are removed by `Only`, which keeps the elements at some places by
their ranks: `OnlyKeeps` shows with the ranks' injection that these are all of them.

### 5.10 Only model-checked

`EveryCallEnds`, `RunEnds`, `ClientLearns`, `TurnEnds`, `ShutdownEnds`, `AppComesUp` and
`RequestsEnd` are liveness under fairness, which needs `ENABLED` and this prover does
not do. That each property can be violated by a mistake (the definitions named *Slip*)
and the counterexamples of section 6 are TLC's alone.

## 6. Where code and documents disagree

Each is the counterexample of a run; PROJECT.json quotes the sentence.

1. `tool_unaudited_effect`: the audit record is written after the tool has run,
   in the transaction of the other rows. If the log file cannot be written, all
   is rolled back and the effect stays without a record; `runtime.py:16`
   promises a record on every path.
2. `graph_decided`: a timer that fires in the turn of a decision overwrites it by
   `expired`; `approvals.py:38` says that only pending can transition.
3. `files_late_thread`: every write to a path uses the same temporary name, and a
   timeout does not stop the thread; the late `replace` publishes a file that
   another call has just truncated. `write_file.py:26` speaks of an atomic rename.

Seen, and without a run:

* A run cancelled in its last step succeeds, and one whose model or tool fails after
  the cancel fails; `cancel.py:21-22` says it is settled as cancelled.
* The scope `__main__` installs hands out a stub writer without the `insert`
  method that `invoke` calls (`__main__.py:118`), so that no call gets past its
  first write in the process as it is started; with a database, as the modules
  have it, it does.
* `__main__` fills no roles: the planner's every answer with a node is refused
  at `workflow_references` (`planner.py:318`) until an embedding program does.
* A policy is stored under the id of the path while its rules keep the id of the
  body (`policies.py:42`): what `PUT /policies/{id}` returns may be refused when it
  is sent back (`schema/policy.py:79-83`).
* The design has a static policy check before a run starts
  (`OrcaFlow.design.md:715`, `409` at line 442); `start_run` does
  none.
* A tool with `default_dry_run`, which the schema asks of every mutating tool,
  is never run: no caller can say otherwise (`runtime.py:179`).
* A join runs when its first predecessor routes to it, before the others have
  run (`runner.py:206`); the design speaks of topological order.
* A pending approval of a cancelled run stays pending (`runs.py:326`).
* A slow subscriber that is dropped is not told (3.2).
* A run that crashes and is forgotten in its own callback gets its entry in the bus
  back from the two tasks the callback created, for good (`runs.py:182-195`, then
  `198`).
* The shell ends the sidecar by `kill`, which is SIGKILL (`sidecar.rs:149`), so that
  the shutdown hook is for other senders of signals; the design has a request to
  `/shutdown`, five seconds of grace and SIGTERM first (`OrcaFlow.design.md:777`). The
  handshake is awaited without the ten seconds and the two retries of
  `OrcaFlow.do.md:119`. A sidecar that dies later stays `Ready`: nobody looks at the
  child again.
* The routes change the memory before they await the database: a write that fails
  answers 500 and leaves the memory changed until the next start
  (`providers.py:51-55`, `llm_profiles.py:27-31`); a deletion that failed is undone by
  it.
* `create_profile` does not ask whether the provider is there, nor whether the name is
  taken: both are refused by the table, after the memory has the profile.
* The answer to an addition appends to the list as it is: beside a list that already
  has the provider it stands twice, after a deletion it stands though it is gone
  (`store.ts:59-60`).
* A sidecar whose application ended without dropping the bridge goes on serving, and
  the next launch starts another on the same database. A crash is one such end, and
  so is every close if the toolkit's event loop ends the process and does not return
  from `run` (`main.rs:91-98`): the kill is in the drop alone.
* A sidecar that announced itself goes on if the bridge can make no client of the
  handshake (`sidecar.rs:124`): `spawn` returns before it keeps the child, the window
  says *Failed*, and closing it kills nothing.
* An answer of the model's provider whose JSON has the wrong shape ends a turn with 500
  `orca.unknown` (`openai_compatible.py:348`, `365-386`, `http_app.py:105-115`), not with
  one of the provider's errors.
* The run store reads `stepId` and other camel-case names from payloads that
  carry `run_step_id`, so that the step tree stays empty; the status is not
  affected (`run-store.ts:103-160`).
* The answer to a save clears the badge "Unsaved" and sets the workflow's id, also
  over edits made and a workflow begun since it was sent (`store.ts:324-328`).
* The answer to a validation writes back the nodes and edges that were sent, over
  later edits (`store.ts:350-357`).
* New resets the counter of node ids and a parsed text does not raise it, so that ids
  may repeat; the sidecar then refuses the document.
* `GET /workflows/{id}` answers with the text and the parsed document, of which the
  editor reads neither: loading a workflow fails. As the YAML text has no id, each
  save stores another workflow.
* The tools a user edits in the inspector do not reach the document, and a dragged
  node may have a position that is no integer, which the schema wants.
* Opening the monitor of a finished run, or cancelling one, makes its status in
  the list go back until the stream has been replayed.

## 7. What is not modelled

* The audit chain and restore: planned (8).
  `ToolRuntime` takes the policy's answer as given (`Effects`); `PolicyEngine` says
  which it is.
* The routes for configuration, tools and health, `PUT /llm-profiles`: one assignment
  to a dictionary each, or only reading.
* Reading and remote tools beyond being tools with or without side effect: what
  they do is up to the operating system or a server.
* The repositories that have no caller, and record schemas: conversions and SQL.
* Forms, components other than the editor's, scripts and CI: no state that outlives
  a request, or rendering.

## 8. Plan

Modules, in order:

1. `ToolRuntime`, `GraphRunner` with `RunSpec`, `EventBus`, `RunClient`,
   `FileTools`, `WorkflowCheck`, `Planning` with `PolicyEngine`, `PlannerChat`,
   `EditorStore`, `RunRegistry`, `Sidecar`, `Settings`, and eight modules of proofs:
   done.
2. `AuditChain` and a restore action of `FileTools`.
3. `Settings` with requests that a sidecar left by a crash still serves while the next
   one runs on the same database; `Sidecar` has their two migrations.

Theorems: every safety property of the runs has its own. Next are that a `Settings`
behaviour is one of `Sidecar` but for its faults, as a refinement; that what
`WorkflowCheck` accepts meets `GraphRunnerAssumption`; and the safety of the modules to
come.

Checks that only show a disagreement (section 6) give way to runs of the new
modules when the two together would take too long to be run on every change.
