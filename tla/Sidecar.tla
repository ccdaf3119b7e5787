------------------------------- MODULE Sidecar -------------------------------
(***************************************************************************)
(* The desktop application and the sidecar it starts: main.rs with its     *)
(* SidecarBridge on one side, main of __main__.py on the other, the pipe   *)
(* of the child's standard output and the schema of the database between   *)
(* them.                                                                   *)
(*                                                                         *)
(* The application blocks on the first line of the pipe before it has a    *)
(* window.  The child writes that line when its services are built and     *)
(* listens afterwards.  Either may die at any step.  The bridge kills the  *)
(* child when it is dropped; whether it is, when the window is closed, is  *)
(* up to the toolkit, whose event loop may end the process instead.  A      *)
(* child that is left goes on beside the next one.                         *)
(***************************************************************************)
EXTENDS Naturals, Sequences

CONSTANTS
  MaxLaunches,  \* bound: starts of the application
  MaxFaults     \* bound: failures of the sidecar and of its operations

ASSUME SidecarAssumption == MaxLaunches \in Nat /\ MaxFaults \in Nat

VARIABLES
  app,       \* "closed", "spawning" (in main, before the window), "open"
  status,    \* SidecarBridge.status
  owned,     \* SidecarBridge.child is Some
  child,     \* how far the last child came
  stdout,    \* the lines the application has not read
  tables,    \* schema_v1.sql was executed on the database
  version,   \* its PRAGMA user_version
  faulted,   \* since the last launch, something failed
  strays,    \* earlier launches whose child still runs
  undropped, \* history: launches whose child runs although they gave it up, by an
             \* end without a drop or for want of a client
  launches, faults

strayVars == <<strays, undropped>>
bridgeVars == <<app, status, owned, launches, strayVars>>
childVars == <<child, stdout, tables, version>>
faultVars == <<faulted, faults>>
sidecarVars == <<bridgeVars, childVars, faultVars>>

Booting == {"starting", "scripted", "migrated", "providers", "loaded"}
Alive == Booting \cup {"announced", "serving"}

-----------------------------------------------------------------------------

SidecarInit ==
  /\ app = "closed" /\ status = "Starting" /\ owned = FALSE
  /\ child = "none" /\ stdout = <<>>
  /\ tables = FALSE /\ version = 0
  /\ faulted = FALSE
  /\ strays = {} /\ undropped = {}
  /\ launches = 0 /\ faults = 0

Fault ==
  /\ faults < MaxFaults
  /\ faults' = faults + 1
  /\ faulted' = TRUE

\* main of the application, up to the read of the first line.  It knows nothing of
\* a child that an earlier launch has left.
Launch ==
  /\ app = "closed"
  /\ launches < MaxLaunches
  /\ launches' = launches + 1
  /\ app' = "spawning"
  /\ status' = "Starting"
  /\ owned' = FALSE
  /\ child' = "starting"
  /\ strays' = strays \cup {n \in {launches} : child \in Alive}
  /\ stdout' = <<>>
  /\ faulted' = FALSE
  /\ UNCHANGED <<tables, version, undropped, faults>>

\* Slip: log lines go where the handshake goes.
LoggedToStdout(lines) == Append(lines, "log")

\* What a log line adds to the standard output: nothing, logs go to stderr.
Logged(lines) == lines

\* Slip: the script fails on a table that is there.
MigrateOnce ==
  /\ child = "starting"
  /\ stdout' = Logged(stdout)
  /\ IF version = 1 THEN child' = "migrated" /\ UNCHANGED tables
     ELSE child' = (IF tables THEN "dead" ELSE "scripted") /\ tables' = TRUE
  /\ UNCHANGED <<version, bridgeVars, faultVars>>

\* run_migrations: a database of version 1 is left alone, else the script is
\* executed, statement by statement outside a transaction, each IF NOT EXISTS.
Migrate ==
  /\ child = "starting"
  /\ stdout' = Logged(stdout)
  /\ IF version = 1 THEN child' = "migrated" /\ UNCHANGED tables
     ELSE child' = "scripted" /\ tables' = TRUE
  /\ UNCHANGED <<version, bridgeVars, faultVars>>

SetVersion ==
  /\ child = "scripted"
  /\ version' = 1
  /\ child' = "migrated"
  /\ UNCHANGED <<tables, stdout, bridgeVars, faultVars>>

\* _build_services reads the two tables, in this order.
ReadProviders ==
  /\ child = "migrated"
  /\ child' = "providers"
  /\ UNCHANGED <<stdout, tables, version, bridgeVars, faultVars>>

ReadProfiles ==
  /\ child = "providers"
  /\ child' = "loaded"
  /\ UNCHANGED <<stdout, tables, version, bridgeVars, faultVars>>

\* Slip: the line stays in the buffer of the child.
EmitUnflushed ==
  /\ child = "loaded"
  /\ child' = IF app = "spawning" THEN "announced" ELSE "dead"
  /\ UNCHANGED <<stdout, tables, version, bridgeVars, faultVars>>

\* _emit_handshake.  Without a reader the write fails and the child ends.
EmitHandshake ==
  /\ child = "loaded"
  /\ IF app = "spawning"
     THEN child' = "announced" /\ stdout' = Append(stdout, "handshake") /\ UNCHANGED undropped
     ELSE child' = "dead" /\ undropped' = undropped \ {launches} /\ UNCHANGED stdout
  /\ UNCHANGED <<tables, version, app, status, owned, launches, strays, faultVars>>

\* _serve: the socket was bound before, it listens from now on.
Serve ==
  /\ child = "announced"
  /\ child' = "serving"
  /\ UNCHANGED <<stdout, tables, version, bridgeVars, faultVars>>

\* The child fails in a step of its start (the port, the database), or dies.
ChildFails ==
  /\ child \in Alive
  /\ Fault
  /\ child' = "dead"
  /\ undropped' = undropped \ {launches}
  /\ UNCHANGED <<stdout, tables, version, app, status, owned, launches, strays>>

\* SidecarBridge.spawn, the first line is the handshake.
ReadHandshake ==
  /\ app = "spawning"
  /\ stdout # <<>> /\ Head(stdout) = "handshake"
  /\ app' = "open"
  /\ status' = "Ready"
  /\ owned' = TRUE
  /\ stdout' = Tail(stdout)
  /\ UNCHANGED <<child, tables, version, launches, strayVars, faultVars>>

\* The handshake was read and the thread that relays the output started, but no
\* client can be made of it: spawn returns before it keeps the child, which goes on.
ClientFails ==
  /\ app = "spawning"
  /\ stdout # <<>> /\ Head(stdout) = "handshake"
  /\ Fault
  /\ app' = "open"
  /\ status' = "Failed"
  /\ stdout' = Tail(stdout)
  /\ undropped' = undropped \cup {launches}
  /\ UNCHANGED <<owned, child, tables, version, launches, strays>>

\* Another line, or the end of the output: spawn returns before it keeps the child,
\* main notes the error and opens the window.
SpawnFails ==
  /\ app = "spawning"
  /\ IF stdout = <<>> THEN child = "dead" ELSE Head(stdout) # "handshake"
  /\ app' = "open"
  /\ status' = "Failed"
  /\ UNCHANGED <<owned, childVars, launches, strayVars, faultVars>>

\* SidecarBridge.shutdown: SIGKILL and wait, if the child was kept.
Shutdown ==
  /\ owned' = FALSE
  /\ child' = IF owned THEN "dead" ELSE child

\* The window is closed, main ends and drops the bridge.
AppCloses ==
  /\ app = "open"
  /\ app' = "closed"
  /\ Shutdown
  /\ UNCHANGED <<stdout, tables, version, status, launches, strayVars, faultVars>>

\* The application ends without a drop, by a crash or a close whose event loop does
\* not return: its child knows nothing of it.
AppExits ==
  /\ app \in {"spawning", "open"}
  /\ app' = "closed"
  /\ owned' = FALSE
  /\ undropped' = undropped \cup {n \in {launches} : child \in Alive}
  /\ UNCHANGED <<status, launches, childVars, strays, faultVars>>

\* A stray that was still starting migrates the database beside the next child: what
\* it does to it depends only on what has been done.
StrayMigrates ==
  /\ strays # {}
  /\ version = 0
  /\ IF tables THEN version' = 1 /\ UNCHANGED tables
     ELSE tables' = TRUE /\ UNCHANGED version
  /\ UNCHANGED <<child, stdout, bridgeVars, faultVars>>

\* It ends: by its handshake, which nobody reads, or whatever kills it, which is no
\* fault of the launch that runs.
StrayEnds(n) ==
  /\ n \in strays
  /\ strays' = strays \ {n}
  /\ undropped' = undropped \ {n}
  /\ UNCHANGED <<app, status, owned, launches, childVars, faultVars>>

StraySteps == StrayMigrates \/ \E n \in 1 .. MaxLaunches : StrayEnds(n)

\* The steps of the child that nobody has to ask for.
ChildSteps ==
  \/ Migrate \/ SetVersion \/ ReadProviders \/ ReadProfiles \/ EmitHandshake \/ Serve

SidecarNext ==
  \/ Launch \/ ChildSteps \/ ChildFails
  \/ ReadHandshake \/ ClientFails \/ SpawnFails
  \/ AppCloses \/ AppExits
  \/ StraySteps

\* The child's start is a program that runs, and so is the read that waits for it.
\* Nobody has to launch the application, to close it, or to fail; what becomes of a
\* stray is left open.
SidecarFairness ==
  /\ WF_sidecarVars(ChildSteps)
  /\ WF_sidecarVars(ReadHandshake \/ ClientFails \/ SpawnFails)

SidecarSpec == SidecarInit /\ [][SidecarNext]_sidecarVars /\ SidecarFairness

-----------------------------------------------------------------------------

SidecarTypeOK ==
  /\ app \in {"closed", "spawning", "open"}
  /\ status \in {"Starting", "Ready", "Failed"}
  /\ owned \in BOOLEAN
  /\ child \in Alive \cup {"none", "dead"}
  /\ stdout \in {<<>>, <<"handshake">>}
  /\ tables \in BOOLEAN
  /\ version \in {0, 1}
  /\ faulted \in BOOLEAN
  /\ strays \subseteq 0 .. MaxLaunches /\ undropped \subseteq 0 .. MaxLaunches
  /\ launches \in 0 .. MaxLaunches /\ faults \in Nat

\* The launches whose child runs and is kept by no bridge.
Unkept ==
  strays \cup {n \in {launches} : app # "spawning" /\ child \in Alive /\ ~owned}

(***************************************************************************)
(* A sidecar runs that no bridge keeps only because its application ended  *)
(* without a drop or had no client for it: a window that is closed leaves  *)
(* none in any other case.  A window that says it is ready keeps its       *)
(* sidecar.  One that says it failed has a sidecar beside it only if that  *)
(* had announced itself: no spawn gives up one that is still starting.     *)
(***************************************************************************)
StraysAreExplained ==
  /\ Unkept \subseteq undropped
  /\ app = "open" /\ child \in Alive =>
       IF status = "Ready" THEN owned ELSE child \in {"announced", "serving"}

\* The window says that the sidecar failed only if something did fail in this
\* launch, whatever an earlier one left half done in the database.
FailsOnlyByFault == status = "Failed" => faulted

\* The blocking read ends, again and again: the application is closed, or its window
\* is open, with a sidecar that listens or died, or with the error.
AppComesUp ==
  []<>(\/ app = "closed"
       \/ app = "open" /\ (status = "Failed" \/ child \in {"serving", "dead"}))
=============================================================================
