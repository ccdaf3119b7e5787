-------------------------------- MODULE RunClient --------------------------------
(***************************************************************************)
(* The desktop client of a run: subscribeRunEvents, which reads the SSE    *)
(* stream of EventBus and reconnects when it breaks, and the run store,    *)
(* which turns events and the answer of POST cancel into the status the    *)
(* user sees.                                                              *)
(*                                                                         *)
(* The run, the stream and the cancel request are three conversations that *)
(* nothing keeps in step: the answer to a cancel may be processed before   *)
(* or after any event, a stream may break between any two frames, and the  *)
(* run may be dropped while a client is away.                              *)
(***************************************************************************)
EXTENDS EventBus

CONSTANTS
  MaxRetries,  \* MAX_RETRIES, 3
  MaxBreaks,   \* bound: failures of the network
  MaxShows     \* bound: times a client opens its monitor

ASSUME RunClientAssumption ==
  /\ MaxRetries \in Nat
  /\ MaxBreaks \in Nat
  /\ MaxShows \in Nat

VARIABLES
  outcome,  \* how the run ended, as its snapshot says
  endId,    \* id of its terminal event
  token,    \* the run's cancellation is set
  conn,     \* where the client's subscription stands
  retries,  \* retryCount
  shown,    \* liveRun.status
  summary,  \* runs[id].status
  cancel,   \* the client's POST cancel
  breaks,
  shows

clientVars == <<vars, outcome, endId, token, conn, retries, shown, summary, cancel,
                breaks, shows>>
server == <<outcome, endId, token>>
store == <<shown, summary>>
bounds == <<breaks, shows>>

Outcomes == {"succeeded", "failed", "cancelled"}

-----------------------------------------------------------------------------

\* The store after startRun, before a monitor is open.
ClientInit ==
  /\ Init
  /\ outcome = "none"
  /\ endId = Never
  /\ token = FALSE
  /\ conn = [s \in Subs |-> "idle"]
  /\ retries = [s \in Subs |-> 0]
  /\ shown = [s \in Subs |-> "none"]
  /\ summary = [s \in Subs |-> "pending"]
  /\ cancel = [s \in Subs |-> "none"]
  /\ breaks = 0
  /\ shows = [s \in Subs |-> 0]

\* The run's task emits an event, which is not its last.
RunEmits ==
  /\ outcome = "none"
  /\ nextId + 1 < MaxEvents
  /\ Emit
  /\ UNCHANGED <<server, conn, retries, store, cancel, bounds>>

\* It emits its last and sets the status; one that was cancelled may still end
\* another way (GraphRunner).
RunEnds ==
  /\ outcome = "none"
  /\ Emit
  /\ outcome' \in IF token THEN Outcomes ELSE Outcomes \ {"cancelled"}
  /\ endId' = nextId'
  /\ UNCHANGED <<token, conn, retries, store, cancel, bounds>>

\* It closes the run on the bus; retention drops it some time later.
RunCloses ==
  /\ outcome # "none"
  /\ Close \/ Clear
  /\ UNCHANGED <<server, conn, retries, store, cancel, bounds>>

\* The server's side of a connection that is gone.
Disconnected(s) ==
  /\ phase' = [phase EXCEPT ![s] = "out"]
  /\ listeners' = listeners \ {s}
  /\ replay' = [replay EXCEPT ![s] = <<>>]
  /\ queue' = [queue EXCEPT ![s] = <<>>]
  /\ UNCHANGED <<run, ending>>

\* subscribe of the store: a live run without events, shown as running, and a
\* subscription that has seen no event; the previous one is given up.
Show(s) ==
  /\ shows[s] < MaxShows
  /\ shows' = [shows EXCEPT ![s] = @ + 1]
  /\ Disconnected(s)
  /\ last' = [last EXCEPT ![s] = Never]
  /\ conn' = [conn EXCEPT ![s] = "fetching"]
  /\ retries' = [retries EXCEPT ![s] = 0]
  /\ shown' = [shown EXCEPT ![s] = "running"]
  /\ UNCHANGED <<server, summary, cancel, breaks>>

\* unsubscribe: aborts the request, or the wait for the next one.
Hide(s) ==
  /\ conn[s] \in {"fetching", "reading", "backoff"}
  /\ Disconnected(s)
  /\ conn' = [conn EXCEPT ![s] = "stopped"]
  /\ UNCHANGED <<server, last, retries, store, cancel, bounds>>

\* The run is known: the response is ok, its body is about to be read.
Accepted(s) ==
  /\ conn[s] = "fetching"
  /\ Connect(s)
  /\ conn' = [conn EXCEPT ![s] = "reading"]
  /\ retries' = [retries EXCEPT ![s] = 0]
  /\ UNCHANGED <<server, store, cancel, bounds>>

\* Slips: it never gives up; it takes the end of the connection for the end of
\* the stream.
FailedForever(s) ==
  /\ conn' = [conn EXCEPT ![s] = "backoff"]
  /\ retries' = [retries EXCEPT ![s] = IF @ < MaxRetries THEN @ + 1 ELSE @]

FailedAsClosed(s) ==
  /\ conn' = [conn EXCEPT ![s] = IF conn[s] = "reading" THEN "closed" ELSE "backoff"]
  /\ retries' = [retries EXCEPT ![s] = @ + 1]

\* The catch of connect: another try after a backoff, or onError.
Failed(s) ==
  IF retries[s] < MaxRetries
  THEN /\ conn' = [conn EXCEPT ![s] = "backoff"]
       /\ retries' = [retries EXCEPT ![s] = @ + 1]
  ELSE /\ conn' = [conn EXCEPT ![s] = "error"]
       /\ UNCHANGED retries

\* 404: the run is gone.
NotFound(s) ==
  /\ conn[s] = "fetching"
  /\ evicted
  /\ Failed(s)
  /\ UNCHANGED <<vars, server, store, cancel, bounds>>

\* fetch or read rejects: the network, or the sidecar, fails.
Breaks(s) ==
  /\ conn[s] \in {"fetching", "reading"}
  /\ breaks < MaxBreaks
  /\ breaks' = breaks + 1
  /\ Failed(s)
  /\ Disconnected(s)
  /\ UNCHANGED <<last, server, store, cancel, shows>>

\* setTimeout: connect again, with the Last-Event-ID seen so far.
Retry(s) ==
  /\ conn[s] = "backoff"
  /\ conn' = [conn EXCEPT ![s] = "fetching"]
  /\ UNCHANGED <<vars, server, retries, store, cancel, bounds>>

\* onEvent, for the frame with this id: a terminal event is the live run's
\* status, and whatever the event the live run's status is the summary's.
OnEvent(s, terminal) ==
  /\ shown' = [shown EXCEPT ![s] = IF terminal THEN outcome ELSE @]
  /\ summary' = [summary EXCEPT ![s] = shown'[s]]

\* A frame arrives, of the replay or of the queue.
Receive(s) ==
  /\ conn[s] = "reading"
  /\ \/ /\ YieldReplay(s)
        /\ OnEvent(s, ~Head(replay[s]).gap /\ Head(replay[s]).id = endId)
     \/ /\ ReadQueue(s)
        /\ IF Head(queue[s]) = Stop
           THEN UNCHANGED store
           ELSE OnEvent(s, Head(queue[s]) = endId)
  /\ UNCHANGED <<server, conn, retries, cancel, bounds>>

\* The server goes on between frames.
Serve(s) ==
  /\ Subscribe(s) \/ ReplayDone(s)
  /\ UNCHANGED <<server, conn, retries, store, cancel, bounds>>

\* The body is done: onClose, and no reconnect.
StreamDone(s) ==
  /\ conn[s] = "reading"
  /\ phase[s] = "over"
  /\ conn' = [conn EXCEPT ![s] = "closed"]
  /\ UNCHANGED <<vars, server, retries, store, cancel, bounds>>

\* The user cancels a run that is shown as running.
CancelRun(s) ==
  /\ summary[s] = "running"
  /\ cancel[s] = "none"
  /\ cancel' = [cancel EXCEPT ![s] = "sent"]
  /\ UNCHANGED <<vars, server, conn, retries, store, bounds>>

\* The server's handler: 404 or 409 for a run that is gone or has ended.
HandleCancel(s) ==
  /\ cancel[s] = "sent"
  /\ IF evicted \/ outcome # "none"
     THEN cancel' = [cancel EXCEPT ![s] = "refused"] /\ UNCHANGED token
     ELSE cancel' = [cancel EXCEPT ![s] = "accepted"] /\ token' = TRUE
  /\ UNCHANGED <<vars, outcome, endId, conn, retries, store, bounds>>

\* Slip: any answer is taken for a cancelled run.
CancelAnsweredAny(s) ==
  /\ cancel[s] \in {"accepted", "refused"}
  /\ cancel' = [cancel EXCEPT ![s] = "none"]
  /\ summary' = [summary EXCEPT ![s] = "cancelled"]
  /\ UNCHANGED <<vars, server, conn, retries, shown, bounds>>

\* The client processes the answer: the summary becomes cancelled when the
\* cancel was accepted, though the run has only been asked to stop, and even if
\* its end has been received since.
CancelAnswered(s) ==
  /\ cancel[s] \in {"accepted", "refused"}
  /\ cancel' = [cancel EXCEPT ![s] = "none"]
  /\ summary' = [summary EXCEPT ![s] = IF cancel[s] = "accepted" THEN "cancelled" ELSE @]
  /\ UNCHANGED <<vars, server, conn, retries, shown, bounds>>

\* Request or answer is lost: the catch of cancelRun.
CancelLost(s) ==
  /\ cancel[s] # "none"
  /\ breaks < MaxBreaks
  /\ breaks' = breaks + 1
  /\ cancel' = [cancel EXCEPT ![s] = "none"]
  /\ UNCHANGED <<vars, server, conn, retries, store, shows>>

Progress(s) ==
  \/ Accepted(s) \/ NotFound(s) \/ Retry(s) \/ Serve(s) \/ Receive(s) \/ StreamDone(s)

ClientNext ==
  \/ RunEmits \/ RunEnds \/ RunCloses
  \/ \E s \in Subs :
       \/ Progress(s) \/ Show(s) \/ Hide(s) \/ Breaks(s)
       \/ CancelRun(s) \/ HandleCancel(s) \/ CancelAnswered(s) \/ CancelLost(s)

ClientSpec == ClientInit /\ [][ClientNext]_clientVars

\* The run ends (GraphRunner: RunEnds) and is closed; what has been sent
\* arrives, timers fire.  The user owes nothing and the network may fail.
ClientFairSpec ==
  /\ ClientSpec
  /\ WF_clientVars(RunEnds)
  /\ WF_clientVars(RunCloses /\ ~closed)
  /\ \A s \in Subs : WF_clientVars(Progress(s))

-----------------------------------------------------------------------------

(***************************************************************************)
(* A stream the client holds to be complete, and will not open again, has  *)
(* told it how the run ended: across breaks and reconnects, a replay       *)
(* buffer that wraps, queues that overflow and a run dropped meanwhile.    *)
(***************************************************************************)
ClosedIsTold ==
  \A s \in Subs : conn[s] = "closed" /\ QueueSize >= 2 => shown[s] = outcome

(***************************************************************************)
(* The run list disagrees with the run's end in one case only: the user    *)
(* cancelled, the run ended before it saw the cancel, and the answer to    *)
(* the cancel was processed after the end.                                 *)
(***************************************************************************)
ListTellsOutcome ==
  \A s \in Subs : conn[s] = "closed" /\ QueueSize >= 2 =>
    summary[s] = outcome \/ (summary[s] = "cancelled" /\ token)

\* A subscription nobody will end: emit dropped it as too slow, or the run was
\* dropped between its request and its stream.
Stranded(s) ==
  /\ phase[s] = "live"
  /\ \/ s \notin listeners
     \/ evicted /\ \A i \in DOMAIN queue[s] : queue[s][i] # Stop

\* An open monitor learns how the run ended, or shows an error, unless it is
\* closed or left on a stream nobody will end.
ClientLearns ==
  \A s \in Subs :
    conn[s] \in {"fetching", "reading", "backoff"} ~>
      conn[s] \in {"closed", "error", "stopped"} \/ Stranded(s)

=============================================================================
