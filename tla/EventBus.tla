-------------------------------- MODULE EventBus --------------------------------
(***************************************************************************)
(* The event bus of one run: emit numbers the events, keeps the last ones  *)
(* in a replay buffer and puts them in the bounded queue of every          *)
(* subscriber; subscribe replays what follows the Last-Event-ID of a       *)
(* client that comes back, then reads its queue; close_run ends the        *)
(* streams and clear drops the run.                                        *)
(*                                                                         *)
(* An event is its id.  emit, close_run, clear and the first part of       *)
(* subscribe never suspend and are one action each; a subscriber may be    *)
(* suspended between any two frames.  Who connects, reads, goes and comes  *)
(* back, and when the run emits and ends, is in RunClient, which has the   *)
(* next-state relation of both.                                            *)
(***************************************************************************)
EXTENDS Integers, Sequences

CONSTANTS
  Subs,        \* subscribers, each with at most one stream at a time
  BufferSize,  \* _BUFFER_SIZE, 500
  QueueSize,   \* _SUBSCRIBER_QUEUE_SIZE, 1024
  MaxEvents    \* bound: events of the run

ASSUME EventBusAssumption ==
  /\ BufferSize \in Nat \ {0}
  /\ QueueSize \in Nat \ {0}
  /\ MaxEvents \in Nat

VARIABLES
  nextId,        \* id of the latest event
  buffer,        \* ids in the replay buffer
  overflowFrom,  \* _overflow_from: oldest id in the buffer, 0 when unset
  closed,        \* the run is in _closed_runs
  evicted,       \* the run has been cleared
  listeners,     \* subscribers whose queue is registered
  queue,         \* what their queues hold
  phase,         \* where their generator stands
  replay,        \* frames it has still to yield from the replay
  ending,        \* already_closed, as it read it
  last           \* id of the last frame the client received

vars == <<nextId, buffer, overflowFrom, closed, evicted, listeners, queue,
          phase, replay, ending, last>>
run == <<nextId, buffer, overflowFrom, closed, evicted>>

Stop == 0    \* the None sentinel
Never == 0   \* no Last-Event-ID, no overflow yet

\* A frame: the id it bears, and whether it is a run.gap.
Frames == [id : Nat, gap : BOOLEAN]

Full(q) == Len(q) = QueueSize

-----------------------------------------------------------------------------

Init ==
  /\ nextId = 0
  /\ buffer = <<>>
  /\ overflowFrom = Never
  /\ closed = FALSE
  /\ evicted = FALSE
  /\ listeners = {}
  /\ queue = [s \in Subs |-> <<>>]
  /\ phase = [s \in Subs |-> "out"]
  /\ replay = [s \in Subs |-> <<>>]
  /\ ending = [s \in Subs |-> FALSE]
  /\ last = [s \in Subs |-> Never]

\* Slip: the oldest id before the append.
NewOldestStale(id) == IF Len(buffer) = BufferSize THEN buffer[1] ELSE
                      IF overflowFrom = Never THEN id ELSE overflowFrom

\* The oldest id in the buffer once id is appended; set by the first event and
\* again whenever the oldest falls out.
NewOldest(id) ==
  IF Len(buffer) = BufferSize
  THEN IF BufferSize >= 2 THEN buffer[2] ELSE id
  ELSE IF overflowFrom = Never THEN (Append(buffer, id))[1] ELSE overflowFrom

\* deque(maxlen): the oldest falls out.
Buffered(id) == Append(IF Len(buffer) = BufferSize THEN Tail(buffer) ELSE buffer, id)

\* emit: a subscriber whose queue is full is dropped; the sentinel meant for it
\* finds its queue as full as the event did.  The run's task emits, and nothing
\* after it has closed the run.
Emit ==
  /\ ~closed /\ ~evicted /\ nextId < MaxEvents
  /\ LET id == nextId + 1 IN
     /\ nextId' = id
     /\ buffer' = Buffered(id)
     /\ overflowFrom' = NewOldest(id)
     /\ queue' = [s \in Subs |->
          IF s \in listeners /\ ~Full(queue[s]) THEN Append(queue[s], id) ELSE queue[s]]
  /\ listeners' = {s \in listeners : ~Full(queue[s])}
  /\ UNCHANGED <<closed, evicted, phase, replay, ending, last>>

\* The buffered events beyond id, as frames: ids grow along the buffer, so that those
\* the loop passes over are the first ones.
Beyond(id) ==
  LET passed == CHOOSE n \in 0 .. Len(buffer) : \A i \in DOMAIN buffer : buffer[i] > id <=> i > n IN
  [i \in 1 .. Len(buffer) - passed |-> [id |-> buffer[passed + i], gap |-> FALSE]]

\* Slip: the client's last event is replayed as well.
ReplayAgain(s) == Beyond(last[s] - 1)

\* What a client that has seen last is sent first: a run.gap if events it has
\* not seen are gone, then what the buffer holds beyond last.
Replay(s) ==
  (IF last[s] # Never /\ overflowFrom # Never /\ last[s] + 1 < overflowFrom
   THEN <<[id |-> overflowFrom - 1, gap |-> TRUE]>> ELSE <<>>)
  \o Beyond(last[s])

\* GET /runs/{id}/events: the run is known; its stream is only about to start.
Connect(s) ==
  /\ phase[s] = "out"
  /\ ~evicted
  /\ phase' = [phase EXCEPT ![s] = "connecting"]
  /\ UNCHANGED <<run, listeners, queue, replay, ending, last>>

\* subscribe, up to its first yield: buffer, overflow and the end of the run are
\* read, and the queue registered, under one lock.
Subscribe(s) ==
  /\ phase[s] = "connecting"
  /\ phase' = [phase EXCEPT ![s] = "replay"]
  /\ replay' = [replay EXCEPT ![s] = Replay(s)]
  /\ ending' = [ending EXCEPT ![s] = closed]
  /\ queue' = [queue EXCEPT ![s] = <<>>]
  /\ listeners' = IF closed THEN listeners ELSE listeners \cup {s}
  /\ UNCHANGED <<run, last>>

\* A frame of the replay is yielded.
YieldReplay(s) ==
  /\ phase[s] = "replay"
  /\ replay[s] # <<>>
  /\ last' = [last EXCEPT ![s] = Head(replay[s]).id]
  /\ replay' = [replay EXCEPT ![s] = Tail(@)]
  /\ UNCHANGED <<run, listeners, queue, phase, ending>>

\* The replay is over: the stream of a run that had ended ends, others go live.
ReplayDone(s) ==
  /\ phase[s] = "replay"
  /\ replay[s] = <<>>
  /\ phase' = [phase EXCEPT ![s] = IF ending[s] THEN "over" ELSE "live"]
  /\ UNCHANGED <<run, listeners, queue, replay, ending, last>>

\* queue.get(): an event is yielded, the sentinel ends the generator, which
\* takes its queue off the list.
ReadQueue(s) ==
  /\ phase[s] = "live"
  /\ queue[s] # <<>>
  /\ queue' = [queue EXCEPT ![s] = Tail(@)]
  /\ IF Head(queue[s]) = Stop
     THEN /\ phase' = [phase EXCEPT ![s] = "over"]
          /\ listeners' = listeners \ {s}
          /\ UNCHANGED last
     ELSE /\ last' = [last EXCEPT ![s] = Head(queue[s])]
          /\ UNCHANGED <<phase, listeners>>
  /\ UNCHANGED <<run, replay, ending>>

\* Slip: no sentinel for a queue that is full.
CloseLeavesFull ==
  /\ ~closed /\ ~evicted
  /\ closed' = TRUE
  /\ queue' = [s \in Subs |->
       IF s \in listeners /\ ~Full(queue[s]) THEN Append(queue[s], Stop) ELSE queue[s]]
  /\ UNCHANGED <<nextId, buffer, overflowFrom, evicted, listeners, phase, replay, ending, last>>

\* close_run: the sentinel is put last in every queue, for the price of the
\* oldest event of a full one.
Close ==
  /\ ~closed /\ ~evicted
  /\ closed' = TRUE
  /\ queue' = [s \in Subs |->
       IF s \notin listeners THEN queue[s]
       ELSE Append(IF Full(queue[s]) THEN Tail(queue[s]) ELSE queue[s], Stop)]
  /\ UNCHANGED <<nextId, buffer, overflowFrom, evicted, listeners, phase, replay, ending, last>>

\* clear: retention drops a run that has ended, its streams it leaves alone.
Clear ==
  /\ closed
  /\ nextId' = 0
  /\ buffer' = <<>>
  /\ overflowFrom' = Never
  /\ closed' = FALSE
  /\ evicted' = TRUE
  /\ UNCHANGED <<listeners, queue, phase, replay, ending, last>>

-----------------------------------------------------------------------------

TypeOK ==
  /\ nextId \in 0 .. MaxEvents
  /\ buffer \in Seq(1 .. MaxEvents) /\ Len(buffer) <= BufferSize
  /\ overflowFrom \in 0 .. MaxEvents
  /\ closed \in BOOLEAN
  /\ evicted \in BOOLEAN
  /\ listeners \subseteq Subs
  /\ queue \in [Subs -> Seq(Nat)]
  /\ \A s \in Subs : Len(queue[s]) <= QueueSize
  /\ phase \in [Subs -> {"out", "connecting", "replay", "live", "over"}]
  /\ replay \in [Subs -> Seq(Frames)]
  /\ ending \in [Subs -> BOOLEAN]
  /\ last \in [Subs -> 0 .. MaxEvents]

\* A client receives events in order and none twice, whatever is emitted between
\* the snapshot of its replay and its queue, and however often it comes back.
InOrderNoneTwice ==
  [][\A s \in Subs : (YieldReplay(s) \/ ReadQueue(s)) /\ phase'[s] = phase[s] =>
       last'[s] > last[s]]_vars

\* No event a client misses goes unannounced: the next frame bears the next id,
\* or it is a run.gap; only the close of the run may cost it one event more.
NoSilentSkip ==
  [][\A s \in Subs :
       last'[s] \notin {last[s], Never} /\ last[s] # Never =>
         \/ last'[s] = last[s] + 1
         \/ replay[s] # <<>> /\ Head(replay[s]).gap
         \/ (closed \/ evicted) /\ last'[s] = last[s] + 2]_vars
=============================================================================
