---------------------------- MODULE FrontendProofs ----------------------------
(***************************************************************************)
(* Proofs about the window, first about EventBus under the desktop client  *)
(* of RunClient, for any number of subscribers, any buffer, queue and      *)
(* length of the run, and any failures of the network; then about the      *)
(* workflow editor of EditorStore, for any data and texts and any number   *)
(* of edits, saves and validations.                                        *)
(***************************************************************************)
EXTENDS RunClient, EditorStore, SequenceTheorems, FiniteSetTheorems, TLAPS

-----------------------------------------------------------------------------
(* The client of a run. *)

\* The id the run has reached, or had when it ended: clear makes the bus forget it.
Top == IF outcome = "none" THEN nextId ELSE endId

Gone == closed \/ evicted

\* The last id that a client has got when its replay is over, and the last that is
\* on its way to it.
ReplayEnd(s) == IF replay[s] = <<>> THEN last[s] ELSE replay[s][Len(replay[s])].id
Tip(s) == IF queue[s] = <<>> THEN ReplayEnd(s) ELSE queue[s][Len(queue[s])]

\* What the variables of the client range over.
ClientTypes ==
  /\ outcome \in Outcomes \cup {"none"}
  /\ endId \in 0 .. MaxEvents
  /\ token \in BOOLEAN
  /\ conn \in [Subs -> {"idle", "fetching", "reading", "backoff", "closed", "stopped", "error"}]
  /\ shown \in [Subs -> Outcomes \cup {"none", "running"}]
  /\ summary \in [Subs -> Outcomes \cup {"none", "running", "pending"}]
  /\ cancel \in [Subs -> {"none", "sent", "accepted", "refused"}]

\* A run that has ended stays at its last event until it is forgotten; nothing is
\* closed before.
RunInv ==
  /\ outcome = "none" => ~Gone
  /\ outcome # "none" => endId >= 1 /\ (~evicted => nextId = endId)
  /\ evicted => ~closed /\ buffer = <<>> /\ nextId = 0

\* The buffer holds the latest ids, none missing, and _overflow_from the first of them.
BufferInv ==
  /\ Len(buffer) <= nextId
  /\ \A i \in 1 .. Len(buffer) : buffer[i] = nextId - Len(buffer) + i
  /\ overflowFrom = IF buffer = <<>> THEN Never ELSE buffer[1]
  /\ nextId > 0 => buffer # <<>>

\* What is left of a replay: consecutive ids, the first one the next for the client
\* unless it is a run.gap, or the client had none.
ReplayInv(s) ==
  /\ \A i \in 1 .. Len(replay[s]) : replay[s][i].id <= Top /\ (replay[s][i].gap => i = 1)
  /\ \A i \in 1 .. Len(replay[s]) - 1 : replay[s][i + 1].id = replay[s][i].id + 1
  /\ replay[s] # <<>> =>
       /\ replay[s][1].id > last[s]
       /\ last[s] # Never /\ ~replay[s][1].gap => replay[s][1].id = last[s] + 1
       /\ Len(replay[s]) = 1 => ~replay[s][1].gap

\* What is in a queue: consecutive ids that follow the replay, and at most the
\* sentinel after them; one may be missing before them for a sentinel's sake.
QueueInv(s) ==
  /\ \A i \in 1 .. Len(queue[s]) :
       /\ queue[s][i] <= Top
       /\ queue[s][i] = Stop => i = Len(queue[s]) /\ Gone
  /\ \A i \in 1 .. Len(queue[s]) - 1 : queue[s][i + 1] # Stop => queue[s][i + 1] = queue[s][i] + 1
  /\ queue[s] # <<>> /\ queue[s][1] # Stop =>
       queue[s][1] = ReplayEnd(s) + 1 \/ (Gone /\ queue[s][1] = ReplayEnd(s) + 2)

\* Until the run is closed a registered queue is up to date.
ListenInv(s) == s \in listeners /\ ~Gone => Tip(s) = nextId

\* The sentinel follows the run's last event, in a queue with a place for both.
StopInv(s) ==
  QueueSize >= 2 =>
    \A i \in 1 .. Len(queue[s]) :
      queue[s][i] = Stop => (IF i = 1 THEN ReplayEnd(s) ELSE queue[s][i - 1]) = endId

\* What a stream has by where it stands.
PhaseInv(s) ==
  /\ phase[s] \in {"out", "connecting"} =>
       replay[s] = <<>> /\ queue[s] = <<>> /\ s \notin listeners
  /\ phase[s] = "live" => replay[s] = <<>>
  /\ phase[s] = "replay" /\ ending[s] =>
       queue[s] = <<>> /\ s \notin listeners /\ outcome # "none" /\ ReplayEnd(s) = endId
  /\ phase[s] = "over" =>
       s \notin listeners /\ outcome # "none" /\ (QueueSize >= 2 => last[s] = endId)

\* What the client has been told, and what it holds to be so.
ToldInv(s) ==
  /\ last[s] <= Top
  /\ outcome # "none" /\ last[s] = endId =>
       shown[s] = outcome /\ (summary[s] = outcome \/ (summary[s] = "cancelled" /\ token))
  /\ conn[s] = "closed" => phase[s] = "over"
  /\ cancel[s] = "accepted" => token

StreamInv(s) ==
  /\ ReplayInv(s) /\ QueueInv(s) /\ ListenInv(s) /\ StopInv(s) /\ PhaseInv(s) /\ ToldInv(s)

Streams == \A s \in Subs : StreamInv(s)
Inv == TypeOK /\ ClientTypes /\ RunInv /\ BufferInv /\ Streams

-----------------------------------------------------------------------------
(* Sequences and types *)

\* What the provers need of Append, index by index.
LEMMA AppendFacts ==
  ASSUME NEW S, NEW q \in Seq(S), NEW e \in S
  PROVE  /\ Append(q, e) \in Seq(S) /\ Append(q, e) # <<>>
         /\ Len(q) \in Nat /\ Len(Append(q, e)) = Len(q) + 1
         /\ \A i \in 1 .. Len(q) + 1 : Append(q, e)[i] = IF i <= Len(q) THEN q[i] ELSE e
BY AppendProperties, LenProperties

\* The same of Tail.
LEMMA TailFacts ==
  ASSUME NEW S, NEW q \in Seq(S), q # <<>>
  PROVE  /\ Len(q) \in Nat \ {0} /\ Head(q) = q[1] /\ q[1] \in S
         /\ Tail(q) \in Seq(S) /\ Len(Tail(q)) = Len(q) - 1
         /\ Tail(q) = <<>> <=> Len(q) = 1
         /\ \A i \in 1 .. Len(q) - 1 : Tail(q)[i] = q[i + 1]
<1>1. Len(q) \in Nat \ {0} /\ Head(q) = q[1] /\ q[1] \in S
  BY EmptySeq, ElementOfSeq
<1>2. /\ Tail(q) \in Seq(S) /\ Len(Tail(q)) = Len(q) - 1
      /\ \A i \in 1 .. Len(Tail(q)) : Tail(q)[i] = q[i + 1]
  BY HeadTailProperties
<1>3. Tail(q) = <<>> <=> Len(Tail(q)) = 0
  BY <1>2, EmptySeq
<1> QED
  BY <1>1, <1>2, <1>3

\* What the variables of a stream are.
LEMMA StreamTypes ==
  ASSUME TypeOK, NEW s \in Subs
  PROVE  /\ replay[s] \in Seq(Frames) /\ queue[s] \in Seq(Nat)
         /\ Len(replay[s]) \in Nat /\ Len(queue[s]) \in Nat
         /\ replay[s] = <<>> <=> Len(replay[s]) = 0
         /\ queue[s] = <<>> <=> Len(queue[s]) = 0
         /\ \A i \in 1 .. Len(replay[s]) : replay[s][i].id \in Nat /\ replay[s][i].gap \in BOOLEAN
         /\ \A i \in 1 .. Len(queue[s]) : queue[s][i] \in Nat
         /\ last[s] \in Nat
         /\ ReplayEnd(s) \in Nat
         /\ Tip(s) \in Nat
<1>1. replay[s] \in Seq(Frames) /\ queue[s] \in Seq(Nat) /\ last[s] \in 0 .. MaxEvents
  BY DEF TypeOK
<1>2. Len(replay[s]) \in Nat /\ Len(queue[s]) \in Nat
  BY <1>1, LenProperties
<1>3. (replay[s] = <<>> <=> Len(replay[s]) = 0) /\ (queue[s] = <<>> <=> Len(queue[s]) = 0)
  BY <1>1, EmptySeq
<1>4. ASSUME NEW i \in 1 .. Len(replay[s])
      PROVE  replay[s][i].id \in Nat /\ replay[s][i].gap \in BOOLEAN
  <2>1. replay[s][i] \in Frames
    BY <1>1, ElementOfSeq
  <2> QED
    BY <2>1 DEF Frames
<1>5. \A i \in 1 .. Len(queue[s]) : queue[s][i] \in Nat
  BY <1>1, ElementOfSeq
<1>6. last[s] \in Nat
  BY <1>1
<1>7. ReplayEnd(s) \in Nat
  BY <1>2, <1>3, <1>4, <1>6 DEF ReplayEnd
<1>8. Tip(s) \in Nat
  BY <1>2, <1>3, <1>5, <1>7 DEF Tip
<1> QED
  BY <1>1, <1>2, <1>3, <1>4, <1>5, <1>6, <1>7, <1>8

\* The latest id is an id.
LEMMA TopType ==
  ASSUME TypeOK, ClientTypes
  PROVE  /\ nextId \in Nat /\ endId \in Nat
         /\ Top \in Nat /\ Top \in 0 .. MaxEvents
BY EventBusAssumption DEF TypeOK, ClientTypes, Top

\* A function over 1 .. n is a sequence of length n.
LEMMA SeqByIndex ==
  ASSUME NEW S, NEW n \in Nat, NEW f \in [1 .. n -> S]
  PROVE  f \in Seq(S) /\ Len(f) = n
<1>1. f \in Seq(S)
  BY SeqDef
<1>2. Len(f) \in Nat /\ DOMAIN f = 1 .. Len(f)
  BY <1>1, LenProperties
<1>3. 1 .. Len(f) = 1 .. n
  BY <1>2
<1>4. Len(f) = n
  <2>1. CASE Len(f) < n
    <3>1. n \in 1 .. n /\ n \notin 1 .. Len(f)
      BY <1>2, <2>1
    <3> QED
      BY <1>3, <3>1
  <2>2. CASE n < Len(f)
    <3>1. Len(f) \in 1 .. Len(f) /\ Len(f) \notin 1 .. n
      BY <1>2, <2>2
    <3> QED
      BY <1>3, <3>1
  <2> QED
    BY <1>2, <2>1, <2>2
<1> QED
  BY <1>1, <1>4

-----------------------------------------------------------------------------
(* The buffer and the replay *)

\* The part of the buffer a replay takes: the latest ids, from the first beyond id.
LEMMA BeyondFacts ==
  ASSUME TypeOK, ClientTypes, BufferInv, NEW id \in Nat
  PROVE  /\ Beyond(id) \in Seq(Frames) /\ Len(Beyond(id)) \in 0 .. Len(buffer)
         /\ \A i \in 1 .. Len(Beyond(id)) :
              Beyond(id)[i] = [id |-> nextId - Len(Beyond(id)) + i, gap |-> FALSE]
         /\ Len(Beyond(id)) = 0 => nextId <= id
         /\ Len(Beyond(id)) # 0 =>
              /\ id <= nextId - Len(Beyond(id))
              /\ id = nextId - Len(Beyond(id)) \/ Len(Beyond(id)) = Len(buffer)
<1> DEFINE size == Len(buffer)
           Splits(n) == \A i \in DOMAIN buffer : buffer[i] > id <=> i > n
           passed == CHOOSE n \in 0 .. size : Splits(n)
           start == IF id < nextId - size THEN 0
                    ELSE IF id >= nextId THEN size ELSE id - (nextId - size)
<1>1. buffer \in Seq(1 .. MaxEvents) /\ size \in Nat /\ DOMAIN buffer = 1 .. size
  BY LenProperties DEF TypeOK
<1>2. nextId \in Nat /\ size <= nextId /\ (size = 0 => nextId = 0)
  BY <1>1, EmptySeq, TopType DEF BufferInv
<1>3. \A i \in 1 .. size : buffer[i] = nextId - size + i
  BY DEF BufferInv
<1> HIDE DEF size
<1>4. start \in 0 .. size /\ \A i \in 1 .. size : nextId - size + i > id <=> i > start
  BY <1>1, <1>2
<1>5. start \in 0 .. size /\ Splits(start)
  BY <1>1, <1>3, <1>4
<1>6. passed \in 0 .. size /\ Splits(passed)
  <2> HIDE DEF Splits
  <2> QED
    BY <1>5
<1>7. \A i \in 1 .. size : nextId - size + i > id <=> i > passed
  BY <1>1, <1>3, <1>6
<1>8. Beyond(id) = [i \in 1 .. size - passed |-> [id |-> buffer[passed + i], gap |-> FALSE]]
  BY DEF Beyond, size
<1> HIDE DEF passed
<1>9. size - passed \in Nat
  BY <1>1, <1>6
<1>10. \A i \in 1 .. size - passed :
         Beyond(id)[i] = [id |-> nextId - (size - passed) + i, gap |-> FALSE]
  <2> SUFFICES ASSUME NEW i \in 1 .. size - passed
               PROVE  Beyond(id)[i] = [id |-> nextId - (size - passed) + i, gap |-> FALSE]
    OBVIOUS
  <2>1. passed + i \in 1 .. size
    BY <1>1, <1>6
  <2>2. buffer[passed + i] = nextId - size + (passed + i)
    BY <1>3, <2>1
  <2>3. buffer[passed + i] = nextId - (size - passed) + i
    BY <1>1, <1>2, <1>6, <2>2
  <2> QED
    BY <1>8, <2>3
<1>11. Beyond(id) \in [1 .. size - passed -> Frames]
  <2> SUFFICES ASSUME NEW i \in 1 .. size - passed PROVE Beyond(id)[i] \in Frames
    BY <1>8
  <2>1. nextId - (size - passed) + i \in Nat
    BY <1>1, <1>2, <1>6
  <2> QED
    <3>1. Beyond(id)[i] = [id |-> nextId - (size - passed) + i, gap |-> FALSE]
      BY <1>10
    <3>2. \A n \in Nat : [id |-> n, gap |-> FALSE] \in Frames
      BY DEF Frames
    <3> QED
      BY <2>1, <3>1, <3>2
<1>12. Beyond(id) \in Seq(Frames) /\ Len(Beyond(id)) = size - passed
  BY <1>9, <1>11, SeqByIndex
<1> HIDE DEF Splits
<1>13. size - passed = 0 => nextId <= id
  <2> SUFFICES ASSUME size = passed, size # 0 PROVE nextId <= id
    BY <1>1, <1>2, <1>6
  <2>1. ~(nextId - size + size > id)
    BY <1>1, <1>7
  <2> QED
    BY <1>1, <1>2, <2>1
<1>14. ASSUME size - passed # 0
       PROVE  /\ id <= nextId - (size - passed)
              /\ id = nextId - (size - passed) \/ size - passed = size
  <2>1. passed + 1 \in 1 .. size
    BY <1>1, <1>6, <1>14
  <2>2. nextId - size + (passed + 1) > id
    BY <1>7, <1>6, <2>1
  <2>3. passed # 0 => ~(nextId - size + passed > id)
    BY <1>1, <1>6, <1>7
  <2> QED
    BY <1>1, <1>2, <1>6, <2>2, <2>3
<1>15. size - passed \in 0 .. size
  BY <1>1, <1>6
<1> QED
  BY <1>10, <1>12, <1>13, <1>14, <1>15 DEF size

\* What Subscribe hands to a client: it ends with the latest event, and begins with the
\* next for the client or with a run.gap.
LEMMA ReplayFacts ==
  ASSUME TypeOK, ClientTypes, BufferInv, NEW s \in Subs
  PROVE  LET r == Replay(s) IN
         /\ r \in Seq(Frames) /\ Len(r) \in Nat
         /\ \A i \in 1 .. Len(r) : r[i].id <= nextId /\ (r[i].gap => i = 1)
         /\ \A i \in 1 .. Len(r) - 1 : r[i + 1].id = r[i].id + 1
         /\ r = <<>> => nextId <= last[s]
         /\ r # <<>> =>
              /\ r[1].id > last[s]
              /\ last[s] # Never /\ ~r[1].gap => r[1].id = last[s] + 1
              /\ Len(r) = 1 => ~r[1].gap
              /\ r[Len(r)].id = nextId
<1> DEFINE b == Beyond(last[s])
           k == Len(b)
           Missed == last[s] # Never /\ overflowFrom # Never /\ last[s] + 1 < overflowFrom
           g == [id |-> overflowFrom - 1, gap |-> TRUE]
<1>1. last[s] \in Nat /\ nextId \in Nat
  BY StreamTypes, TopType
<1>2. /\ b \in Seq(Frames) /\ k \in Nat /\ k <= Len(buffer)
      /\ \A i \in 1 .. k : b[i] = [id |-> nextId - k + i, gap |-> FALSE]
      /\ k = 0 => nextId <= last[s]
      /\ k # 0 =>
           /\ last[s] <= nextId - k
           /\ last[s] = nextId - k \/ k = Len(buffer)
  <2>1. Len(buffer) \in Nat
    BY LenProperties DEF TypeOK
  <2> QED
    <3>1. /\ Beyond(last[s]) \in Seq(Frames) /\ Len(Beyond(last[s])) \in 0 .. Len(buffer)
          /\ Len(Beyond(last[s])) = 0 => nextId <= last[s]
          /\ Len(Beyond(last[s])) # 0 =>
               /\ last[s] <= nextId - Len(Beyond(last[s]))
               /\ last[s] = nextId - Len(Beyond(last[s])) \/ Len(Beyond(last[s])) = Len(buffer)
      BY <1>1, BeyondFacts
    <3>2. \A i \in 1 .. k : b[i] = [id |-> nextId - k + i, gap |-> FALSE]
      BY <1>1, BeyondFacts
    <3>3. k \in Nat /\ k <= Len(buffer)
      BY <2>1, <3>1
    <3> QED
      BY <3>1, <3>2, <3>3
<1>3. b = <<>> <=> k = 0
  BY <1>2, EmptySeq
<1>4. \A i \in 1 .. k : b[i].id = nextId - k + i /\ b[i].gap = FALSE
  <2> SUFFICES ASSUME NEW i \in 1 .. k PROVE b[i].id = nextId - k + i /\ b[i].gap = FALSE
    OBVIOUS
  <2>1. b[i] = [id |-> nextId - k + i, gap |-> FALSE]
    BY <1>2
  <2> HIDE DEF b, k
  <2> QED
    BY <2>1
<1>5. /\ Len(buffer) \in Nat /\ Len(buffer) <= nextId /\ overflowFrom \in Nat
      /\ overflowFrom # Never => Len(buffer) # 0 /\ overflowFrom = nextId - Len(buffer) + 1
      /\ Len(buffer) # 0 => overflowFrom = nextId - Len(buffer) + 1
  <2>1. buffer \in Seq(1 .. MaxEvents) /\ overflowFrom \in Nat
    BY DEF TypeOK
  <2>2. Len(buffer) \in Nat /\ (buffer = <<>> <=> Len(buffer) = 0)
    BY <2>1, LenProperties, EmptySeq
  <2>3. overflowFrom = IF buffer = <<>> THEN Never ELSE buffer[1]
    BY DEF BufferInv
  <2>4. buffer # <<>> => buffer[1] = nextId - Len(buffer) + 1
    BY <2>2 DEF BufferInv
  <2> QED
    BY <1>1, <2>1, <2>2, <2>3, <2>4 DEF Never, BufferInv
<1> HIDE DEF b, k
<1>6. CASE ~Missed
  <2> USE DEF Never
  <2>1. Replay(s) = <<>> \o b
    BY <1>6 DEF Replay, b
  <2>2. Replay(s) = b
    BY <1>2, <2>1, ConcatEmptySeq
  <2>3. k # 0 /\ last[s] # Never => last[s] = nextId - k
    BY <1>1, <1>2, <1>5, <1>6
  <2>4. ASSUME NEW i \in 1 .. k - 1 PROVE b[i + 1].id = b[i].id + 1
    <3>1. i \in 1 .. k /\ i + 1 \in 1 .. k
      BY <1>2
    <3>2. b[i].id = nextId - k + i /\ b[i + 1].id = nextId - k + (i + 1)
      BY <1>4, <3>1
    <3> QED
      BY <1>1, <1>2, <3>2
  <2>5. \A i \in 1 .. k : b[i].id <= nextId /\ ~b[i].gap
    BY <1>1, <1>2, <1>4
  <2>6. b # <<>> =>
          /\ b[1].id > last[s]
          /\ last[s] # Never => b[1].id = last[s] + 1
          /\ ~b[1].gap
          /\ b[k].id = nextId
    BY <1>1, <1>2, <1>3, <1>4, <2>3
  <2>7. Len(b) = k
    BY DEF k
  <2> HIDE DEF Missed
  <2> QED
    BY <1>2, <1>3, <2>2, <2>4, <2>5, <2>6, <2>7
<1>7. CASE Missed
  <2>1. Replay(s) = <<g>> \o b
    BY <1>7 DEF Replay, b
  <2>2. k # 0 /\ nextId - k = overflowFrom - 1 /\ last[s] < overflowFrom - 1 /\ overflowFrom - 1 <= nextId
    <3>1. overflowFrom = nextId - Len(buffer) + 1 /\ last[s] + 1 < overflowFrom
      BY <1>5, <1>7
    <3>2. last[s] < nextId - Len(buffer) /\ last[s] < nextId - k
      BY <1>1, <1>2, <1>5, <3>1
    <3>3. k # 0
      BY <1>1, <1>2, <3>2
    <3>4. k = Len(buffer)
      BY <1>1, <1>2, <3>2, <3>3
    <3> QED
      BY <1>1, <1>5, <3>1, <3>2, <3>3, <3>4
  <2>3. g \in Frames /\ g.id = overflowFrom - 1 /\ g.gap = TRUE
    BY <1>1, <1>5, <2>2 DEF Frames
  <2> HIDE DEF g, Missed
  <2>4. <<g>> \in Seq(Frames) /\ Len(<<g>>) = 1 /\ <<g>>[1] = g
    BY <2>3
  <2>5. Len(b) = k
    BY DEF k
  <2>6. /\ Replay(s) \in Seq(Frames) /\ Len(Replay(s)) = k + 1
        /\ \A i \in 1 .. k + 1 : Replay(s)[i] = IF i <= 1 THEN g ELSE b[i - 1]
    <3>1. /\ <<g>> \o b \in Seq(Frames) /\ Len(<<g>> \o b) = Len(<<g>>) + Len(b)
          /\ \A i \in 1 .. Len(<<g>>) + Len(b) :
               (<<g>> \o b)[i] = IF i <= Len(<<g>>) THEN <<g>>[i] ELSE b[i - Len(<<g>>)]
      BY <1>2, <2>4, ConcatProperties
    <3>2. \A i \in 1 .. k + 1 : (<<g>> \o b)[i] = IF i <= 1 THEN g ELSE b[i - 1]
      <4> SUFFICES ASSUME NEW i \in 1 .. k + 1
                   PROVE  (<<g>> \o b)[i] = IF i <= 1 THEN g ELSE b[i - 1]
        OBVIOUS
      <4>1. (<<g>> \o b)[i] = IF i <= 1 THEN <<g>>[i] ELSE b[i - 1]
        BY <1>2, <2>4, <2>5, <3>1
      <4>2. i <= 1 => i = 1
        BY <1>2
      <4> QED
        BY <2>4, <4>1, <4>2
    <3> QED
      BY <1>2, <2>1, <2>4, <2>5, <3>1, <3>2
  <2>7. Replay(s)[1] = g /\ \A i \in 2 .. k + 1 : Replay(s)[i] = b[i - 1]
    BY <1>2, <2>6
  <2>8. \A i \in 2 .. k + 1 :
          Replay(s)[i].id = overflowFrom - 1 + (i - 1) /\ Replay(s)[i].gap = FALSE
    <3> SUFFICES ASSUME NEW i \in 2 .. k + 1
                 PROVE  Replay(s)[i].id = overflowFrom - 1 + (i - 1) /\ Replay(s)[i].gap = FALSE
      OBVIOUS
    <3>1. i - 1 \in 1 .. k /\ Replay(s)[i] = b[i - 1]
      BY <1>2, <2>7
    <3>2. Replay(s)[i].id = nextId - k + (i - 1) /\ Replay(s)[i].gap = FALSE
      BY <1>4, <3>1
    <3> QED
      BY <2>2, <3>2
  <2>9. \A i \in 1 .. k + 1 : Replay(s)[i].id = overflowFrom - 1 + (i - 1)
    BY <1>2, <1>5, <2>3, <2>7, <2>8
  <2>10. \A i \in 1 .. k + 1 : Replay(s)[i].id <= nextId /\ (Replay(s)[i].gap => i = 1)
    BY <1>1, <1>2, <1>5, <2>2, <2>8, <2>9
  <2>11. \A i \in 1 .. k : Replay(s)[i + 1].id = Replay(s)[i].id + 1
    <3> SUFFICES ASSUME NEW i \in 1 .. k
                 PROVE  Replay(s)[i + 1].id = Replay(s)[i].id + 1
      OBVIOUS
    <3>1. i \in 1 .. k + 1 /\ i + 1 \in 1 .. k + 1
      BY <1>2
    <3>2. /\ Replay(s)[i].id = overflowFrom - 1 + (i - 1)
          /\ Replay(s)[i + 1].id = overflowFrom - 1 + (i + 1 - 1)
      BY <2>9, <3>1
    <3> QED
      BY <1>2, <1>5, <3>2
  <2>12. Replay(s) # <<>>
    BY <1>2, <2>6, EmptySeq
  <2>13. Replay(s)[1].id > last[s] /\ Replay(s)[1].gap = TRUE /\ k + 1 # 1
    BY <1>1, <1>2, <1>5, <2>2, <2>3, <2>7
  <2>14. Replay(s)[k + 1].id = nextId
    BY <1>1, <1>2, <1>5, <2>2, <2>9
  <2>15. Len(Replay(s)) \in Nat /\ Len(Replay(s)) - 1 = k /\ Len(Replay(s)) # 1
    BY <1>2, <2>6, <2>13
  <2>16. /\ \A i \in 1 .. Len(Replay(s)) :
              Replay(s)[i].id <= nextId /\ (Replay(s)[i].gap => i = 1)
         /\ \A i \in 1 .. Len(Replay(s)) - 1 : Replay(s)[i + 1].id = Replay(s)[i].id + 1
         /\ Replay(s)[Len(Replay(s))].id = nextId
    BY <2>6, <2>10, <2>11, <2>14, <2>15
  <2> QED
    BY <2>6, <2>12, <2>13, <2>15, <2>16
<1> QED
  BY <1>6, <1>7

-----------------------------------------------------------------------------
(* The run *)

\* emit keeps the buffer's ids consecutive, also when the oldest falls out.
LEMMA EmitBuffers ==
  ASSUME TypeOK, ClientTypes, BufferInv, Emit
  PROVE  /\ BufferInv'
         /\ nextId' = nextId + 1 /\ nextId' \in 0 .. MaxEvents
         /\ buffer' \in Seq(1 .. MaxEvents) /\ Len(buffer') <= BufferSize
         /\ overflowFrom' \in 0 .. MaxEvents
<1> DEFINE id == nextId + 1
           kept == IF Len(buffer) = BufferSize THEN Tail(buffer) ELSE buffer
           Ids == 1 .. MaxEvents
<1>1. nextId' = id /\ buffer' = Append(kept, id) /\ overflowFrom' = NewOldest(id)
  BY DEF Emit, Buffered
<1>2. /\ buffer \in Seq(Ids) /\ Len(buffer) \in Nat /\ Len(buffer) <= BufferSize
      /\ BufferSize \in Nat \ {0} /\ MaxEvents \in Nat
      /\ buffer = <<>> <=> Len(buffer) = 0
  BY EventBusAssumption, LenProperties, EmptySeq DEF TypeOK
<1>3. nextId \in Nat /\ id \in Ids
  BY <1>2, TopType DEF Emit
<1>4. /\ Len(buffer) <= nextId
      /\ \A i \in 1 .. Len(buffer) : buffer[i] = nextId - Len(buffer) + i
      /\ overflowFrom = IF buffer = <<>> THEN Never ELSE buffer[1]
  BY DEF BufferInv
<1>5. /\ kept \in Seq(Ids) /\ Len(kept) \in Nat /\ Len(kept) < BufferSize /\ Len(kept) <= nextId
      /\ \A i \in 1 .. Len(kept) : kept[i] = nextId - Len(kept) + i
  <2>1. CASE Len(buffer) = BufferSize
    <3>1. buffer # <<>>
      BY <1>2, <2>1
    <3>2. /\ Tail(buffer) \in Seq(Ids) /\ Len(Tail(buffer)) = Len(buffer) - 1
          /\ \A i \in 1 .. Len(buffer) - 1 : Tail(buffer)[i] = buffer[i + 1]
      BY <1>2, <3>1, TailFacts
    <3>3. ASSUME NEW i \in 1 .. Len(buffer) - 1
          PROVE  Tail(buffer)[i] = nextId - (Len(buffer) - 1) + i
      <4>1. i + 1 \in 1 .. Len(buffer) /\ Tail(buffer)[i] = buffer[i + 1]
        BY <1>2, <3>2
      <4> QED
        BY <1>2, <1>3, <1>4, <4>1
    <3>4. kept = Tail(buffer) /\ Len(kept) = Len(buffer) - 1
      BY <2>1, <3>2
    <3> HIDE DEF kept
    <3>5. Len(kept) \in Nat /\ Len(kept) < BufferSize /\ Len(kept) <= nextId
      BY <1>2, <1>3, <1>4, <2>1, <3>4
    <3> QED
      BY <3>2, <3>3, <3>4, <3>5
  <2>2. CASE Len(buffer) # BufferSize
    BY <1>2, <1>4, <2>2
  <2> QED
    BY <2>1, <2>2
<1> HIDE DEF kept, id
<1>6. /\ buffer' \in Seq(Ids) /\ buffer' # <<>> /\ Len(buffer') = Len(kept) + 1
      /\ \A i \in 1 .. Len(kept) + 1 : buffer'[i] = IF i <= Len(kept) THEN kept[i] ELSE id
  BY <1>1, <1>3, <1>5, AppendFacts
<1>7. \A i \in 1 .. Len(buffer') : buffer'[i] = nextId' - Len(buffer') + i
  <2> SUFFICES ASSUME NEW i \in 1 .. Len(kept) + 1 PROVE buffer'[i] = id - (Len(kept) + 1) + i
    BY <1>1, <1>6
  <2>1. CASE i <= Len(kept)
    <3>1. buffer'[i] = kept[i] /\ kept[i] = nextId - Len(kept) + i
      BY <1>5, <1>6, <2>1
    <3> QED
      BY <1>3, <1>5, <3>1 DEF id
  <2>2. CASE i = Len(kept) + 1
    BY <1>3, <1>5, <1>6, <2>2 DEF id
  <2> QED
    BY <1>5, <2>1, <2>2
<1>8. Len(buffer') <= nextId'
  BY <1>1, <1>3, <1>5, <1>6 DEF id
<1>9. NewOldest(id) = nextId - Len(kept) + 1
  <2>1. CASE Len(buffer) = BufferSize
    <3>1. Len(kept) = Len(buffer) - 1
      BY <1>2, <2>1, TailFacts DEF kept
    <3>2. BufferSize >= 2 => buffer[2] = nextId - Len(buffer) + 2
      BY <1>2, <1>4, <2>1
    <3> QED
      BY <1>2, <1>3, <2>1, <3>1, <3>2 DEF NewOldest, id
  <2>2. CASE Len(buffer) # BufferSize /\ Len(buffer) = 0
    <3>1. Append(buffer, id)[1] = id
      BY <1>2, <1>3, <2>2, AppendFacts
    <3>2. overflowFrom = Never
      BY <1>2, <1>4, <2>2
    <3> QED
      BY <1>2, <1>3, <2>2, <3>1, <3>2 DEF NewOldest, id, kept
  <2>3. CASE Len(buffer) # BufferSize /\ Len(buffer) # 0
    <3>1. overflowFrom = nextId - Len(buffer) + 1 /\ overflowFrom # Never
      BY <1>2, <1>3, <1>4, <2>3 DEF Never
    <3> QED
      BY <1>2, <2>3, <3>1 DEF NewOldest, kept
  <2> QED
    BY <2>1, <2>2, <2>3
<1>10. overflowFrom' = buffer'[1]
  BY <1>1, <1>3, <1>5, <1>6, <1>7, <1>9 DEF id
<1>11. overflowFrom' \in 0 .. MaxEvents /\ nextId' \in 0 .. MaxEvents
  BY <1>1, <1>2, <1>3, <1>5, <1>9 DEF id
<1>12. BufferInv'
  BY <1>6, <1>7, <1>8, <1>10 DEF BufferInv
<1> QED
  BY <1>1, <1>2, <1>5, <1>6, <1>11, <1>12 DEF id

\* What one step does to the run.
RunMoves ==
  \/ RunEmits \/ RunEnds
  \/ RunCloses /\ Close
  \/ RunCloses /\ Clear

\* The steps of one client, and of the server for it.
ClientMoves(s) ==
  \/ Accepted(s) \/ NotFound(s) \/ Retry(s) \/ Serve(s) \/ Receive(s) \/ StreamDone(s)
  \/ Show(s) \/ Hide(s) \/ Breaks(s)
  \/ CancelRun(s) \/ HandleCancel(s) \/ CancelAnswered(s) \/ CancelLost(s)

\* Every step is one of the run or one of a client.
LEMMA StepSplits ==
  ClientNext <=> RunMoves \/ \E s \in Subs : ClientMoves(s)
BY DEF ClientNext, RunMoves, RunCloses, ClientMoves, Progress

\* No client has a hand in what the run emits, nor in how it ends.
LEMMA ClientsMoveNoRun ==
  ASSUME NEW s \in Subs, ClientMoves(s)
  PROVE  UNCHANGED <<nextId, buffer, overflowFrom, closed, evicted, outcome, endId>>
<1> USE DEF run, server, vars
<1>1. CASE Accepted(s) \/ NotFound(s) \/ Retry(s) \/ StreamDone(s)
  BY <1>1 DEF Accepted, Connect, NotFound, Retry, StreamDone
<1>2. CASE Serve(s) \/ Receive(s)
  BY <1>2 DEF Serve, Subscribe, ReplayDone, Receive, YieldReplay, ReadQueue
<1>3. CASE Show(s) \/ Hide(s) \/ Breaks(s)
  BY <1>3 DEF Show, Hide, Breaks, Disconnected
<1>4. CASE CancelRun(s) \/ HandleCancel(s) \/ CancelAnswered(s) \/ CancelLost(s)
  BY <1>4 DEF CancelRun, HandleCancel, CancelAnswered, CancelLost
<1> QED
  BY <1>1, <1>2, <1>3, <1>4 DEF ClientMoves

\* Whatever step is taken, the run and its buffer stay in order.
LEMMA RunKeeps ==
  ASSUME TypeOK, ClientTypes, RunInv, BufferInv, [ClientNext]_clientVars
  PROVE  RunInv' /\ BufferInv'
<1>1. CASE UNCHANGED <<nextId, buffer, overflowFrom, closed, evicted, outcome, endId>>
  BY <1>1 DEF RunInv, BufferInv, Gone
<1>2. CASE RunEmits \/ RunEnds
  <2>1. BufferInv' /\ nextId' = nextId + 1 /\ nextId \in Nat
    BY <1>2, EmitBuffers, TopType DEF RunEmits, RunEnds
  <2>2. UNCHANGED <<closed, evicted>> /\ ~closed /\ ~evicted
    BY <1>2 DEF RunEmits, RunEnds, Emit
  <2>3. CASE RunEmits
    BY <2>1, <2>2, <2>3 DEF RunEmits, RunInv, Gone, server
  <2>4. CASE RunEnds
    <3>1. endId' = nextId + 1 /\ nextId' = endId' /\ endId' >= 1
      BY <2>1, <2>4 DEF RunEnds
    <3>2. outcome' # "none"
      BY <2>4 DEF RunEnds, Outcomes
    <3> QED
      BY <2>1, <2>2, <3>1, <3>2 DEF RunInv, Gone
  <2> QED
    BY <1>2, <2>1, <2>3, <2>4
<1>3. CASE RunCloses /\ Close
  BY <1>3 DEF RunCloses, Close, RunInv, BufferInv, Gone, server
<1>4. CASE RunCloses /\ Clear
  <2>1. Len(<<>>) = 0
    OBVIOUS
  <2> QED
    BY <1>4, <2>1 DEF RunCloses, Clear, RunInv, BufferInv, Gone, server
<1> QED
  BY <1>1, <1>2, <1>3, <1>4, StepSplits, ClientsMoveNoRun DEF RunMoves, clientVars, vars

\* Every stream's variables stay what they are.
LEMMA EmitTypes ==
  ASSUME TypeOK, ClientTypes, BufferInv, Emit
  PROVE  TypeOK'
<1>1. /\ nextId' = nextId + 1 /\ nextId' \in 0 .. MaxEvents /\ nextId' \in Nat
      /\ buffer' \in Seq(1 .. MaxEvents) /\ Len(buffer') <= BufferSize
      /\ overflowFrom' \in 0 .. MaxEvents
  BY EmitBuffers
<1>2. queue' \in [Subs -> Seq(Nat)] /\ \A s \in Subs : Len(queue'[s]) <= QueueSize
  <2>1. queue' = [s \in Subs |->
          IF s \in listeners /\ ~Full(queue[s]) THEN Append(queue[s], nextId + 1) ELSE queue[s]]
    BY DEF Emit
  <2>2. ASSUME NEW s \in Subs
        PROVE  queue'[s] \in Seq(Nat) /\ Len(queue'[s]) <= QueueSize
    <3>1. queue[s] \in Seq(Nat) /\ Len(queue[s]) <= QueueSize /\ Len(queue[s]) \in Nat
      BY StreamTypes DEF TypeOK
    <3>2. /\ Append(queue[s], nextId + 1) \in Seq(Nat)
          /\ Len(Append(queue[s], nextId + 1)) = Len(queue[s]) + 1
      BY <1>1, <3>1, AppendFacts
    <3> QED
      BY <2>1, <3>1, <3>2, EventBusAssumption DEF Full
  <2> QED
    BY <2>1, <2>2
<1> QED
  BY <1>1, <1>2 DEF TypeOK, Emit

\* The sentinel fits: a full queue gives up its oldest event for it.
LEMMA CloseTypes ==
  ASSUME TypeOK, Close
  PROVE  TypeOK'
<1>1. queue' = [s \in Subs |->
        IF s \notin listeners THEN queue[s]
        ELSE Append(IF Full(queue[s]) THEN Tail(queue[s]) ELSE queue[s], Stop)]
  BY DEF Close
<1>2. ASSUME NEW s \in Subs
      PROVE  queue'[s] \in Seq(Nat) /\ Len(queue'[s]) <= QueueSize
  <2> DEFINE kept == IF Full(queue[s]) THEN Tail(queue[s]) ELSE queue[s]
  <2>1. /\ queue[s] \in Seq(Nat) /\ Len(queue[s]) <= QueueSize /\ Len(queue[s]) \in Nat
        /\ queue[s] = <<>> <=> Len(queue[s]) = 0
    BY StreamTypes DEF TypeOK
  <2>2. kept \in Seq(Nat) /\ Len(kept) \in Nat /\ Len(kept) < QueueSize
    <3>1. CASE Full(queue[s])
      <4>1. queue[s] # <<>>
        BY <2>1, <3>1, EventBusAssumption DEF Full
      <4> QED
        BY <2>1, <3>1, <4>1, TailFacts, EventBusAssumption DEF Full
    <3>2. CASE ~Full(queue[s])
      BY <2>1, <3>2, EventBusAssumption DEF Full
    <3> QED
      BY <3>1, <3>2
  <2> HIDE DEF kept
  <2>3. Append(kept, Stop) \in Seq(Nat) /\ Len(Append(kept, Stop)) = Len(kept) + 1
    BY <2>2, AppendFacts DEF Stop
  <2> QED
    BY <1>1, <2>1, <2>2, <2>3, EventBusAssumption DEF kept
<1>3. queue' \in [Subs -> Seq(Nat)]
  BY <1>1, <1>2
<1> QED
  BY <1>2, <1>3 DEF TypeOK, Close

\* Subscribing and reading keep the types, as no frame bears an id beyond the latest.
LEMMA StreamStepTypes ==
  ASSUME TypeOK, ClientTypes, RunInv, BufferInv, Streams, NEW s \in Subs,
         Subscribe(s) \/ YieldReplay(s) \/ ReplayDone(s) \/ ReadQueue(s)
  PROVE  TypeOK'
<1>0. <<>> \in Seq(Nat) /\ Len(<<>>) = 0
  BY EmptySeq
<1>1. CASE Subscribe(s)
  <2>1. Replay(s) \in Seq(Frames)
    BY ReplayFacts
  <2>2. replay' = [replay EXCEPT ![s] = Replay(s)] /\ queue' = [queue EXCEPT ![s] = <<>>]
    BY <1>1 DEF Subscribe
  <2>3. replay' \in [Subs -> Seq(Frames)] /\ queue' \in [Subs -> Seq(Nat)]
    BY <1>0, <2>1, <2>2 DEF TypeOK
  <2>4. \A t \in Subs : Len(queue'[t]) <= QueueSize
    BY <1>0, <2>2, EventBusAssumption DEF TypeOK
  <2> QED
    BY <1>1, <2>3, <2>4 DEF TypeOK, Subscribe, run
<1>2. CASE YieldReplay(s)
  <2>1. /\ replay[s] \in Seq(Frames) /\ replay[s] # <<>>
        /\ replay' = [replay EXCEPT ![s] = Tail(replay[s])]
        /\ last' = [last EXCEPT ![s] = Head(replay[s]).id]
    BY <1>2, StreamTypes DEF YieldReplay
  <2>2. Tail(replay[s]) \in Seq(Frames) /\ Head(replay[s]) = replay[s][1] /\ Len(replay[s]) \in Nat \ {0}
    BY <2>1, TailFacts
  <2>3. replay[s][1].id \in Nat /\ replay[s][1].id <= Top
    BY <2>2, StreamTypes DEF Streams, StreamInv, ReplayInv
  <2>4. Top \in 0 .. MaxEvents
    BY TopType
  <2>5. replay' \in [Subs -> Seq(Frames)] /\ last' \in [Subs -> 0 .. MaxEvents]
    <3>1. Head(replay[s]).id \in 0 .. MaxEvents
      BY <2>2, <2>3, <2>4, EventBusAssumption
    <3> QED
      BY <2>1, <2>2, <3>1 DEF TypeOK
  <2> QED
    BY <1>2, <2>5 DEF TypeOK, YieldReplay, run
<1>3. CASE ReplayDone(s)
  BY <1>3 DEF ReplayDone, TypeOK, run
<1>4. CASE ReadQueue(s)
  <2>1. /\ queue[s] \in Seq(Nat) /\ queue[s] # <<>> /\ Len(queue[s]) <= QueueSize
        /\ queue' = [queue EXCEPT ![s] = Tail(queue[s])]
    BY <1>4, StreamTypes DEF ReadQueue, TypeOK
  <2>2. /\ Tail(queue[s]) \in Seq(Nat) /\ Head(queue[s]) = queue[s][1] /\ Len(queue[s]) \in Nat \ {0}
        /\ Len(Tail(queue[s])) = Len(queue[s]) - 1
    BY <2>1, TailFacts
  <2>3. queue[s][1] \in Nat /\ queue[s][1] <= Top
    BY <2>2, StreamTypes DEF Streams, StreamInv, QueueInv
  <2>4. Top \in 0 .. MaxEvents
    BY TopType
  <2>5. queue' \in [Subs -> Seq(Nat)] /\ \A t \in Subs : Len(queue'[t]) <= QueueSize
    BY <2>1, <2>2, EventBusAssumption DEF TypeOK
  <2>6. last' \in [Subs -> 0 .. MaxEvents] /\ listeners' \subseteq Subs
    <3>1. Head(queue[s]) \in 0 .. MaxEvents
      BY <2>2, <2>3, <2>4, EventBusAssumption
    <3>2. last' = last \/ last' = [last EXCEPT ![s] = Head(queue[s])]
      BY <1>4 DEF ReadQueue
    <3>3. listeners' = listeners \/ listeners' = listeners \ {s}
      BY <1>4 DEF ReadQueue
    <3> QED
      BY <3>1, <3>2, <3>3 DEF TypeOK
  <2>7. phase' = phase \/ phase' = [phase EXCEPT ![s] = "over"]
    BY <1>4 DEF ReadQueue
  <2> QED
    BY <1>4, <2>5, <2>6, <2>7 DEF TypeOK, ReadQueue, run
<1> QED
  BY <1>1, <1>2, <1>3, <1>4

\* Every step keeps the types of the bus and of the client.
LEMMA TypesKeep ==
  ASSUME TypeOK, ClientTypes, RunInv, BufferInv, Streams, [ClientNext]_clientVars
  PROVE  TypeOK' /\ ClientTypes'
<1> USE DEF server, store
<1>1. CASE UNCHANGED clientVars
  BY <1>1 DEF clientVars, vars, TypeOK, ClientTypes
<1>2. CASE RunEmits \/ RunEnds
  <2>1. TypeOK' /\ nextId' \in 0 .. MaxEvents
    BY <1>2, EmitTypes, EmitBuffers DEF RunEmits, RunEnds
  <2> QED
    BY <1>2, <2>1 DEF RunEmits, RunEnds, ClientTypes, Outcomes
<1>3. CASE RunCloses /\ Close
  <2>1. TypeOK'
    BY <1>3, CloseTypes
  <2> QED
    BY <1>3, <2>1 DEF RunCloses, ClientTypes
<1>4. CASE RunCloses /\ Clear
  <2>1. <<>> \in Seq(1 .. MaxEvents) /\ Len(<<>>) = 0
    BY EmptySeq
  <2>2. TypeOK'
    <3>1. /\ nextId' = 0 /\ buffer' = <<>> /\ overflowFrom' = 0 /\ closed' = FALSE /\ evicted' = TRUE
          /\ UNCHANGED <<listeners, queue, phase, replay, ending, last>>
      BY <1>4 DEF Clear, Never
    <3>2. 0 \in 0 .. MaxEvents /\ 0 <= BufferSize
      BY EventBusAssumption
    <3> QED
      BY <2>1, <3>1, <3>2 DEF TypeOK
  <2> QED
    BY <1>4, <2>2 DEF RunCloses, ClientTypes
<1>5. ASSUME NEW s \in Subs, ClientMoves(s) PROVE TypeOK' /\ ClientTypes'
  <2>1. CASE Accepted(s)
    BY <2>1 DEF Accepted, Connect, run, TypeOK, ClientTypes
  <2>2. CASE NotFound(s) \/ Retry(s) \/ StreamDone(s)
    BY <2>2 DEF NotFound, Failed, Retry, StreamDone, vars, TypeOK, ClientTypes
  <2>3. CASE Serve(s)
    BY <2>3, StreamStepTypes DEF Serve, ClientTypes
  <2>4. CASE Receive(s)
    <3>1. TypeOK'
      BY <2>4, StreamStepTypes DEF Receive
    <3>2. \/ UNCHANGED <<shown, summary>>
          \/ \E x \in {shown[s], outcome} :
               shown' = [shown EXCEPT ![s] = x] /\ summary' = [summary EXCEPT ![s] = shown'[s]]
      BY <2>4 DEF Receive, OnEvent
    <3>3. ASSUME NEW x \in {shown[s], outcome}, shown' = [shown EXCEPT ![s] = x],
                 summary' = [summary EXCEPT ![s] = shown'[s]]
          PROVE  /\ shown' \in [Subs -> Outcomes \cup {"none", "running"}]
                 /\ summary' \in [Subs -> Outcomes \cup {"none", "running", "pending"}]
      <4>1. x \in Outcomes \cup {"none", "running"}
        BY DEF ClientTypes
      <4>2. shown'[s] = x
        BY <3>3 DEF ClientTypes
      <4> QED
        BY <3>3, <4>1, <4>2 DEF ClientTypes
    <3>4. UNCHANGED <<outcome, endId, token, conn, cancel>>
      BY <2>4 DEF Receive
    <3> QED
      BY <3>1, <3>2, <3>3, <3>4 DEF ClientTypes
  <2>5. CASE Show(s) \/ Hide(s) \/ Breaks(s)
    <3>1. Disconnected(s)
      BY <2>5 DEF Show, Hide, Breaks
    <3>2. <<>> \in Seq(Frames) /\ <<>> \in Seq(Nat) /\ Len(<<>>) = 0
      BY EmptySeq
    <3>3. last' \in [Subs -> 0 .. MaxEvents]
      BY <2>5, EventBusAssumption DEF Show, Hide, Breaks, TypeOK, Never
    <3>4. queue' \in [Subs -> Seq(Nat)] /\ \A t \in Subs : Len(queue'[t]) <= QueueSize
      BY <3>1, <3>2, EventBusAssumption DEF Disconnected, TypeOK
    <3>5. TypeOK'
      BY <3>1, <3>2, <3>3, <3>4 DEF Disconnected, run, TypeOK
    <3>6. ClientTypes'
      BY <2>5 DEF Show, Hide, Breaks, Failed, ClientTypes
    <3> QED
      BY <3>5, <3>6
  <2>6. CASE CancelRun(s) \/ HandleCancel(s) \/ CancelAnswered(s) \/ CancelLost(s)
    <3>1. TypeOK'
      BY <2>6 DEF CancelRun, HandleCancel, CancelAnswered, CancelLost, vars, TypeOK
    <3>2. CASE CancelRun(s) \/ CancelLost(s)
      BY <3>1, <3>2 DEF CancelRun, CancelLost, ClientTypes
    <3>3. CASE HandleCancel(s)
      BY <3>1, <3>3 DEF HandleCancel, ClientTypes
    <3>4. CASE CancelAnswered(s)
      <4>1. /\ cancel' = [cancel EXCEPT ![s] = "none"]
            /\ summary' = [summary EXCEPT ![s] = "cancelled"] \/ summary' = [summary EXCEPT ![s] = @]
            /\ UNCHANGED <<outcome, endId, token, conn, shown>>
        BY <3>4 DEF CancelAnswered
      <4> QED
        BY <3>1, <4>1 DEF ClientTypes, Outcomes
    <3> QED
      BY <2>6, <3>1, <3>2, <3>3, <3>4
  <2> QED
    BY <1>5, <2>1, <2>2, <2>3, <2>4, <2>5, <2>6 DEF ClientMoves
<1> QED
  BY <1>1, <1>2, <1>3, <1>4, <1>5, StepSplits DEF RunMoves

-----------------------------------------------------------------------------
(* One stream *)

\* What is only about the stream, not about what the client makes of it.
BusInv(s) == ReplayInv(s) /\ QueueInv(s) /\ ListenInv(s) /\ StopInv(s) /\ PhaseInv(s)

\* A stream no step touches stays as it is.
LEMMA Untouched ==
  ASSUME NEW s \in Subs, BusInv(s),
         UNCHANGED <<nextId, closed, evicted, outcome, endId>>,
         replay'[s] = replay[s], queue'[s] = queue[s], phase'[s] = phase[s],
         ending'[s] = ending[s], last'[s] = last[s], s \in listeners' <=> s \in listeners
  PROVE  BusInv(s)'
BY DEF BusInv, ReplayInv, QueueInv, ListenInv, StopInv, PhaseInv, Top, Gone, ReplayEnd, Tip

\* An event is the next one for every queue that is up to date.
LEMMA EmitKeeps ==
  ASSUME TypeOK, ClientTypes, RunInv, BufferInv, NEW s \in Subs, BusInv(s),
         RunEmits \/ RunEnds
  PROVE  BusInv(s)'
<1>1. /\ outcome = "none" /\ ~closed /\ ~evicted /\ UNCHANGED <<closed, evicted, phase, replay, ending, last>>
      /\ nextId' = nextId + 1
      /\ queue'[s] = IF s \in listeners /\ ~Full(queue[s]) THEN Append(queue[s], nextId + 1) ELSE queue[s]
      /\ s \in listeners' <=> s \in listeners /\ ~Full(queue[s])
  BY DEF RunEmits, RunEnds, Emit
<1>2. nextId \in Nat /\ Top = nextId /\ Top' = nextId + 1
  BY <1>1, TopType DEF RunEmits, RunEnds, Top, Outcomes, server
<1>3. /\ Len(replay[s]) \in Nat /\ Len(queue[s]) \in Nat
      /\ queue[s] = <<>> <=> Len(queue[s]) = 0
      /\ queue[s] \in Seq(Nat)
      /\ \A i \in 1 .. Len(replay[s]) : replay[s][i].id \in Nat
      /\ \A i \in 1 .. Len(queue[s]) : queue[s][i] \in Nat
      /\ ReplayEnd(s) \in Nat
  BY StreamTypes
<1>4. ~Gone /\ ~Gone' /\ ReplayEnd(s)' = ReplayEnd(s)
  BY <1>1 DEF Gone, ReplayEnd
<1>5. ReplayInv(s)'
  BY <1>1, <1>2, <1>3 DEF BusInv, ReplayInv
<1>6. PhaseInv(s)'
  BY <1>1 DEF BusInv, PhaseInv
<1>7. ASSUME s \in listeners, ~Full(queue[s])
      PROVE  QueueInv(s)' /\ ListenInv(s)' /\ StopInv(s)'
  <2> DEFINE q == queue[s]
             n == Len(q)
  <2>1. /\ Append(q, nextId + 1) # <<>> /\ Len(Append(q, nextId + 1)) = n + 1
        /\ \A i \in 1 .. n + 1 : Append(q, nextId + 1)[i] = IF i <= n THEN q[i] ELSE nextId + 1
    <3>1. nextId + 1 \in Nat /\ queue[s] \in Seq(Nat)
      BY <1>2, <1>3
    <3> QED
      BY <3>1, AppendFacts
  <2>2. queue'[s] = Append(q, nextId + 1)
    BY <1>1, <1>7
  <2>3. /\ \A i \in 1 .. n : q[i] <= nextId /\ q[i] # Stop
        /\ \A i \in 1 .. n - 1 : q[i + 1] = q[i] + 1
        /\ n # 0 => q[1] = ReplayEnd(s) + 1
        /\ (IF n = 0 THEN ReplayEnd(s) ELSE q[n]) = nextId
    <3>1. \A i \in 1 .. n : q[i] <= nextId /\ q[i] # Stop
      BY <1>2, <1>4 DEF BusInv, QueueInv
    <3>2. \A i \in 1 .. n - 1 : q[i + 1] # Stop => q[i + 1] = q[i] + 1
      BY DEF BusInv, QueueInv
    <3>3. n # 0 => q[1] = ReplayEnd(s) + 1
      BY <1>3, <1>4, <3>1 DEF BusInv, QueueInv
    <3>4. Tip(s) = nextId
      BY <1>4, <1>7 DEF BusInv, ListenInv
    <3>5. (IF n = 0 THEN ReplayEnd(s) ELSE q[n]) = nextId
      BY <1>3, <3>4 DEF Tip
    <3>6. ASSUME NEW i \in 1 .. n - 1 PROVE q[i + 1] = q[i] + 1
      <4>1. i + 1 \in 1 .. n
        BY <1>3
      <4> QED
        BY <3>1, <3>2, <4>1
    <3> QED
      BY <3>1, <3>3, <3>5, <3>6
  <2> DEFINE p == Append(q, nextId + 1)
  <2>4. n \in Nat /\ ReplayEnd(s) \in Nat /\ (\A i \in 1 .. n : q[i] \in Nat)
    BY <1>3
  <2>5. Len(p) = n + 1 /\ p # <<>>
    BY <2>1
  <2>6. p[n + 1] = nextId + 1 /\ \A i \in 1 .. n : p[i] = q[i]
    BY <2>1, <2>4
  <2> HIDE DEF p, q, n
  <2>7. \A i \in 1 .. n + 1 : p[i] <= nextId + 1 /\ p[i] # Stop
    <3> SUFFICES ASSUME NEW i \in 1 .. n + 1 PROVE p[i] <= nextId + 1 /\ p[i] # Stop
      OBVIOUS
    <3>1. CASE i = n + 1
      BY <1>2, <2>6, <3>1 DEF Stop
    <3>2. CASE i \in 1 .. n
      BY <1>2, <2>3, <2>4, <2>6, <3>2
    <3> QED
      BY <2>4, <3>1, <3>2
  <2>8. \A i \in 1 .. n : p[i + 1] = p[i] + 1
    <3> SUFFICES ASSUME NEW i \in 1 .. n PROVE p[i + 1] = p[i] + 1
      OBVIOUS
    <3>1. CASE i = n
      BY <2>3, <2>4, <2>6, <3>1
    <3>2. CASE i # n
      <4>1. i \in 1 .. n - 1 /\ i + 1 \in 1 .. n
        BY <2>4, <3>2
      <4> QED
        BY <2>3, <2>6, <4>1
    <3> QED
      BY <3>1, <3>2
  <2>9. p[1] = ReplayEnd(s) + 1
    BY <2>3, <2>4, <2>6
  <2>10. queue'[s] = p
    BY <2>2 DEF p
  <2>11. QueueInv(s)'
    <3>1. Len(p) - 1 = n
      BY <2>4, <2>5
    <3> QED
      BY <1>2, <1>4, <2>5, <2>7, <2>8, <2>9, <2>10, <3>1 DEF QueueInv
  <2>12. ListenInv(s)'
    BY <1>1, <2>5, <2>6, <2>10 DEF ListenInv, Tip
  <2>13. StopInv(s)'
    BY <2>5, <2>7, <2>10 DEF StopInv
  <2> QED
    BY <2>11, <2>12, <2>13
<1>8. ASSUME ~(s \in listeners /\ ~Full(queue[s]))
      PROVE  QueueInv(s)' /\ ListenInv(s)' /\ StopInv(s)'
  <2>1. queue'[s] = queue[s] /\ s \notin listeners'
    BY <1>1, <1>8
  <2>2. \A i \in 1 .. Len(queue[s]) : queue[s][i] # Stop
    BY <1>4 DEF BusInv, QueueInv
  <2>3. QueueInv(s)'
    BY <1>2, <1>3, <1>4, <2>1, <2>2 DEF BusInv, QueueInv
  <2> QED
    BY <2>1, <2>2, <2>3 DEF ListenInv, StopInv
<1> QED
  BY <1>5, <1>6, <1>7, <1>8 DEF BusInv

\* The sentinel comes last, behind the run's last event where there is a place for both.
LEMMA CloseKeeps ==
  ASSUME TypeOK, ClientTypes, RunInv, NEW s \in Subs, BusInv(s), RunCloses, Close
  PROVE  BusInv(s)'
<1> DEFINE q == queue[s]
           n == Len(q)
           kept == IF Full(q) THEN Tail(q) ELSE q
           k == Len(kept)
<1>1. /\ outcome # "none" /\ outcome' = outcome /\ endId' = endId
      /\ ~Gone /\ Gone'
      /\ UNCHANGED <<nextId, evicted, listeners, phase, replay, ending, last>>
      /\ queue'[s] = IF s \notin listeners THEN queue[s] ELSE Append(kept, Stop)
  BY DEF RunCloses, Close, server, Gone
<1>2. nextId = endId /\ endId \in Nat /\ Top = endId /\ Top' = endId
  BY <1>1, TopType DEF RunInv, Gone, Top
<1>3. /\ Len(replay[s]) \in Nat /\ n \in Nat /\ q \in Seq(Nat)
      /\ q = <<>> <=> n = 0
      /\ \A i \in 1 .. n : q[i] \in Nat
      /\ ReplayEnd(s) \in Nat
  BY StreamTypes
<1>4. ReplayEnd(s)' = ReplayEnd(s)
  BY <1>1 DEF ReplayEnd
<1>5. ReplayInv(s)'
  BY <1>1, <1>2 DEF BusInv, ReplayInv
<1>6. ListenInv(s)'
  BY <1>1 DEF ListenInv
<1>7. /\ \A i \in 1 .. n : q[i] <= endId /\ q[i] # Stop
      /\ \A i \in 1 .. n - 1 : q[i + 1] = q[i] + 1
      /\ n # 0 => q[1] = ReplayEnd(s) + 1
  <2>1. \A i \in 1 .. n : q[i] <= endId /\ q[i] # Stop
    BY <1>1, <1>2 DEF BusInv, QueueInv
  <2>2. ASSUME NEW i \in 1 .. n - 1 PROVE q[i + 1] = q[i] + 1
    <3>1. i + 1 \in 1 .. n
      BY <1>3
    <3> QED
      BY <2>1, <3>1 DEF BusInv, QueueInv
  <2>3. n # 0 => q[1] = ReplayEnd(s) + 1
    BY <1>1, <1>3, <2>1 DEF BusInv, QueueInv
  <2> QED
    BY <2>1, <2>2, <2>3
<1>8. CASE s \notin listeners
  <2>1. queue'[s] = queue[s]
    BY <1>1, <1>8
  <2>2. QueueInv(s)' /\ StopInv(s)'
    <3>1. \A i \in 1 .. Len(queue[s]) : queue[s][i] # Stop /\ queue[s][i] <= endId
      BY <1>7
    <3>2. StopInv(s)'
      BY <2>1, <3>1 DEF StopInv
    <3>3. QueueInv(s)'
      BY <1>1, <1>2, <1>3, <1>4, <1>7, <2>1, <3>1 DEF QueueInv
    <3> QED
      BY <3>2, <3>3
  <2>3. PhaseInv(s)'
    BY <1>1, <1>4, <2>1 DEF BusInv, PhaseInv
  <2> QED
    BY <1>5, <1>6, <2>2, <2>3 DEF BusInv
<1>9. CASE s \in listeners
  <2>1. (IF n = 0 THEN ReplayEnd(s) ELSE q[n]) = endId
    <3>1. Tip(s) = endId
      BY <1>1, <1>2, <1>9 DEF BusInv, ListenInv
    <3> QED
      BY <1>3, <3>1 DEF Tip
  <2>2. /\ kept \in Seq(Nat) /\ k \in Nat
        /\ \A i \in 1 .. k : kept[i] <= endId /\ kept[i] # Stop /\ kept[i] \in Nat
        /\ \A i \in 1 .. k - 1 : kept[i + 1] = kept[i] + 1
        /\ k # 0 => kept[1] = ReplayEnd(s) + 1 \/ kept[1] = ReplayEnd(s) + 2
        /\ QueueSize >= 2 => (IF k = 0 THEN ReplayEnd(s) ELSE kept[k]) = endId
    <3>1. CASE Full(q)
      <4>1. n = QueueSize /\ QueueSize \in Nat \ {0} /\ q # <<>> /\ kept = Tail(q)
        BY <1>3, <3>1, EventBusAssumption DEF Full
      <4>2. /\ Tail(q) \in Seq(Nat) /\ Len(Tail(q)) = n - 1
            /\ \A i \in 1 .. n - 1 : Tail(q)[i] = q[i + 1]
        BY <1>3, <4>1, TailFacts
      <4>3. k = n - 1 /\ kept \in Seq(Nat)
        BY <4>1, <4>2
      <4> HIDE DEF kept, q, n, k
      <4>4. ASSUME NEW i \in 1 .. n - 1
            PROVE  kept[i] = q[i + 1] /\ i + 1 \in 1 .. n
        BY <1>3, <4>1, <4>2
      <4>5. \A i \in 1 .. n - 1 : kept[i] <= endId /\ kept[i] # Stop /\ kept[i] \in Nat
        BY <1>3, <1>7, <4>4
      <4>6. ASSUME NEW i \in 1 .. k - 1 PROVE kept[i + 1] = kept[i] + 1
        <5>1. i \in 1 .. n - 1 /\ i + 1 \in 1 .. n - 1
          BY <1>3, <4>1, <4>3
        <5>2. kept[i] = q[i + 1] /\ kept[i + 1] = q[(i + 1) + 1]
          BY <4>4, <5>1
        <5> QED
          BY <1>7, <5>1, <5>2
      <4>7. k # 0 => kept[1] = ReplayEnd(s) + 2
        <5> SUFFICES ASSUME k # 0 PROVE kept[1] = ReplayEnd(s) + 2
          OBVIOUS
        <5>1. 1 \in 1 .. n - 1
          BY <1>3, <4>1, <4>3
        <5>2. kept[1] = q[1 + 1]
          BY <4>4, <5>1
        <5>3. q[1 + 1] = q[1] + 1 /\ q[1] = ReplayEnd(s) + 1
          BY <1>3, <1>7, <4>1, <5>1
        <5> QED
          BY <1>3, <5>2, <5>3
      <4>8. QueueSize >= 2 => k # 0 /\ kept[k] = endId
        <5> SUFFICES ASSUME QueueSize >= 2 PROVE k # 0 /\ kept[k] = endId
          OBVIOUS
        <5>1. k # 0 /\ k \in 1 .. n - 1 /\ k + 1 = n
          BY <1>3, <4>1, <4>3
        <5>2. kept[k] = q[k + 1]
          BY <4>4, <5>1
        <5> QED
          BY <1>3, <2>1, <4>1, <5>1, <5>2
      <4>9. k \in Nat
        BY <4>1, <4>3
      <4>10. \A i \in 1 .. k : kept[i] <= endId /\ kept[i] # Stop /\ kept[i] \in Nat
        BY <4>3, <4>5
      <4> QED
        BY <4>3, <4>6, <4>7, <4>8, <4>9, <4>10
    <3>2. CASE ~Full(q)
      BY <1>3, <1>7, <2>1, <3>2
    <3> QED
      BY <3>1, <3>2
  <2> DEFINE p == Append(kept, Stop)
  <2> HIDE DEF kept, k, q, n
  <2>3. /\ p # <<>> /\ Len(kept) = k /\ Len(p) = k + 1
        /\ \A i \in 1 .. k + 1 : p[i] = IF i <= k THEN kept[i] ELSE Stop
    <3>1. Len(kept) = k /\ Stop \in Nat /\ kept \in Seq(Nat)
      BY <2>2 DEF k, Stop
    <3>2. /\ p # <<>> /\ Len(p) = Len(kept) + 1
          /\ \A i \in 1 .. Len(kept) + 1 : p[i] = IF i <= Len(kept) THEN kept[i] ELSE Stop
      BY <3>1, AppendFacts DEF p
    <3> HIDE DEF p
    <3> QED
      BY <3>1, <3>2
  <2> HIDE DEF p
  <2>4. p[k + 1] = Stop /\ \A i \in 1 .. k : p[i] = kept[i]
    BY <2>2, <2>3
  <2>5. queue'[s] = p
    BY <1>1, <1>9 DEF p
  <2>6. \A i \in 1 .. k + 1 : p[i] <= endId /\ (p[i] = Stop => i = k + 1)
    <3> SUFFICES ASSUME NEW i \in 1 .. k + 1 PROVE p[i] <= endId /\ (p[i] = Stop => i = k + 1)
      OBVIOUS
    <3>1. CASE i = k + 1
      BY <1>2, <2>4, <3>1 DEF Stop
    <3>2. CASE i \in 1 .. k
      BY <2>2, <2>4, <3>2
    <3> QED
      BY <2>2, <3>1, <3>2
  <2>7. \A i \in 1 .. k : p[i + 1] # Stop => p[i + 1] = p[i] + 1
    <3> SUFFICES ASSUME NEW i \in 1 .. k, p[i + 1] # Stop PROVE p[i + 1] = p[i] + 1
      OBVIOUS
    <3>1. i # k
      BY <2>4
    <3>2. i \in 1 .. k - 1 /\ i + 1 \in 1 .. k
      BY <2>2, <3>1
    <3> QED
      BY <2>2, <2>4, <3>2
  <2>8. p[1] # Stop => p[1] = ReplayEnd(s) + 1 \/ p[1] = ReplayEnd(s) + 2
    <3> SUFFICES ASSUME p[1] # Stop PROVE p[1] = ReplayEnd(s) + 1 \/ p[1] = ReplayEnd(s) + 2
      OBVIOUS
    <3>1. k # 0
      BY <2>4
    <3>2. p[1] = kept[1]
      BY <2>2, <2>4, <3>1
    <3> QED
      BY <2>2, <3>1, <3>2
  <2>9. QueueInv(s)'
    <3>1. Len(p) - 1 = k
      BY <2>2, <2>3
    <3> QED
      BY <1>1, <1>2, <1>4, <2>3, <2>5, <2>6, <2>7, <2>8, <3>1 DEF QueueInv
  <2>10. StopInv(s)'
    <3>1. ASSUME QueueSize >= 2
          PROVE  (IF k + 1 = 1 THEN ReplayEnd(s) ELSE p[(k + 1) - 1]) = endId
      <4>1. k + 1 = 1 <=> k = 0
        BY <2>2
      <4>2. k # 0 => p[(k + 1) - 1] = kept[k]
        BY <2>2, <2>4
      <4> QED
        BY <2>2, <3>1, <4>1, <4>2
    <3> QED
      BY <1>1, <1>4, <2>3, <2>5, <2>6, <3>1 DEF StopInv
  <2>11. PhaseInv(s)'
    BY <1>1, <1>4, <1>9 DEF BusInv, PhaseInv
  <2> QED
    BY <1>5, <1>6, <2>9, <2>10, <2>11 DEF BusInv
<1> QED
  BY <1>8, <1>9

\* A run that is dropped leaves its streams alone.
LEMMA ClearKeeps ==
  ASSUME RunInv, NEW s \in Subs, BusInv(s), RunCloses, Clear
  PROVE  BusInv(s)'
<1>1. /\ outcome # "none" /\ outcome' = outcome /\ endId' = endId /\ Gone /\ Gone'
      /\ UNCHANGED <<listeners, queue, phase, replay, ending, last>>
  BY DEF RunCloses, Clear, server, Gone
<1>2. Top' = Top /\ ReplayEnd(s)' = ReplayEnd(s)
  BY <1>1 DEF Top, ReplayEnd
<1> QED
  BY <1>1, <1>2 DEF BusInv, ReplayInv, QueueInv, ListenInv, StopInv, PhaseInv

\* A stream that is not there, or not begun.
LEMMA EmptyStream ==
  ASSUME NEW s \in Subs, replay[s] = <<>>, queue[s] = <<>>, s \notin listeners,
         phase[s] \in {"out", "connecting"}
  PROVE  BusInv(s)
<1>1. Len(<<>>) = 0 /\ 1 .. 0 = {} /\ 1 .. 0 - 1 = {}
  OBVIOUS
<1> QED
  BY <1>1 DEF BusInv, ReplayInv, QueueInv, ListenInv, StopInv, PhaseInv

\* A stream about to start is empty.
LEMMA ConnectKeeps ==
  ASSUME TypeOK, NEW s \in Subs, BusInv(s), Connect(s)
  PROVE  BusInv(s)'
<1>1. /\ replay'[s] = <<>> /\ queue'[s] = <<>> /\ s \notin listeners'
      /\ phase'[s] = "connecting"
  BY DEF Connect, BusInv, PhaseInv, TypeOK
<1>2. Len(<<>>) = 0 /\ 1 .. 0 = {} /\ 1 .. 0 - 1 = {}
  OBVIOUS
<1> QED
  BY <1>1, <1>2 DEF BusInv, ReplayInv, QueueInv, ListenInv, StopInv, PhaseInv

\* So is one that is gone.
LEMMA DisconnectKeeps ==
  ASSUME TypeOK, NEW s \in Subs, Disconnected(s)
  PROVE  BusInv(s)'
<1>1. /\ replay'[s] = <<>> /\ queue'[s] = <<>> /\ s \notin listeners'
      /\ phase'[s] = "out"
  BY DEF Disconnected, TypeOK
<1>2. Len(<<>>) = 0 /\ 1 .. 0 = {} /\ 1 .. 0 - 1 = {}
  OBVIOUS
<1> QED
  BY <1>1, <1>2 DEF BusInv, ReplayInv, QueueInv, ListenInv, StopInv, PhaseInv

\* What is emitted from the snapshot on is in the queue, what was before it in the
\* replay, or the client has had it.
LEMMA SubscribeKeeps ==
  ASSUME TypeOK, ClientTypes, RunInv, BufferInv, NEW s \in Subs, BusInv(s), last[s] <= Top,
         Subscribe(s), UNCHANGED <<outcome, endId>>
  PROVE  BusInv(s)'
<1> DEFINE r == Replay(s)
           n == Len(r)
<1>1. /\ phase[s] = "connecting" /\ phase'[s] = "replay"
      /\ replay'[s] = r /\ ending'[s] = closed /\ queue'[s] = <<>> /\ last'[s] = last[s]
      /\ UNCHANGED <<nextId, buffer, closed, evicted>>
      /\ s \in listeners' <=> s \in listeners \/ ~closed
  BY DEF Subscribe, TypeOK, run
<1>2. s \notin listeners
  BY <1>1 DEF BusInv, PhaseInv
<1>3. /\ n \in Nat
      /\ \A i \in 1 .. n : r[i].id <= nextId /\ (r[i].gap => i = 1)
      /\ \A i \in 1 .. n - 1 : r[i + 1].id = r[i].id + 1
      /\ r = <<>> => nextId <= last[s]
      /\ r # <<>> =>
           /\ r[1].id > last[s]
           /\ last[s] # Never /\ ~r[1].gap => r[1].id = last[s] + 1
           /\ n = 1 => ~r[1].gap
           /\ r[n].id = nextId
      /\ r \in Seq(Frames)
  BY ReplayFacts
<1>4. nextId \in Nat /\ endId \in Nat /\ Top \in Nat /\ last[s] \in Nat
  BY TopType, StreamTypes
<1>5. Top' = Top /\ (~evicted => nextId = Top) /\ (evicted => nextId = 0) /\ nextId <= Top
  BY <1>1, <1>4 DEF Top, RunInv, Gone
<1>6. ReplayEnd(s)' = IF r = <<>> THEN last[s] ELSE nextId
  BY <1>1, <1>3 DEF ReplayEnd
<1>7. \A i \in 1 .. n : r[i].id \in Nat
  <2> SUFFICES ASSUME NEW i \in 1 .. n PROVE r[i].id \in Nat
    OBVIOUS
  <2>1. r[i] \in Frames
    BY <1>3, ElementOfSeq
  <2> QED
    BY <2>1 DEF Frames
<1> HIDE DEF r
<1>8. ReplayInv(s)'
  <2>1. \A i \in 1 .. n : r[i].id <= Top
    BY <1>3, <1>4, <1>5, <1>7
  <2> QED
    BY <1>1, <1>3, <1>5, <2>1 DEF ReplayInv
<1>9. Len(<<>>) = 0 /\ 1 .. 0 = {} /\ 1 .. 0 - 1 = {}
  OBVIOUS
<1>10. QueueInv(s)' /\ StopInv(s)'
  BY <1>1, <1>9 DEF QueueInv, StopInv
<1>11. ~evicted => ReplayEnd(s)' = nextId
  BY <1>3, <1>4, <1>5, <1>6
<1>12. ListenInv(s)'
  BY <1>1, <1>11 DEF ListenInv, Tip, Gone
<1>13. PhaseInv(s)'
  <2>1. closed => s \notin listeners' /\ outcome # "none" /\ ~evicted
    BY <1>1, <1>2 DEF RunInv, Gone
  <2>2. closed => ReplayEnd(s)' = endId
    BY <1>11, <2>1 DEF RunInv
  <2> QED
    BY <1>1, <2>1, <2>2 DEF PhaseInv
<1> QED
  BY <1>8, <1>10, <1>12, <1>13 DEF BusInv

\* A frame of the replay is beyond what the client has, and the rest follows it.
LEMMA YieldKeeps ==
  ASSUME TypeOK, ClientTypes, NEW s \in Subs, BusInv(s), YieldReplay(s), UNCHANGED <<outcome, endId>>
  PROVE  /\ BusInv(s)'
         /\ last'[s] = replay[s][1].id /\ last'[s] > last[s] /\ last'[s] <= Top
         /\ Len(replay[s]) \in Nat \ {0}
<1> DEFINE r == replay[s]
           n == Len(r)
           t == Tail(r)
<1>1. /\ phase[s] = "replay" /\ r # <<>> /\ replay'[s] = t /\ last'[s] = Head(r).id
      /\ UNCHANGED <<nextId, closed, evicted, listeners, queue, phase, ending>>
  BY DEF YieldReplay, TypeOK, run
<1>2. /\ r \in Seq(Frames)
      /\ \A i \in 1 .. n : r[i].id \in Nat
      /\ last[s] \in Nat
  BY StreamTypes
<1>3. /\ n \in Nat \ {0} /\ Head(r) = r[1] /\ Len(t) = n - 1
      /\ t = <<>> <=> n = 1
      /\ \A i \in 1 .. n - 1 : t[i] = r[i + 1]
  BY <1>1, <1>2, TailFacts
<1>4. /\ \A i \in 1 .. n : r[i].id <= Top /\ (r[i].gap => i = 1)
      /\ \A i \in 1 .. n - 1 : r[i + 1].id = r[i].id + 1
      /\ r[1].id > last[s]
  BY <1>1 DEF BusInv, ReplayInv
<1>5. last'[s] = r[1].id /\ last'[s] > last[s] /\ last'[s] <= Top
  BY <1>1, <1>3, <1>4
<1>6. Top' = Top
  BY <1>1 DEF Top
<1> HIDE DEF r, t
<1>7. ASSUME NEW i \in 1 .. n - 1
      PROVE  /\ i + 1 \in 1 .. n /\ t[i] = r[i + 1]
             /\ t[i].id <= Top /\ ~t[i].gap
  <2>1. i + 1 \in 1 .. n /\ i + 1 # 1
    BY <1>3
  <2> QED
    BY <1>3, <1>4, <2>1
<1>8. ReplayEnd(s)' = ReplayEnd(s)
  <2>1. ReplayEnd(s) = r[n].id
    BY <1>1 DEF ReplayEnd, r
  <2>2. ReplayEnd(s)' = IF t = <<>> THEN last'[s] ELSE t[Len(t)].id
    BY <1>1 DEF ReplayEnd
  <2>3. n # 1 => n - 1 \in 1 .. n - 1 /\ (n - 1) + 1 = n
    BY <1>3
  <2>4. n # 1 => t[n - 1] = r[n]
    BY <1>7, <2>3
  <2> QED
    BY <1>3, <1>5, <2>1, <2>2, <2>4
<1>9. ReplayInv(s)'
  <2>1. ASSUME NEW i \in 1 .. (n - 1) - 1 PROVE t[i + 1].id = t[i].id + 1
    <3>1. i \in 1 .. n - 1 /\ i + 1 \in 1 .. n - 1
      BY <1>3
    <3>2. t[i] = r[i + 1] /\ t[i + 1] = r[(i + 1) + 1]
      BY <1>7, <3>1
    <3> QED
      BY <1>4, <3>1, <3>2
  <2>2. n # 1 => t[1].id = last'[s] + 1 /\ ~t[1].gap
    <3> SUFFICES ASSUME n # 1 PROVE t[1].id = last'[s] + 1 /\ ~t[1].gap
      OBVIOUS
    <3>1. 1 \in 1 .. n - 1
      BY <1>3
    <3>2. t[1] = r[1 + 1] /\ ~t[1].gap
      BY <1>7, <3>1
    <3> QED
      BY <1>4, <1>5, <3>1, <3>2
  <2>3. last'[s] \in Nat
    BY <1>2, <1>3, <1>5 DEF r
  <2>4. t # <<>> => t[1].id > last'[s] /\ t[1].id = last'[s] + 1 /\ ~t[1].gap
    BY <1>3, <2>2, <2>3
  <2>5. Len(t) = n - 1 /\ \A i \in 1 .. n - 1 : t[i].id <= Top /\ ~t[i].gap
    BY <1>3, <1>7
  <2> QED
    BY <1>1, <1>6, <2>1, <2>4, <2>5 DEF ReplayInv
<1>10. QueueInv(s)' /\ StopInv(s)' /\ ListenInv(s)'
  BY <1>1, <1>6, <1>8 DEF BusInv, QueueInv, StopInv, ListenInv, Gone, Tip
<1>11. PhaseInv(s)'
  BY <1>1, <1>8 DEF BusInv, PhaseInv
<1> QED
  BY <1>3, <1>5, <1>9, <1>10, <1>11 DEF BusInv, r

\* A replay that is over leaves the client where the queue goes on.
LEMMA DoneKeeps ==
  ASSUME TypeOK, NEW s \in Subs, BusInv(s), ReplayDone(s), UNCHANGED <<outcome, endId>>
  PROVE  BusInv(s)'
<1>1. /\ phase[s] = "replay" /\ replay[s] = <<>>
      /\ phase'[s] = IF ending[s] THEN "over" ELSE "live"
      /\ UNCHANGED <<nextId, closed, evicted, listeners, queue, replay, ending, last>>
  BY DEF ReplayDone, TypeOK, run
<1>2. Top' = Top /\ ReplayEnd(s)' = ReplayEnd(s) /\ ReplayEnd(s) = last[s]
  BY <1>1 DEF Top, ReplayEnd
<1>3. ReplayInv(s)' /\ QueueInv(s)' /\ StopInv(s)' /\ ListenInv(s)'
  BY <1>1, <1>2 DEF BusInv, ReplayInv, QueueInv, StopInv, ListenInv, Gone, Tip
<1>4. PhaseInv(s)'
  <2>1. CASE ending[s]
    <3>1. s \notin listeners /\ outcome # "none" /\ last[s] = endId
      BY <1>1, <1>2, <2>1 DEF BusInv, PhaseInv
    <3> QED
      BY <1>1, <2>1, <3>1 DEF PhaseInv
  <2>2. CASE ~ending[s]
    BY <1>1, <2>2 DEF PhaseInv
  <2> QED
    BY <2>1, <2>2
<1> QED
  BY <1>3, <1>4 DEF BusInv

\* The front of a queue is what the client wants next, or the sentinel.
LEMMA ReadKeeps ==
  ASSUME TypeOK, ClientTypes, RunInv, NEW s \in Subs, BusInv(s), ReadQueue(s),
         UNCHANGED <<outcome, endId>>
  PROVE  /\ BusInv(s)'
         /\ Len(queue[s]) \in Nat \ {0} /\ Head(queue[s]) = queue[s][1]
         /\ queue[s][1] = Stop => phase'[s] = "over" /\ last'[s] = last[s]
         /\ queue[s][1] # Stop =>
              /\ last'[s] = queue[s][1] /\ last'[s] > last[s] /\ last'[s] <= Top
              /\ phase'[s] = "live"
              /\ last'[s] = last[s] + 1 \/ (Gone /\ last'[s] = last[s] + 2)
<1> DEFINE q == queue[s]
           n == Len(q)
           t == Tail(q)
<1>1. /\ phase[s] = "live" /\ q # <<>> /\ queue'[s] = t
      /\ UNCHANGED <<nextId, closed, evicted, replay, ending>>
      /\ Head(q) = Stop =>
           /\ phase'[s] = "over" /\ s \notin listeners' /\ last'[s] = last[s]
      /\ Head(q) # Stop =>
           /\ phase'[s] = phase[s] /\ listeners' = listeners /\ last'[s] = Head(q)
  BY DEF ReadQueue, TypeOK, run
<1>2. q \in Seq(Nat) /\ (\A i \in 1 .. n : q[i] \in Nat) /\ last[s] \in Nat
  BY StreamTypes
<1>3. /\ n \in Nat \ {0} /\ Head(q) = q[1] /\ Len(t) = n - 1
      /\ t = <<>> <=> n = 1
      /\ \A i \in 1 .. n - 1 : t[i] = q[i + 1]
  BY <1>1, <1>2, TailFacts
<1>4. replay[s] = <<>> /\ ReplayEnd(s) = last[s] /\ ReplayEnd(s)' = last'[s]
  BY <1>1 DEF BusInv, PhaseInv, ReplayEnd
<1>5. /\ \A i \in 1 .. n : q[i] <= Top /\ (q[i] = Stop => i = n /\ Gone)
      /\ \A i \in 1 .. n - 1 : q[i + 1] # Stop => q[i + 1] = q[i] + 1
      /\ q[1] # Stop => q[1] = last[s] + 1 \/ (Gone /\ q[1] = last[s] + 2)
  BY <1>1, <1>4 DEF BusInv, QueueInv
<1>6. QueueSize >= 2 =>
        \A i \in 1 .. n : q[i] = Stop => (IF i = 1 THEN last[s] ELSE q[i - 1]) = endId
  BY <1>4 DEF BusInv, StopInv
<1>7. s \in listeners /\ ~Gone => q[n] = nextId
  BY <1>1 DEF BusInv, ListenInv, Tip
<1>8. Top' = Top /\ Gone' = Gone
  BY <1>1 DEF Top, Gone
<1> HIDE DEF q, t
<1>9. 1 \in 1 .. n /\ n \in 1 .. n
  BY <1>3
<1>10. ASSUME NEW i \in 1 .. n - 1
       PROVE  /\ i \in 1 .. n /\ i + 1 \in 1 .. n /\ t[i] = q[i + 1]
              /\ t[i] <= Top /\ (t[i] = Stop => i = n - 1 /\ Gone)
  <2>1. i \in 1 .. n /\ i + 1 \in 1 .. n /\ t[i] = q[i + 1]
    BY <1>3
  <2>2. t[i] <= Top /\ (t[i] = Stop => i + 1 = n /\ Gone)
    BY <1>5, <2>1
  <2> QED
    BY <1>3, <2>1, <2>2
<1>11. ReplayInv(s)'
  <2>1. Len(<<>>) = 0 /\ 1 .. 0 = {} /\ 1 .. 0 - 1 = {}
    OBVIOUS
  <2> QED
    BY <1>1, <1>4, <2>1 DEF ReplayInv
<1>12. q[1] # Stop =>
         /\ last'[s] = q[1] /\ last'[s] > last[s] /\ last'[s] <= Top
         /\ phase'[s] = "live"
         /\ last'[s] = last[s] + 1 \/ (Gone /\ last'[s] = last[s] + 2)
  BY <1>1, <1>2, <1>3, <1>5, <1>9
<1>13. q[1] = Stop => n = 1 /\ Gone
  BY <1>5, <1>9
<1>14. QueueInv(s)'
  <2>1. ASSUME NEW i \in 1 .. (n - 1) - 1, t[i + 1] # Stop PROVE t[i + 1] = t[i] + 1
    <3>1. i \in 1 .. n - 1 /\ i + 1 \in 1 .. n - 1
      BY <1>3
    <3>2. t[i] = q[i + 1] /\ t[i + 1] = q[(i + 1) + 1]
      BY <1>10, <3>1
    <3> QED
      BY <1>5, <2>1, <3>1, <3>2
  <2>2. t # <<>> /\ t[1] # Stop => t[1] = last'[s] + 1
    <3> SUFFICES ASSUME t # <<>>, t[1] # Stop PROVE t[1] = last'[s] + 1
      OBVIOUS
    <3>1. 1 \in 1 .. n - 1
      BY <1>3
    <3>2. t[1] = q[1 + 1] /\ q[1 + 1] # Stop
      BY <1>10, <3>1
    <3>3. q[1] # Stop
      BY <1>3, <1>13
    <3> QED
      BY <1>5, <1>12, <3>1, <3>2, <3>3
  <2> QED
    BY <1>1, <1>3, <1>4, <1>8, <1>10, <2>1, <2>2 DEF QueueInv
<1>15. StopInv(s)'
  <2> SUFFICES ASSUME QueueSize >= 2, NEW i \in 1 .. n - 1, t[i] = Stop
               PROVE  (IF i = 1 THEN last'[s] ELSE t[i - 1]) = endId
    BY <1>1, <1>3, <1>4 DEF StopInv
  <2>1. i + 1 \in 1 .. n /\ q[i + 1] = Stop /\ i + 1 # 1 /\ (i + 1) - 1 = i
    BY <1>3, <1>10
  <2>2. q[i] = endId
    BY <1>6, <2>1
  <2>3. CASE i = 1
    <3>1. q[1] # Stop
      BY <1>3, <1>13, <2>1
    <3> QED
      BY <1>12, <2>2, <2>3, <3>1
  <2>4. CASE i # 1
    <3>1. i - 1 \in 1 .. n - 1 /\ (i - 1) + 1 = i
      BY <1>3, <2>4
    <3> QED
      BY <1>10, <2>2, <2>4, <3>1
  <2> QED
    BY <2>3, <2>4
<1>16. ListenInv(s)'
  <2> SUFFICES ASSUME s \in listeners', ~Gone PROVE Tip(s)' = nextId
    BY <1>1, <1>8 DEF ListenInv
  <2>1. q[1] # Stop /\ listeners' = listeners
    BY <1>1, <1>13
  <2>2. q[n] = nextId
    BY <1>7, <2>1
  <2>3. Tip(s)' = IF t = <<>> THEN last'[s] ELSE t[n - 1]
    BY <1>1, <1>3, <1>4 DEF Tip
  <2>4. n # 1 => n - 1 \in 1 .. n - 1 /\ (n - 1) + 1 = n
    BY <1>3
  <2>5. n # 1 => t[n - 1] = q[n]
    BY <1>10, <2>4
  <2> QED
    BY <1>3, <1>12, <2>1, <2>2, <2>3, <2>5
<1>17. PhaseInv(s)'
  <2>1. CASE q[1] = Stop
    <3>1. QueueSize >= 2 => last[s] = endId
      BY <1>6, <1>9, <2>1
    <3>2. outcome # "none"
      BY <1>13, <2>1 DEF RunInv
    <3> QED
      BY <1>1, <1>3, <2>1, <3>1, <3>2 DEF PhaseInv
  <2>2. CASE q[1] # Stop
    BY <1>1, <1>4, <1>12, <2>2 DEF PhaseInv
  <2> QED
    BY <2>1, <2>2
<1>18. Len(queue[s]) \in Nat \ {0} /\ Head(queue[s]) = queue[s][1]
  BY <1>3 DEF q
<1>19. q[1] = Stop => phase'[s] = "over" /\ last'[s] = last[s]
  BY <1>1, <1>3
<1> QED
  BY <1>11, <1>12, <1>14, <1>15, <1>16, <1>17, <1>18, <1>19 DEF BusInv, q

-----------------------------------------------------------------------------
(* The client *)

\* A step of one client leaves the stream of another, and what that one has been told,
\* as they are.
LEMMA OthersKeep ==
  ASSUME TypeOK, ClientTypes, NEW s \in Subs, ClientMoves(s), NEW t \in Subs \ {s}, StreamInv(t)
  PROVE  StreamInv(t)'
<1>1. /\ replay'[t] = replay[t] /\ queue'[t] = queue[t] /\ phase'[t] = phase[t]
      /\ ending'[t] = ending[t] /\ last'[t] = last[t]
      /\ t \in listeners' <=> t \in listeners
  <2>1. CASE Accepted(s) \/ NotFound(s) \/ Retry(s) \/ StreamDone(s)
    BY <2>1 DEF Accepted, Connect, NotFound, Retry, StreamDone, vars, TypeOK
  <2>2. CASE Serve(s)
    BY <2>2 DEF Serve, Subscribe, ReplayDone, TypeOK
  <2>3. CASE Receive(s)
    BY <2>3 DEF Receive, YieldReplay, ReadQueue, TypeOK
  <2>4. CASE Show(s) \/ Hide(s) \/ Breaks(s)
    BY <2>4 DEF Show, Hide, Breaks, Disconnected, TypeOK
  <2>5. CASE CancelRun(s) \/ HandleCancel(s) \/ CancelAnswered(s) \/ CancelLost(s)
    BY <2>5 DEF CancelRun, HandleCancel, CancelAnswered, CancelLost, vars
  <2> QED
    BY <2>1, <2>2, <2>3, <2>4, <2>5 DEF ClientMoves
<1>2. /\ conn'[t] = conn[t] /\ shown'[t] = shown[t] /\ summary'[t] = summary[t]
      /\ cancel'[t] = cancel[t] /\ (token => token')
  <2> USE DEF server, store
  <2>1. CASE Accepted(s) \/ NotFound(s) \/ Retry(s) \/ StreamDone(s) \/ Serve(s)
    BY <2>1 DEF Accepted, NotFound, Failed, Retry, StreamDone, Serve, ClientTypes
  <2>2. CASE Receive(s)
    BY <2>2 DEF Receive, OnEvent, ClientTypes
  <2>3. CASE Show(s) \/ Hide(s) \/ Breaks(s)
    BY <2>3 DEF Show, Hide, Breaks, Failed, ClientTypes
  <2>4. CASE CancelRun(s) \/ HandleCancel(s) \/ CancelAnswered(s) \/ CancelLost(s)
    BY <2>4 DEF CancelRun, HandleCancel, CancelAnswered, CancelLost, ClientTypes
  <2> QED
    BY <2>1, <2>2, <2>3, <2>4 DEF ClientMoves
<1>3. UNCHANGED <<nextId, closed, evicted, outcome, endId>>
  BY ClientsMoveNoRun
<1>4. BusInv(t)'
  BY <1>1, <1>3, Untouched DEF StreamInv, BusInv
<1>5. ToldInv(t)'
  BY <1>1, <1>2, <1>3 DEF StreamInv, ToldInv, Top
<1> QED
  BY <1>4, <1>5 DEF StreamInv, BusInv

\* The run goes on: no client can have been told of an event that is emitted only now.
LEMMA RunStepKeeps ==
  ASSUME TypeOK, ClientTypes, RunInv, BufferInv, RunMoves, NEW s \in Subs, StreamInv(s)
  PROVE  StreamInv(s)'
<1>1. BusInv(s) /\ ToldInv(s)
  BY DEF StreamInv, BusInv
<1>2. last[s] \in Nat /\ Top \in Nat /\ nextId \in Nat
  BY StreamTypes, TopType
<1>3. CASE RunEmits \/ RunEnds
  <2>1. BusInv(s)'
    BY <1>1, <1>3, EmitKeeps
  <2>2. /\ outcome = "none" /\ nextId' = nextId + 1
        /\ UNCHANGED <<last, phase, token, conn, shown, summary, cancel>>
        /\ outcome' # "none" => endId' = nextId'
        /\ Top' = nextId'
    BY <1>3 DEF RunEmits, RunEnds, Emit, Top, Outcomes, server, store
  <2>3. last'[s] < Top' /\ (outcome' # "none" => last'[s] # endId')
    BY <1>1, <1>2, <2>2 DEF ToldInv, Top
  <2>4. ToldInv(s)'
    BY <1>1, <1>2, <2>2, <2>3 DEF ToldInv
  <2> QED
    BY <2>1, <2>4 DEF StreamInv, BusInv
<1>4. CASE RunCloses /\ (Close \/ Clear)
  <2>1. BusInv(s)'
    BY <1>1, <1>4, CloseKeeps, ClearKeeps
  <2>2. /\ outcome # "none"
        /\ UNCHANGED <<last, phase, outcome, endId, token, conn, shown, summary, cancel>>
    BY <1>4 DEF RunCloses, Close, Clear, server, store
  <2>3. ToldInv(s)'
    BY <1>1, <2>2 DEF ToldInv, Top
  <2> QED
    BY <2>1, <2>3 DEF StreamInv, BusInv
<1> QED
  BY <1>3, <1>4 DEF RunMoves

\* The frame a client receives tells it of the run's end when it bears the id of that:
\* a run.gap never does, for what follows it has been emitted too.
LEMMA ReceiveTells ==
  ASSUME TypeOK, ClientTypes, RunInv, BufferInv, NEW s \in Subs, StreamInv(s), Receive(s)
  PROVE  StreamInv(s)'
<1>1. BusInv(s) /\ ToldInv(s)
  BY DEF StreamInv, BusInv
<1>2. /\ conn[s] = "reading" /\ UNCHANGED <<outcome, endId, token, conn, cancel>>
  BY DEF Receive, server
<1>3. ASSUME NEW terminal \in BOOLEAN, OnEvent(s, terminal)
      PROVE  terminal => shown'[s] = outcome /\ summary'[s] = outcome
  BY <1>3 DEF OnEvent, ClientTypes
<1>4. CASE YieldReplay(s) /\ OnEvent(s, ~Head(replay[s]).gap /\ Head(replay[s]).id = endId)
  <2>1. /\ BusInv(s)' /\ Len(replay[s]) \in Nat \ {0}
        /\ last'[s] = replay[s][1].id /\ last'[s] <= Top
    BY <1>1, <1>2, <1>4, YieldKeeps
  <2>2. Top' = Top
    BY <1>2, <1>4 DEF Top, YieldReplay, run
  <2>3. replay[s] # <<>> /\ Head(replay[s]) = replay[s][1] /\ replay[s][1].gap \in BOOLEAN
    <3>1. replay[s] # <<>> /\ replay[s] \in Seq(Frames)
      BY <1>4, StreamTypes DEF YieldReplay
    <3> QED
      BY <2>1, <3>1, TailFacts, StreamTypes
  <2>4. ASSUME outcome # "none", last'[s] = endId
        PROVE  ~replay[s][1].gap
    <3> SUFFICES ASSUME replay[s][1].gap PROVE FALSE
      BY <2>3
    <3>1. Len(replay[s]) # 1
      BY <1>1, <2>3 DEF BusInv, ReplayInv
    <3>2. 1 \in 1 .. Len(replay[s]) - 1
      <4>1. \A n \in Nat \ {0} : n # 1 => 1 \in 1 .. n - 1
        OBVIOUS
      <4> QED
        BY <2>1, <3>1, <4>1
    <3>5. 1 + 1 \in 1 .. Len(replay[s])
      <4>1. \A n \in Nat \ {0} : n # 1 => 1 + 1 \in 1 .. n
        OBVIOUS
      <4> QED
        BY <2>1, <3>1, <4>1
    <3>3. replay[s][1 + 1].id = replay[s][1].id + 1 /\ replay[s][1 + 1].id <= Top
      BY <1>1, <3>2, <3>5 DEF BusInv, ReplayInv
    <3>4. Top = endId /\ endId \in Nat
      BY <2>4, TopType DEF Top
    <3>6. endId + 1 <= endId
      BY <2>1, <2>4, <3>3, <3>4
    <3> QED
      BY <3>4, <3>6
  <2>5. outcome # "none" /\ last'[s] = endId => shown'[s] = outcome /\ summary'[s] = outcome
    BY <1>3, <1>4, <2>1, <2>3, <2>4
  <2>6. ToldInv(s)'
    BY <1>1, <1>2, <2>1, <2>2, <2>5 DEF ToldInv
  <2> QED
    BY <2>1, <2>6 DEF StreamInv, BusInv
<1>5. CASE /\ ReadQueue(s)
           /\ IF Head(queue[s]) = Stop
              THEN UNCHANGED store
              ELSE OnEvent(s, Head(queue[s]) = endId)
  <2>1. /\ BusInv(s)' /\ Head(queue[s]) = queue[s][1]
        /\ queue[s][1] = Stop => last'[s] = last[s]
        /\ queue[s][1] # Stop => last'[s] = queue[s][1] /\ last'[s] <= Top
    BY <1>1, <1>2, <1>5, ReadKeeps
  <2>2. Top' = Top
    BY <1>2, <1>5 DEF Top, ReadQueue, run
  <2>3. CASE queue[s][1] = Stop
    BY <1>1, <1>2, <1>5, <2>1, <2>2, <2>3 DEF StreamInv, BusInv, ToldInv, store
  <2>4. CASE queue[s][1] # Stop
    <3>1. last'[s] = endId => shown'[s] = outcome /\ summary'[s] = outcome
      BY <1>3, <1>5, <2>1, <2>4
    <3>2. ToldInv(s)'
      BY <1>1, <1>2, <2>1, <2>2, <2>4, <3>1 DEF ToldInv
    <3> QED
      BY <2>1, <3>2 DEF StreamInv, BusInv
  <2> QED
    BY <2>3, <2>4
<1> QED
  BY <1>4, <1>5 DEF Receive

\* Every step of a client keeps its own stream in order.
LEMMA OwnStepKeeps ==
  ASSUME TypeOK, ClientTypes, RunInv, BufferInv, NEW s \in Subs, StreamInv(s), ClientMoves(s)
  PROVE  StreamInv(s)'
<1>1. BusInv(s) /\ ToldInv(s)
  BY DEF StreamInv, BusInv
<1>2. UNCHANGED <<nextId, closed, evicted, outcome, endId>> /\ Top' = Top
  BY ClientsMoveNoRun DEF Top
<1> SUFFICES BusInv(s)' /\ ToldInv(s)'
  BY DEF StreamInv, BusInv
<1>3. CASE Accepted(s)
  <2>1. BusInv(s)'
    BY <1>1, <1>3, ConnectKeeps DEF Accepted
  <2>2. ToldInv(s)'
    BY <1>1, <1>2, <1>3 DEF Accepted, Connect, ToldInv, ClientTypes, server, store
  <2> QED
    BY <2>1, <2>2
<1>4. CASE NotFound(s) \/ Retry(s) \/ StreamDone(s)
  <2>1. UNCHANGED vars /\ UNCHANGED <<token, shown, summary, cancel>>
    BY <1>4 DEF NotFound, Retry, StreamDone, server, store
  <2>2. BusInv(s)'
    BY <1>1, <1>2, <2>1, Untouched DEF vars
  <2>3. conn'[s] = "closed" => phase[s] = "over"
    BY <1>4 DEF NotFound, Failed, Retry, StreamDone, ClientTypes
  <2> QED
    BY <1>1, <1>2, <2>1, <2>2, <2>3 DEF ToldInv, vars
<1>5. CASE Serve(s)
  <2>1. BusInv(s)'
    BY <1>1, <1>2, <1>5, SubscribeKeeps, DoneKeeps DEF Serve, ToldInv
  <2>2. UNCHANGED <<last, token, conn, shown, summary, cancel>> /\ phase[s] # "over"
    BY <1>5 DEF Serve, Subscribe, ReplayDone, server, store
  <2> QED
    BY <1>1, <1>2, <2>1, <2>2 DEF ToldInv
<1>6. CASE Receive(s)
  BY <1>6, ReceiveTells DEF StreamInv, BusInv
<1>7. CASE Show(s) \/ Hide(s) \/ Breaks(s)
  <2>1. BusInv(s)'
    BY <1>7, DisconnectKeeps DEF Show, Hide, Breaks
  <2>2. conn'[s] # "closed" /\ UNCHANGED <<token, summary, cancel>>
    BY <1>7 DEF Show, Hide, Breaks, Failed, ClientTypes, server, store
  <2>3. CASE Show(s)
    <3>1. last'[s] = Never
      BY <2>3 DEF Show, TypeOK
    <3>2. Top \in Nat /\ endId \in Nat
      BY TopType
    <3> QED
      BY <1>1, <1>2, <2>1, <2>2, <3>1, <3>2 DEF ToldInv, RunInv, Never
  <2>4. CASE Hide(s) \/ Breaks(s)
    <3>1. UNCHANGED <<last, shown>>
      BY <2>4 DEF Hide, Breaks, store
    <3> QED
      BY <1>1, <1>2, <2>1, <2>2, <3>1 DEF ToldInv
  <2> QED
    BY <1>7, <2>3, <2>4
<1>8. CASE CancelRun(s) \/ HandleCancel(s) \/ CancelAnswered(s) \/ CancelLost(s)
  <2>1. UNCHANGED vars /\ UNCHANGED <<conn, shown>> /\ (token => token')
    BY <1>8 DEF CancelRun, HandleCancel, CancelAnswered, CancelLost, server, store
  <2>2. BusInv(s)'
    BY <1>1, <1>2, <2>1, Untouched DEF vars
  <2>3. summary'[s] = summary[s] \/ (summary'[s] = "cancelled" /\ token)
    BY <1>1, <1>8 DEF CancelRun, HandleCancel, CancelAnswered, CancelLost, ClientTypes, ToldInv, store
  <2>4. cancel'[s] = "accepted" => token'
    BY <1>1, <1>8 DEF CancelRun, HandleCancel, CancelAnswered, CancelLost, ClientTypes, ToldInv
  <2> QED
    BY <1>1, <1>2, <2>1, <2>2, <2>3, <2>4 DEF ToldInv, vars
<1> QED
  BY <1>3, <1>4, <1>5, <1>6, <1>7, <1>8 DEF ClientMoves

-----------------------------------------------------------------------------
(* The theorems *)

\* The store before a monitor is open.
LEMMA InitInv == ClientInit => Inv
<1> SUFFICES ASSUME ClientInit PROVE Inv
  OBVIOUS
<1>1. /\ <<>> \in Seq(1 .. MaxEvents) /\ <<>> \in Seq(Nat) /\ <<>> \in Seq(Frames)
      /\ Len(<<>>) = 0 /\ 1 .. 0 = {} /\ 1 .. 0 - 1 = {}
  BY EmptySeq
<1>0. 0 \in 0 .. MaxEvents /\ 0 <= BufferSize /\ 0 <= QueueSize
  BY EventBusAssumption
<1>2. TypeOK
  <2>1. /\ nextId = 0 /\ buffer = <<>> /\ overflowFrom = 0
        /\ closed = FALSE /\ evicted = FALSE /\ listeners = {}
        /\ queue = [s \in Subs |-> <<>>] /\ phase = [s \in Subs |-> "out"]
        /\ replay = [s \in Subs |-> <<>>] /\ ending = [s \in Subs |-> FALSE]
        /\ last = [s \in Subs |-> 0]
    BY DEF ClientInit, Init, Never
  <2>2. /\ queue \in [Subs -> Seq(Nat)] /\ replay \in [Subs -> Seq(Frames)]
        /\ \A s \in Subs : Len(queue[s]) <= QueueSize
    BY <1>0, <1>1, <2>1
  <2>3. /\ phase \in [Subs -> {"out", "connecting", "replay", "live", "over"}]
        /\ ending \in [Subs -> BOOLEAN] /\ last \in [Subs -> 0 .. MaxEvents]
    BY <1>0, <2>1
  <2> QED
    BY <1>0, <1>1, <2>1, <2>2, <2>3 DEF TypeOK
<1>3. ClientTypes
  <2>1. endId \in 0 .. MaxEvents
    BY <1>0 DEF ClientInit, Never
  <2> QED
    BY <2>1 DEF ClientInit, ClientTypes
<1>4. RunInv
  BY DEF ClientInit, Init, RunInv, Gone
<1>5. BufferInv
  BY <1>1 DEF ClientInit, Init, BufferInv
<1>6. ASSUME NEW s \in Subs PROVE StreamInv(s)
  <2>1. BusInv(s)
    BY EmptyStream DEF ClientInit, Init
  <2>2. ToldInv(s)
    BY DEF ClientInit, Init, ToldInv, Top, Never
  <2> QED
    BY <2>1, <2>2 DEF StreamInv, BusInv
<1> QED
  BY <1>2, <1>3, <1>4, <1>5, <1>6 DEF Inv, Streams

\* Every step, of the run or of a client, keeps the invariant of every stream.
LEMMA NextInv == Inv /\ [ClientNext]_clientVars => Inv'
<1> SUFFICES ASSUME Inv, [ClientNext]_clientVars PROVE Inv'
  OBVIOUS
<1>1. TypeOK /\ ClientTypes /\ RunInv /\ BufferInv /\ Streams
  BY DEF Inv
<1>2. TypeOK' /\ ClientTypes' /\ RunInv' /\ BufferInv'
  BY <1>1, TypesKeep, RunKeeps
<1>3. ASSUME NEW s \in Subs PROVE StreamInv(s)'
  <2>1. StreamInv(s)
    BY <1>1 DEF Streams
  <2>2. CASE UNCHANGED clientVars
    <3>1. BusInv(s)'
      BY <2>1, <2>2, Untouched DEF clientVars, vars, StreamInv, BusInv
    <3>2. ToldInv(s)'
      BY <2>1, <2>2 DEF clientVars, vars, StreamInv, ToldInv, Top
    <3> QED
      BY <3>1, <3>2 DEF StreamInv, BusInv
  <2>3. CASE RunMoves
    BY <1>1, <2>1, <2>3, RunStepKeeps
  <2>4. ASSUME NEW t \in Subs, ClientMoves(t) PROVE StreamInv(s)'
    <3>1. CASE t = s
      BY <1>1, <2>1, <2>4, <3>1, OwnStepKeeps
    <3>2. CASE t # s
      BY <1>1, <2>1, <2>4, <3>2, OthersKeep
    <3> QED
      BY <3>1, <3>2
  <2> QED
    BY <2>2, <2>3, <2>4, StepSplits
<1> QED
  BY <1>2, <1>3 DEF Inv, Streams

\* The invariant holds in every state.
LEMMA Invariance == ClientSpec => []Inv
BY InitInv, NextInv, PTL DEF ClientSpec

\* What is delivered to a client, and what it is told of, are of their types.
THEOREM TypeCorrect == ClientSpec => []TypeOK
<1>1. Inv => TypeOK
  BY DEF Inv
<1> QED
  BY <1>1, Invariance, PTL

\* A stream the client holds to be complete has told it how the run ended.
THEOREM ClosedAreTold == ClientSpec => []ClosedIsTold
<1>1. Inv => ClosedIsTold
  BY DEF Inv, Streams, StreamInv, ToldInv, PhaseInv, ClosedIsTold
<1> QED
  BY <1>1, Invariance, PTL

\* The run list of such a client says how the run ended, or that it was cancelled when
\* the run's token was set.
THEOREM ListsTell == ClientSpec => []ListTellsOutcome
<1>1. Inv => ListTellsOutcome
  BY DEF Inv, Streams, StreamInv, ToldInv, PhaseInv, ListTellsOutcome
<1> QED
  BY <1>1, Invariance, PTL

\* What a frame does to the Last-Event-ID of the client that receives it.
LEMMA Received ==
  ASSUME Inv, NEW s \in Subs, UNCHANGED <<outcome, endId>>
  PROVE  /\ YieldReplay(s) =>
              /\ last'[s] > last[s]
              /\ last[s] # Never => last'[s] = last[s] + 1 \/ Head(replay[s]).gap
         /\ ReadQueue(s) =>
              \/ /\ last'[s] > last[s]
                 /\ last'[s] = last[s] + 1 \/ (Gone /\ last'[s] = last[s] + 2)
              \/ /\ last'[s] = last[s]
                 /\ phase'[s] # phase[s]
<1>1. TypeOK /\ ClientTypes /\ RunInv /\ BusInv(s)
  BY DEF Inv, Streams, StreamInv, BusInv
<1>2. ASSUME YieldReplay(s)
      PROVE  /\ last'[s] > last[s]
             /\ last[s] # Never => last'[s] = last[s] + 1 \/ Head(replay[s]).gap
  <2>1. last'[s] = replay[s][1].id /\ last'[s] > last[s]
    BY <1>1, <1>2, YieldKeeps
  <2>2. replay[s] # <<>> /\ replay[s] \in Seq(Frames)
    BY <1>1, <1>2, StreamTypes DEF YieldReplay
  <2>3. Head(replay[s]) = replay[s][1]
    BY <2>2, TailFacts
  <2>4. last[s] # Never /\ ~replay[s][1].gap => replay[s][1].id = last[s] + 1
    BY <1>1, <2>2 DEF BusInv, ReplayInv
  <2> QED
    BY <2>1, <2>3, <2>4
<1>3. ASSUME ReadQueue(s)
      PROVE  \/ /\ last'[s] > last[s]
                /\ last'[s] = last[s] + 1 \/ (Gone /\ last'[s] = last[s] + 2)
             \/ last'[s] = last[s] /\ phase'[s] # phase[s]
  <2>1. /\ queue[s][1] = Stop => phase'[s] = "over" /\ last'[s] = last[s]
        /\ queue[s][1] # Stop =>
             /\ last'[s] > last[s]
             /\ last'[s] = last[s] + 1 \/ (Gone /\ last'[s] = last[s] + 2)
    BY <1>1, <1>3, ReadKeeps
  <2>2. phase[s] = "live"
    BY <1>3 DEF ReadQueue
  <2> QED
    BY <2>1, <2>2
<1> QED
  BY <1>2, <1>3

\* A client's Last-Event-ID is moved by a frame it receives, and by the opening of a
\* monitor.
LEMMA LastMoves ==
  ASSUME TypeOK, [ClientNext]_clientVars, NEW s \in Subs, last'[s] # last[s]
  PROVE  last'[s] = Never \/ (UNCHANGED <<outcome, endId>> /\ (YieldReplay(s) \/ ReadQueue(s)))
<1>1. ~UNCHANGED last
  OBVIOUS
<1>2. ~RunMoves
  BY <1>1 DEF RunMoves, RunEmits, RunEnds, RunCloses, Emit, Close, Clear
<1>3. PICK t \in Subs : ClientMoves(t)
  BY <1>1, <1>2, StepSplits DEF clientVars, vars
<1>4. CASE Accepted(t) \/ NotFound(t) \/ Retry(t) \/ Serve(t) \/ StreamDone(t)
  BY <1>1, <1>4 DEF Accepted, Connect, NotFound, Retry, Serve, Subscribe, ReplayDone, StreamDone, vars
<1>5. CASE Receive(t)
  <2>1. YieldReplay(t) \/ ReadQueue(t)
    BY <1>5 DEF Receive
  <2>2. t = s
    BY <2>1 DEF YieldReplay, ReadQueue, TypeOK
  <2> QED
    BY <1>5, <2>1, <2>2 DEF Receive, server
<1>6. CASE Show(t)
  BY <1>6 DEF Show, TypeOK
<1>7. CASE Hide(t) \/ Breaks(t) \/ CancelRun(t) \/ HandleCancel(t) \/ CancelAnswered(t) \/ CancelLost(t)
  BY <1>1, <1>7 DEF Hide, Breaks, CancelRun, HandleCancel, CancelAnswered, CancelLost, vars
<1> QED
  BY <1>3, <1>4, <1>5, <1>6, <1>7 DEF ClientMoves

\* The run does not end while a frame is received.
LEMMA FramesEndNothing ==
  ASSUME TypeOK, ClientTypes, [ClientNext]_clientVars, NEW s \in Subs,
         YieldReplay(s) \/ ReadQueue(s)
  PROVE  UNCHANGED <<outcome, endId>>
<1>1. nextId' = nextId /\ nextId \in Nat
  BY TopType DEF YieldReplay, ReadQueue, run
<1>2. ~RunEnds
  BY <1>1 DEF RunEnds, Emit
<1>3. CASE RunMoves
  BY <1>2, <1>3 DEF RunMoves, RunEmits, RunCloses, server
<1> QED
  BY <1>3, StepSplits, ClientsMoveNoRun DEF clientVars

\* A client receives events in order and none twice, however often it comes back.
THEOREM InOrder == ClientSpec => InOrderNoneTwice
<1> DEFINE A == \A s \in Subs : (YieldReplay(s) \/ ReadQueue(s)) /\ phase'[s] = phase[s] =>
                  last'[s] > last[s]
<1>1. Inv /\ [ClientNext]_clientVars => [A]_vars
  <2> SUFFICES ASSUME Inv, [ClientNext]_clientVars, NEW s \in Subs,
                      YieldReplay(s) \/ ReadQueue(s), phase'[s] = phase[s]
               PROVE  last'[s] > last[s]
    OBVIOUS
  <2>1. UNCHANGED <<outcome, endId>>
    BY FramesEndNothing DEF Inv
  <2> QED
    BY <2>1, Received
<1> HIDE DEF A
<1>2. ClientSpec => [][A]_vars
  BY <1>1, Invariance, PTL DEF ClientSpec
<1> QED
  BY <1>2 DEF InOrderNoneTwice, A

\* No event a client misses goes unannounced: the next frame bears the next id, or is a
\* run.gap, or the run was closed and it is one further.
THEOREM NothingSkipped == ClientSpec => NoSilentSkip
<1> DEFINE A == \A s \in Subs :
                  last'[s] \notin {last[s], Never} /\ last[s] # Never =>
                    \/ last'[s] = last[s] + 1
                    \/ replay[s] # <<>> /\ Head(replay[s]).gap
                    \/ (closed \/ evicted) /\ last'[s] = last[s] + 2
<1>1. Inv /\ [ClientNext]_clientVars => [A]_vars
  <2> SUFFICES ASSUME Inv, [ClientNext]_clientVars, NEW s \in Subs,
                      last'[s] # last[s], last'[s] # Never, last[s] # Never
               PROVE  \/ last'[s] = last[s] + 1
                      \/ replay[s] # <<>> /\ Head(replay[s]).gap
                      \/ (closed \/ evicted) /\ last'[s] = last[s] + 2
    OBVIOUS
  <2>1. UNCHANGED <<outcome, endId>> /\ (YieldReplay(s) \/ ReadQueue(s))
    BY LastMoves DEF Inv
  <2> QED
    BY <2>1, Received DEF YieldReplay, Gone
<1> HIDE DEF A
<1>2. ClientSpec => [][A]_vars
  BY <1>1, Invariance, PTL DEF ClientSpec
<1> QED
  BY <1>2 DEF NoSilentSkip, A

-----------------------------------------------------------------------------
(* The workflow editor. *)

\* What is left of a sequence has, at each of its places, something from a place that was
\* to be kept, and everything from those places: the places have ranks 1, 2, ...
LEMMA OnlyKeeps ==
  ASSUME NEW s, NEW n \in Nat, NEW places \in SUBSET (1 .. n)
  PROVE  /\ Cardinality(places) \in Nat
         /\ DOMAIN Only(s, places) = 1 .. Cardinality(places)
         /\ \A k \in DOMAIN Only(s, places) : \E i \in places : Only(s, places)[k] = s[i]
         /\ \A i \in places : \E k \in DOMAIN Only(s, places) : Only(s, places)[k] = s[i]
<1> DEFINE UpTo(i) == {j \in places : j <= i}
           rank == [i \in places |-> Cardinality(UpTo(i))]
           m == Cardinality(places)
<1>1. IsFiniteSet(places) /\ m \in Nat
  <2>1. IsFiniteSet(1 .. n)
    BY FS_Interval
  <2>2. IsFiniteSet(places)
    BY <2>1, FS_Subset
  <2> QED
    BY <2>2, FS_CardinalityType
<1>2. ASSUME NEW i \in places
      PROVE  IsFiniteSet(UpTo(i)) /\ Cardinality(UpTo(i)) \in 1 .. m
  <2>1. IsFiniteSet(UpTo(i)) /\ Cardinality(UpTo(i)) \in Nat /\ Cardinality(UpTo(i)) <= m
    BY <1>1, FS_Subset, FS_CardinalityType
  <2>2. Cardinality(UpTo(i)) # 0
    BY <2>1, FS_EmptySet
  <2> HIDE DEF UpTo
  <2> QED
    BY <1>1, <2>1, <2>2
<1>3. ASSUME NEW i \in places, NEW j \in places, i < j
      PROVE  Cardinality(UpTo(i)) # Cardinality(UpTo(j))
  <2>1. UpTo(i) \in SUBSET UpTo(j) /\ j \in UpTo(j) /\ j \notin UpTo(i)
    <3>1. i \in Int /\ j \in Int /\ j <= j /\ ~(j <= i)
      BY <1>3
    <3>2. \A x \in places : x <= i => x <= j
      BY <1>3
    <3> QED
      BY <3>1, <3>2
  <2> HIDE DEF UpTo
  <2> QED
    BY <1>2, <2>1, FS_Subset
<1>4. rank \in Injection(places, 1 .. m)
  <2>1. \A i, j \in places : rank[i] = rank[j] => i = j
    <3> HIDE DEF UpTo
    <3> QED
      BY <1>3
  <2>2. rank \in [places -> 1 .. m]
    BY <1>2
  <2> HIDE DEF rank
  <2> QED
    BY <2>1, <2>2 DEF Injection, IsInjective
<1>5. rank \in Surjection(places, 1 .. m)
  <2>1. IsFiniteSet(1 .. m) /\ Cardinality(1 .. m) = m
    BY <1>1, FS_Interval
  <2> HIDE DEF rank
  <2> QED
    BY <1>4, <2>1, FS_Injection
<1> DEFINE at(k) == CHOOSE i \in places : Cardinality(UpTo(i)) = k
<1>6. \A k \in 1 .. m : at(k) \in places /\ Cardinality(UpTo(at(k))) = k
  <2>1. \A k \in 1 .. m : \E i \in places : Cardinality(UpTo(i)) = k
    <3>1. \A k \in 1 .. m : \E i \in places : rank[i] = k
      BY <1>5 DEF Surjection
    <3> HIDE DEF UpTo
    <3> QED
      BY <3>1
  <2> HIDE DEF UpTo
  <2> QED
    BY <2>1
<1>7. Only(s, places) = [k \in 1 .. m |-> s[at(k)]]
  BY DEF Only
<1>8. \A i \in places : Cardinality(UpTo(i)) \in 1 .. m /\ at(Cardinality(UpTo(i))) = i
  <2>1. \A i, j \in places : Cardinality(UpTo(i)) = Cardinality(UpTo(j)) => i = j
    <3> HIDE DEF UpTo
    <3> QED
      BY <1>3
  <2> HIDE DEF UpTo, at
  <2> QED
    BY <1>2, <1>6, <2>1
<1> HIDE DEF UpTo, at
<1> QED
  BY <1>1, <1>6, <1>7, <1>8

Nodes == [id : Nat, data : Data, entry : BOOLEAN]
Edges == [from : Nat, to : Nat, number : Nat]

EditorTypes ==
  /\ nodes \in Seq(Nodes) /\ edges \in Seq(Edges) /\ nodeCounter \in Nat
  /\ yamlText \in Documents \cup {None} /\ saving \in Documents \cup {None}
  /\ \A v \in validations : v.nodes \in Seq(Nodes) /\ v.edges \in Seq(Edges)
  /\ stored \in Seq(Documents)
  /\ workflowId # None => workflowId \in 1 .. Len(stored)

\* What the YAML view shows has no edge without its ends either.
EndsInv ==
  EdgesHaveEnds /\ (yamlText # None => Joins(yamlText.edges, IdsOf(yamlText.nodes)))

\* What is being saved is what is drawn, if nothing happened since.
SavingInv == saving # None /\ undisturbed => Drawn = saving

EditorInv == EditorTypes /\ SavingInv /\ CleanIsSaved

\* The texts a user types have no edge without its ends.
TextsAreJoined == \A text \in Texts : Joins(text.edges, IdsOf(text.nodes))

-----------------------------------------------------------------------------

LEMMA SequenceOf ==
  ASSUME NEW S, NEW m \in Nat, NEW t \in [1 .. m -> S]
  PROVE  t \in Seq(S) /\ Len(t) = m /\ DOMAIN t = 1 .. m
BY SeqDef

LEMMA SequenceHas ==
  ASSUME NEW S, NEW s \in Seq(S)
  PROVE  /\ Len(s) \in Nat /\ DOMAIN s = 1 .. Len(s)
         /\ \A i \in DOMAIN s : s[i] \in S
OBVIOUS

\* What is left of a typed sequence is of that type.
LEMMA OnlyTyped ==
  ASSUME NEW S, NEW s \in Seq(S), NEW places \in SUBSET DOMAIN s
  PROVE  /\ Only(s, places) \in Seq(S)
         /\ Range(Only(s, places)) = {s[i] : i \in places}
<1>1. /\ Len(s) \in Nat /\ DOMAIN s = 1 .. Len(s) /\ \A i \in DOMAIN s : s[i] \in S
      /\ places \in SUBSET (1 .. Len(s))
  BY SequenceHas
<1> DEFINE t == Only(s, places)
<1>2. /\ Cardinality(places) \in Nat
      /\ DOMAIN t = 1 .. Cardinality(places)
      /\ \A k \in DOMAIN t : \E i \in places : t[k] = s[i]
      /\ \A i \in places : \E k \in DOMAIN t : t[k] = s[i]
  BY <1>1, OnlyKeeps
<1>3. t = [k \in 1 .. Cardinality(places) |-> t[k]]
  BY <1>2 DEF Only
<1> HIDE DEF t
<1>4. \A k \in 1 .. Cardinality(places) : t[k] \in S
  BY <1>1, <1>2
<1>5. t \in Seq(S)
  <2>1. t \in [1 .. Cardinality(places) -> S]
    BY <1>3, <1>4
  <2> QED
    BY <1>2, <2>1, SequenceOf
<1>6. Range(t) = {s[i] : i \in places}
  BY <1>2 DEF Range
<1> QED
  BY <1>5, <1>6 DEF t

LEMMA DocumentTyped ==
  ASSUME NEW ns \in Seq(Nodes), NEW es \in Seq(Edges)
  PROVE  /\ Document(ns, es) \in Documents
         /\ Joins(es, IdsOf(ns)) => Joins(Document(ns, es).edges, IdsOf(Document(ns, es).nodes))
<1> DEFINE dn == [i \in DOMAIN ns |-> [id |-> ns[i].id, data |-> ns[i].data]]
           de == [i \in DOMAIN es |-> [from |-> es[i].from, to |-> es[i].to]]
<1>1. Document(ns, es).nodes = dn /\ Document(ns, es).edges = de
  BY DEF Document
<1>2. dn \in Seq([id : Nat, data : Data])
  <2>1. Len(ns) \in Nat /\ DOMAIN ns = 1 .. Len(ns) /\ \A i \in DOMAIN ns : ns[i] \in Nodes
    BY SequenceHas
  <2>2. \A i \in DOMAIN ns : [id |-> ns[i].id, data |-> ns[i].data] \in [id : Nat, data : Data]
    BY <2>1 DEF Nodes
  <2>3. dn \in [1 .. Len(ns) -> [id : Nat, data : Data]]
    BY <2>1, <2>2
  <2> QED
    BY <2>1, <2>3, SequenceOf
<1>3. de \in Seq([from : Nat, to : Nat])
  <2>1. Len(es) \in Nat /\ DOMAIN es = 1 .. Len(es) /\ \A i \in DOMAIN es : es[i] \in Edges
    BY SequenceHas
  <2>2. \A i \in DOMAIN es : [from |-> es[i].from, to |-> es[i].to] \in [from : Nat, to : Nat]
    BY <2>1 DEF Edges
  <2>3. de \in [1 .. Len(es) -> [from : Nat, to : Nat]]
    BY <2>1, <2>2
  <2> QED
    BY <2>1, <2>3, SequenceOf
<1>4. IdsOf(dn) = IdsOf(ns)
  <2>1. DOMAIN dn = DOMAIN ns /\ \A i \in DOMAIN ns : dn[i].id = ns[i].id
    OBVIOUS
  <2> HIDE DEF dn
  <2> QED
    BY <2>1 DEF IdsOf, Range
<1>5. Joins(es, IdsOf(ns)) => Joins(de, IdsOf(ns))
  BY DEF Joins, Range
<1>6. Document(ns, es).entry \in Nat \cup {None}
  <2> DEFINE flagged == Only(ns, {i \in DOMAIN ns : ns[i].entry})
  <2>1. flagged \in Seq(Nodes)
    BY OnlyTyped
  <2>2. Document(ns, es).entry = IF ns = <<>> THEN None ELSE Head(flagged \o ns).id
    BY DEF Document
  <2> HIDE DEF flagged
  <2>3. ns # <<>> => flagged \o ns \in Seq(Nodes) /\ flagged \o ns # <<>>
    BY <2>1
  <2>4. ns # <<>> => Head(flagged \o ns) \in Nodes
    BY <2>3
  <2> QED
    BY <2>2, <2>4 DEF Nodes
<1>7. Document(ns, es) =
        [nodes |-> Document(ns, es).nodes, edges |-> Document(ns, es).edges,
         entry |-> Document(ns, es).entry]
  BY DEF Document
<1> HIDE DEF dn, de
<1>8. Document(ns, es) \in Documents
  BY <1>1, <1>2, <1>3, <1>6, <1>7 DEF Documents
<1> QED
  BY <1>1, <1>4, <1>5, <1>8

LEMMA ReadTyped ==
  ASSUME NEW d \in Documents
  PROVE  /\ NodesOf(d) \in Seq(Nodes) /\ EdgesOf(d) \in Seq(Edges)
         /\ Joins(d.edges, IdsOf(d.nodes)) => Joins(EdgesOf(d), IdsOf(NodesOf(d)))
<1> DEFINE dn == d.nodes
           de == d.edges
<1>0. dn \in Seq([id : Nat, data : Data]) /\ de \in Seq([from : Nat, to : Nat])
  BY DEF Documents
<1>1. NodesOf(d) \in Seq(Nodes)
  <2>1. NodesOf(d) = [i \in DOMAIN dn |->
                        [id |-> dn[i].id, data |-> dn[i].data, entry |-> dn[i].id = d.entry]]
    BY DEF NodesOf
  <2> HIDE DEF dn
  <2>2. /\ Len(dn) \in Nat /\ DOMAIN dn = 1 .. Len(dn)
        /\ \A i \in DOMAIN dn : dn[i] \in [id : Nat, data : Data]
    BY <1>0, SequenceHas
  <2>3. NodesOf(d) \in [1 .. Len(dn) -> Nodes]
    BY <2>1, <2>2 DEF Nodes
  <2> QED
    BY <2>2, <2>3, SequenceOf
<1>2. EdgesOf(d) \in Seq(Edges)
  <2>1. EdgesOf(d) = [i \in DOMAIN de |-> [from |-> de[i].from, to |-> de[i].to, number |-> i - 1]]
    BY DEF EdgesOf
  <2> HIDE DEF de
  <2>2. /\ Len(de) \in Nat /\ DOMAIN de = 1 .. Len(de)
        /\ \A i \in DOMAIN de : de[i] \in [from : Nat, to : Nat]
    BY <1>0, SequenceHas
  <2>3. \A i \in DOMAIN de : [from |-> de[i].from, to |-> de[i].to, number |-> i - 1] \in Edges
    BY <2>2 DEF Edges
  <2>4. EdgesOf(d) \in [1 .. Len(de) -> Edges]
    BY <2>1, <2>2, <2>3
  <2> QED
    BY <2>2, <2>4, SequenceOf
<1>3. IdsOf(NodesOf(d)) = IdsOf(d.nodes)
  <2>1. DOMAIN NodesOf(d) = DOMAIN d.nodes /\ \A i \in DOMAIN d.nodes : NodesOf(d)[i].id = d.nodes[i].id
    BY DEF NodesOf
  <2> QED
    BY <2>1 DEF IdsOf, Range
<1>4. \A ids : Joins(d.edges, ids) => Joins(EdgesOf(d), ids)
  <2>1. DOMAIN EdgesOf(d) = DOMAIN d.edges
        /\ \A i \in DOMAIN d.edges :
             EdgesOf(d)[i].from = d.edges[i].from /\ EdgesOf(d)[i].to = d.edges[i].to
    BY DEF EdgesOf
  <2> QED
    BY <2>1 DEF Joins, Range
<1> QED
  BY <1>1, <1>2, <1>3, <1>4

LEMMA JoinsStands ==
  ASSUME NEW es, NEW ids, Joins(es, ids), NEW fs, NEW jds, Range(fs) \subseteq Range(es), ids \subseteq jds
  PROVE  Joins(fs, jds)
BY DEF Joins

LEMMA Appended ==
  ASSUME NEW S, NEW s \in Seq(S), NEW e \in S
  PROVE  Append(s, e) \in Seq(S) /\ Range(Append(s, e)) = Range(s) \cup {e}
<1>1. /\ Len(s) \in Nat /\ DOMAIN s = 1 .. Len(s) /\ DOMAIN Append(s, e) = 1 .. Len(s) + 1
      /\ \A i \in 1 .. Len(s) : Append(s, e)[i] = s[i]
      /\ Append(s, e)[Len(s) + 1] = e
      /\ Append(s, e) \in Seq(S)
  OBVIOUS
<1>2. 1 .. Len(s) + 1 = (1 .. Len(s)) \cup {Len(s) + 1}
  BY <1>1
<1>3. \A x : x \in Range(Append(s, e)) <=> x \in Range(s) \cup {e}
  BY <1>1, <1>2 DEF Range
<1> QED
  BY <1>1, <1>3

\* A canvas whose nodes are changed one by one has the same ids.
LEMMA SameIds ==
  ASSUME NEW ns \in Seq(Nodes), NEW ms, DOMAIN ms = DOMAIN ns, ms = [i \in DOMAIN ns |-> ms[i]],
         \A i \in DOMAIN ns : ms[i] \in Nodes /\ ms[i].id = ns[i].id
  PROVE  ms \in Seq(Nodes) /\ IdsOf(ms) = IdsOf(ns)
<1>1. Len(ns) \in Nat /\ DOMAIN ns = 1 .. Len(ns)
  BY SequenceHas
<1>2. ms \in [1 .. Len(ns) -> Nodes]
  BY <1>1
<1>3. ms \in Seq(Nodes)
  BY <1>1, <1>2, SequenceOf
<1>4. IdsOf(ms) = IdsOf(ns)
  BY DEF IdsOf, Range
<1> QED
  BY <1>3, <1>4

\* What an edit does to the canvas.
Drawing ==
  /\ nodes' \in Seq(Nodes) /\ edges' \in Seq(Edges) /\ nodeCounter' \in Nat
  /\ (Joins(edges, IdsOf(nodes)) => Joins(edges, IdsOf(nodes))')

LEMMA NodesChange ==
  ASSUME EditorTypes, UNCHANGED <<edges, nodeCounter>>,
         \/ \E id \in IdsOf(nodes), data \in Data : UpdateNode(id, data)
         \/ AutoLayout
         \/ \E id \in IdsOf(nodes) : SetEntrypoint(id)
  PROVE  Drawing
<1>1. nodes \in Seq(Nodes) /\ \A i \in DOMAIN nodes : nodes[i] \in Nodes
  BY SequenceHas DEF EditorTypes
<1>2. /\ DOMAIN nodes' = DOMAIN nodes /\ nodes' = [i \in DOMAIN nodes |-> nodes'[i]]
      /\ \A i \in DOMAIN nodes : nodes'[i] \in Nodes /\ nodes'[i].id = nodes[i].id
  <2>1. CASE \E id \in IdsOf(nodes), data \in Data : UpdateNode(id, data)
    <3>1. PICK id \in IdsOf(nodes), data \in Data :
            nodes' = [i \in DOMAIN nodes |->
                        IF nodes[i].id = id THEN [nodes[i] EXCEPT !.data = data] ELSE nodes[i]]
      BY <2>1 DEF UpdateNode
    <3> QED
      BY <1>1, <3>1 DEF Nodes
  <2>2. CASE AutoLayout
    <3>1. PICK places \in [DOMAIN nodes -> Data] :
            nodes' = [i \in DOMAIN nodes |-> [nodes[i] EXCEPT !.data = places[i]]]
      BY <2>2 DEF AutoLayout
    <3> QED
      BY <1>1, <3>1 DEF Nodes
  <2>3. CASE \E id \in IdsOf(nodes) : SetEntrypoint(id)
    <3>1. PICK id : nodes' = [i \in DOMAIN nodes |-> [nodes[i] EXCEPT !.entry = nodes[i].id = id]]
      BY <2>3 DEF SetEntrypoint
    <3> QED
      BY <1>1, <3>1 DEF Nodes
  <2> QED
    BY <2>1, <2>2, <2>3
<1>3. nodes' \in Seq(Nodes) /\ IdsOf(nodes') = IdsOf(nodes)
  BY <1>1, <1>2, SameIds
<1> QED
  BY <1>3 DEF Drawing, EditorTypes

LEMMA CanvasGrows ==
  ASSUME EditorTypes,
         \/ \E data \in Data : AddNode(data)
         \/ \E a, b \in IdsOf(nodes) : ConnectNodes(a, b)
  PROVE  Drawing
<1>1. nodes \in Seq(Nodes) /\ edges \in Seq(Edges) /\ nodeCounter \in Nat
  BY DEF EditorTypes
<1>2. CASE \E data \in Data : AddNode(data)
  <2>1. PICK data \in Data, entry \in BOOLEAN :
          /\ nodes' = Append(nodes, [id |-> nodeCounter + 1, data |-> data, entry |-> entry])
          /\ nodeCounter' = nodeCounter + 1 /\ edges' = edges
    BY <1>2 DEF AddNode
  <2> DEFINE new == [id |-> nodeCounter + 1, data |-> data, entry |-> entry]
  <2>2. new \in Nodes /\ nodeCounter' \in Nat
    BY <1>1, <2>1 DEF Nodes
  <2> HIDE DEF new
  <2>3. nodes' = Append(nodes, new)
    BY <2>1 DEF new
  <2>4. nodes' \in Seq(Nodes) /\ Range(nodes') = Range(nodes) \cup {new}
    BY <1>1, <2>2, <2>3, Appended
  <2>5. IdsOf(nodes) \subseteq IdsOf(nodes')
    BY <2>4 DEF IdsOf
  <2> QED
    BY <1>1, <2>1, <2>2, <2>4, <2>5, JoinsStands DEF Drawing
<1>3. CASE \E a, b \in IdsOf(nodes) : ConnectNodes(a, b)
  <2>1. PICK a, b \in IdsOf(nodes) :
          /\ edges' = Append(edges, [from |-> a, to |-> b, number |-> Len(edges)])
          /\ nodes' = nodes /\ nodeCounter' = nodeCounter
    BY <1>3 DEF ConnectNodes
  <2> DEFINE new == [from |-> a, to |-> b, number |-> Len(edges)]
  <2>2. IdsOf(nodes) \subseteq Nat
    <3>1. \A i \in DOMAIN nodes : nodes[i] \in Nodes
      BY <1>1, SequenceHas
    <3> QED
      BY <3>1 DEF IdsOf, Range, Nodes
  <2>3. Len(edges) \in Nat
    BY <1>1
  <2>4. new \in Edges /\ {new.from, new.to} \subseteq IdsOf(nodes)
    BY <2>1, <2>2, <2>3 DEF Edges
  <2>5. edges' = Append(edges, new)
    BY <2>1
  <2> HIDE DEF new
  <2>6. edges' \in Seq(Edges) /\ Range(edges') = Range(edges) \cup {new}
    BY <1>1, <2>4, <2>5, Appended
  <2>7. Joins(edges, IdsOf(nodes)) => Joins(edges', IdsOf(nodes))
    BY <2>4, <2>6 DEF Joins
  <2> QED
    BY <1>1, <2>1, <2>6, <2>7 DEF Drawing
<1> QED
  BY <1>2, <1>3

\* With a node go its edges.
LEMMA CanvasShrinks ==
  ASSUME EditorTypes,
         \/ \E id \in IdsOf(nodes) : RemoveNode(id)
         \/ \E edge \in Range(edges) : RemoveEdge(edge)
  PROVE  Drawing
<1>1. /\ nodes \in Seq(Nodes) /\ edges \in Seq(Edges) /\ nodeCounter' \in Nat
  BY DEF EditorTypes, RemoveNode, RemoveEdge
<1>2. CASE \E id \in IdsOf(nodes) : RemoveNode(id)
  <2>1. PICK id :
          /\ nodes' = Only(nodes, {i \in DOMAIN nodes : nodes[i].id # id})
          /\ edges' = Only(edges, {i \in DOMAIN edges : id \notin {edges[i].from, edges[i].to}})
    BY <1>2 DEF RemoveNode
  <2> DEFINE stay == {i \in DOMAIN nodes : nodes[i].id # id}
             free == {i \in DOMAIN edges : id \notin {edges[i].from, edges[i].to}}
  <2>2. stay \in SUBSET DOMAIN nodes /\ free \in SUBSET DOMAIN edges
    OBVIOUS
  <2>3. nodes' \in Seq(Nodes) /\ Range(nodes') = {nodes[i] : i \in stay}
    <3> HIDE DEF stay
    <3> QED
      BY <1>1, <2>1, <2>2, OnlyTyped DEF stay
  <2>4. edges' \in Seq(Edges) /\ Range(edges') = {edges[i] : i \in free}
    <3> HIDE DEF free
    <3> QED
      BY <1>1, <2>1, <2>2, OnlyTyped DEF free
  <2>5. IdsOf(nodes) \ {id} \subseteq IdsOf(nodes')
    BY <2>3 DEF IdsOf, Range
  <2>6. ASSUME Joins(edges, IdsOf(nodes)), NEW e \in Range(edges')
        PROVE  {e.from, e.to} \subseteq IdsOf(nodes')
    <3>1. e \in Range(edges) /\ id \notin {e.from, e.to}
      BY <2>4 DEF Range
    <3> QED
      BY <2>5, <2>6, <3>1 DEF Joins
  <2> QED
    BY <1>1, <2>3, <2>4, <2>6 DEF Drawing, Joins
<1>3. CASE \E edge \in Range(edges) : RemoveEdge(edge)
  <2>1. PICK edge :
          edges' = Only(edges, {i \in DOMAIN edges : edges[i] # edge}) /\ nodes' = nodes
    BY <1>3 DEF RemoveEdge
  <2> DEFINE others == {i \in DOMAIN edges : edges[i] # edge}
  <2>2. others \in SUBSET DOMAIN edges
    OBVIOUS
  <2>3. edges' \in Seq(Edges) /\ Range(edges') = {edges[i] : i \in others}
    <3> HIDE DEF others
    <3> QED
      BY <1>1, <2>1, <2>2, OnlyTyped DEF others
  <2>4. Range(edges') \subseteq Range(edges)
    BY <2>3 DEF Range
  <2> QED
    BY <1>1, <2>1, <2>3, <2>4, JoinsStands DEF Drawing
<1> QED
  BY <1>2, <1>3

\* Reading the YAML view's text gives a canvas as well typed, and as well joined.
LEMMA TextIsRead ==
  ASSUME EditorTypes, EditorAssumption, EditYaml
  PROVE  /\ nodes' \in Seq(Nodes) /\ edges' \in Seq(Edges) /\ nodeCounter' \in Nat
         /\ yamlText' \in Documents \cup {None}
         /\ TextsAreJoined /\ EndsInv =>
              Joins(edges', IdsOf(nodes')) /\ Joins(yamlText'.edges, IdsOf(yamlText'.nodes))
<1>1. PICK text \in Texts \cup {yamlText} : ApplyYaml(text)
  BY DEF EditYaml
<1>2. /\ nodes' = NodesOf(text) /\ edges' = EdgesOf(text) /\ yamlText' = text
      /\ nodeCounter' = nodeCounter /\ text # None
  BY <1>1 DEF ApplyYaml
<1>3. text \in Documents
  BY <1>2 DEF EditorTypes, EditorAssumption
<1>4. TextsAreJoined /\ EndsInv => Joins(text.edges, IdsOf(text.nodes))
  BY <1>2 DEF TextsAreJoined, EndsInv
<1>5. /\ NodesOf(text) \in Seq(Nodes) /\ EdgesOf(text) \in Seq(Edges)
      /\ Joins(text.edges, IdsOf(text.nodes)) => Joins(EdgesOf(text), IdsOf(NodesOf(text)))
  BY <1>3, ReadTyped
<1> QED
  BY <1>2, <1>3, <1>4, <1>5 DEF EditorTypes

\* What every edit does.
LEMMA EditDraws ==
  ASSUME EditorTypes, EditorAssumption, Edit
  PROVE  /\ nodes' \in Seq(Nodes) /\ edges' \in Seq(Edges) /\ nodeCounter' \in Nat
         /\ yamlText' \in Documents \cup {None}
         /\ TextsAreJoined /\ EndsInv =>
              /\ Joins(edges', IdsOf(nodes'))
              /\ yamlText' # None => Joins(yamlText'.edges, IdsOf(yamlText'.nodes))
         /\ dirty' = TRUE /\ undisturbed' = (undisturbed /\ saving = None)
         /\ UNCHANGED requests
<1>1. /\ dirty' = TRUE /\ undisturbed' = (undisturbed /\ saving = None)
      /\ UNCHANGED requests
  BY DEF Edit, InspectNode, EditCanvas, EditYaml, Edits, AddNode, RemoveNode, ConnectNodes,
         RemoveEdge, UpdateNode, AutoLayout, SetEntrypoint, ApplyYaml
<1>2. CASE EditYaml
  BY <1>1, <1>2, TextIsRead
<1>3. CASE InspectNode \/ EditCanvas
  <2>1. yamlText' = yamlText
    BY <1>3 DEF InspectNode, EditCanvas, AddNode, RemoveNode, ConnectNodes,
         RemoveEdge, UpdateNode, AutoLayout, SetEntrypoint, view
  <2>2. Drawing
    <3>1. CASE \/ \E id \in IdsOf(nodes), data \in Data : UpdateNode(id, data)
               \/ AutoLayout
               \/ \E id \in IdsOf(nodes) : SetEntrypoint(id)
      <4>1. UNCHANGED <<edges, nodeCounter>>
        BY <3>1 DEF UpdateNode, AutoLayout, SetEntrypoint
      <4> QED
        BY <3>1, <4>1, NodesChange
    <3>2. CASE \/ \E data \in Data : AddNode(data)
               \/ \E a, b \in IdsOf(nodes) : ConnectNodes(a, b)
      BY <3>2, CanvasGrows
    <3>3. CASE \/ \E id \in IdsOf(nodes) : RemoveNode(id)
               \/ \E edge \in Range(edges) : RemoveEdge(edge)
      BY <3>3, CanvasShrinks
    <3> QED
      BY <1>3, <3>1, <3>2, <3>3 DEF InspectNode, EditCanvas
  <2> QED
    BY <1>1, <2>1, <2>2 DEF Drawing, EditorTypes, EndsInv, EdgesHaveEnds
<1> QED
  BY <1>2, <1>3 DEF Edit

LEMMA DrawnTyped ==
  ASSUME EditorTypes
  PROVE  /\ Drawn \in Documents
         /\ Joins(edges, IdsOf(nodes)) => Joins(Drawn.edges, IdsOf(Drawn.nodes))
BY DocumentTyped DEF EditorTypes, Drawn

-----------------------------------------------------------------------------

LEMMA TypesStep ==
  ASSUME EditorTypes, EditorAssumption, [EditorNext]_editorVars
  PROVE  EditorTypes'
<1> USE DEF EditorTypes
<1>1. CASE Edit
  <2>1. /\ nodes' \in Seq(Nodes) /\ edges' \in Seq(Edges) /\ nodeCounter' \in Nat
        /\ yamlText' \in Documents \cup {None} /\ UNCHANGED requests
    BY <1>1, EditDraws
  <2> QED
    BY <2>1 DEF requests
<1>2. CASE SetMode
  BY <1>2, DrawnTyped DEF SetMode, canvas, requests
<1>3. CASE NewWorkflow
  <2>1. <<>> \in Seq(Nodes) /\ <<>> \in Seq(Edges)
    OBVIOUS
  <2> QED
    BY <1>3, <2>1 DEF NewWorkflow
<1>4. CASE SaveWorkflow
  BY <1>4, DrawnTyped DEF SaveWorkflow, canvas, view
<1>5. CASE ValidateWorkflow
  BY <1>5 DEF ValidateWorkflow, canvas, view
<1>6. CASE Saved
  <2>1. saving \in Documents /\ stored' = Append(stored, saving) /\ workflowId' = Len(stored) + 1
    BY <1>6 DEF Saved
  <2>2. stored' \in Seq(Documents) /\ Len(stored') = Len(stored) + 1 /\ Len(stored) \in Nat
    BY <2>1
  <2> QED
    BY <1>6, <2>1, <2>2 DEF Saved, canvas, view
<1>7. CASE SaveFails
  BY <1>7 DEF SaveFails, canvas, view
<1>8. CASE \E v \in validations : Validated(v) \/ ValidateFails(v)
  <2>1. PICK v \in validations : Validated(v) \/ ValidateFails(v)
    BY <1>8
  <2> QED
    BY <2>1 DEF Validated, ValidateFails, canvas, view
<1>9. CASE UNCHANGED editorVars
  BY <1>9 DEF editorVars, canvas, requests, view
<1> QED
  BY <1>1, <1>2, <1>3, <1>4, <1>5, <1>6, <1>7, <1>8, <1>9 DEF EditorNext, Answer

LEMMA EndsStep ==
  ASSUME EditorTypes, EditorAssumption, EndsInv, TextsAreJoined, [EditorNext]_editorVars
  PROVE  EndsInv'
<1> USE DEF EndsInv, EdgesHaveEnds
<1>1. CASE Edit
  BY <1>1, EditDraws DEF requests
<1>2. CASE SetMode
  BY <1>2, DrawnTyped DEF SetMode, canvas, requests
<1>3. CASE NewWorkflow
  BY <1>3 DEF NewWorkflow, Joins, Range
<1>4. CASE SaveWorkflow
  BY <1>4, DrawnTyped DEF SaveWorkflow, canvas, view
<1>5. CASE ValidateWorkflow
  BY <1>5 DEF ValidateWorkflow, canvas, view
<1>6. CASE Saved
  BY <1>6 DEF Saved, canvas, view
<1>7. CASE SaveFails
  BY <1>7 DEF SaveFails, canvas, view
<1>8. CASE \E v \in validations : Validated(v) \/ ValidateFails(v)
  <2>1. PICK v \in validations : Validated(v) \/ ValidateFails(v)
    BY <1>8
  <2> QED
    BY <2>1 DEF Validated, ValidateFails, canvas, view
<1>9. CASE UNCHANGED editorVars
  BY <1>9 DEF editorVars, canvas, requests, view
<1> QED
  BY <1>1, <1>2, <1>3, <1>4, <1>5, <1>6, <1>7, <1>8, <1>9 DEF EditorNext, Answer

\* An edit makes the canvas dirty and leaves no save undisturbed; an answer that changes the
\* canvas leaves none undisturbed either.
LEMMA SavedStep ==
  ASSUME EditorTypes, EditorAssumption, SavingInv, CleanIsSaved, [EditorNext]_editorVars
  PROVE  SavingInv' /\ CleanIsSaved'
<1> USE DEF SavingInv, CleanIsSaved
<1>1. CASE Edit
  BY <1>1, EditDraws DEF requests
<1>2. CASE SetMode
  <2>1. UNCHANGED <<Drawn, dirty, saving, stored, workflowId, undisturbed>>
    BY <1>2 DEF SetMode, canvas, requests, Drawn
  <2> QED
    BY <2>1
<1>3. CASE NewWorkflow
  BY <1>3 DEF NewWorkflow
<1>4. CASE SaveWorkflow
  <2>1. Drawn' = Drawn /\ saving' = Drawn
    BY <1>4 DEF SaveWorkflow, canvas, Drawn
  <2>2. saving' # None
    BY <2>1, DrawnTyped DEF EditorAssumption
  <2> QED
    BY <2>1, <2>2
<1>5. CASE ValidateWorkflow
  <2>1. UNCHANGED <<Drawn, dirty, saving, stored, workflowId, undisturbed>>
    BY <1>5 DEF ValidateWorkflow, canvas, Drawn
  <2> QED
    BY <2>1
<1>6. CASE Saved
  <2>1. /\ UNCHANGED <<Drawn, undisturbed>> /\ saving # None /\ saving' = None
        /\ stored' = Append(stored, saving) /\ workflowId' = Len(stored) + 1
    BY <1>6 DEF Saved, canvas, Drawn
  <2>2. stored'[workflowId'] = saving
    BY <2>1 DEF EditorTypes
  <2> QED
    BY <2>1, <2>2
<1>7. CASE SaveFails
  BY <1>7 DEF SaveFails
<1>8. CASE \E v \in validations : Validated(v) \/ ValidateFails(v)
  <2>1. PICK v \in validations : Validated(v) \/ ValidateFails(v)
    BY <1>8
  <2>2. UNCHANGED <<dirty, saving, stored, workflowId>>
    BY <2>1 DEF Validated, ValidateFails
  <2>3. undisturbed' => undisturbed /\ UNCHANGED <<nodes, edges>>
    BY <2>1 DEF Validated, ValidateFails, canvas
  <2>4. undisturbed' => undisturbed /\ Drawn' = Drawn
    BY <2>3 DEF Drawn
  <2> QED
    BY <2>2, <2>4
<1>9. CASE UNCHANGED editorVars
  <2>1. UNCHANGED <<Drawn, dirty, saving, stored, workflowId, undisturbed>>
    BY <1>9 DEF editorVars, canvas, requests, Drawn
  <2> QED
    BY <2>1
<1> QED
  BY <1>1, <1>2, <1>3, <1>4, <1>5, <1>6, <1>7, <1>8, <1>9 DEF EditorNext, Answer

LEMMA EditorStarts ==
  ASSUME EditorInit
  PROVE  EditorInv /\ EndsInv
<1>1. nodes = <<>> /\ edges = <<>> /\ <<>> \in Seq(Nodes) /\ <<>> \in Seq(Edges)
      /\ <<>> \in Seq(Documents)
  BY DEF EditorInit
<1>2. EditorTypes
  BY <1>1 DEF EditorInit, EditorTypes
<1>3. EndsInv
  BY DEF EditorInit, EndsInv, EdgesHaveEnds, Joins, Range
<1> QED
  BY <1>2, <1>3 DEF EditorInit, EditorInv, SavingInv, CleanIsSaved

LEMMA EditorHolds == EditorSpec => []EditorInv
<1>1. EditorInit => EditorInv
  BY EditorStarts
<1>2. EditorInv /\ [EditorNext]_editorVars => EditorInv'
  BY EditorAssumption, TypesStep, SavedStep DEF EditorInv
<1> QED
  BY <1>1, <1>2, PTL DEF EditorSpec

\* Without the badge "Unsaved" the document the canvas stands for is the one the sidecar
\* stores under the workflow's id, unless an edit or the answer of a validation came
\* while it was being saved.
THEOREM CanvasIsSaved == EditorSpec => []CleanIsSaved
<1>1. EditorInv => CleanIsSaved
  BY DEF EditorInv
<1> QED
  BY <1>1, EditorHolds, PTL

\* Where the texts a user types are joined, every edge joins nodes that are there: on the
\* canvas, in each document that is being saved, and in each one that is being validated,
\* whichever nodes are deleted in the meantime and whichever answer brings them back.
THEOREM EdgesKeepEnds == TextsAreJoined => (EditorSpec => []EdgesHaveEnds)
<1> SUFFICES ASSUME TextsAreJoined
             PROVE  EditorSpec => []EdgesHaveEnds
  OBVIOUS
<1>1. EditorInit => EndsInv
  BY EditorStarts
<1>2. EditorInv /\ EndsInv /\ [EditorNext]_editorVars => EndsInv'
  BY EditorAssumption, EndsStep DEF EditorInv
<1>3. EndsInv => EdgesHaveEnds
  BY DEF EndsInv
<1> QED
  BY <1>1, <1>2, <1>3, EditorHolds, PTL DEF EditorSpec

=============================================================================
