--------------------------- MODULE RunRegistryProofs ---------------------------
(***************************************************************************)
(* Proofs about RunRegistry, for any number of runs and clients and any    *)
(* retention.                                                              *)
(***************************************************************************)
EXTENDS RunRegistry, FiniteSetTheorems, TLAPS

\* What a callback will find: until the process goes down a task that is done has
\* settled its run.
SettledInv ==
  phase \in {"serving", "draining"} =>
    \A r \in Runs : task[r] \in {"done", "over"} => status[r] = "terminal"

\* Runs are numbered in the order of their starts, each with a number of its own.
NumberInv ==
  /\ \A r \in runs : Started(r)
  /\ \A r \in Runs : number[r] <= Cardinality({s \in Runs : Started(s)})
  /\ \A r, s \in Runs : Started(r) /\ number[r] = number[s] => r = s

RegistryInv == TypeOK /\ LiveIsReachable /\ SettledInv

-----------------------------------------------------------------------------

\* Only the idle are forgotten.
LEMMA EvictedAreIdle == Evicted \subseteq {r \in runs : ~Running(r)}
BY DEF Evicted

\* _cleanup_run takes the idle in the order of insertion: with a run go all older ones.
LEMMA EvictedAreOldest ==
  ASSUME TypeOK, NEW r \in Evicted, NEW s \in runs, ~Running(s), number[s] < number[r]
  PROVE  s \in Evicted
<1> DEFINE idle == {x \in runs : ~Running(x)}
           UpTo(x) == {y \in idle : number[y] <= number[x]}
<1>1. Retention # 0 /\ r \in idle /\ Cardinality(UpTo(r)) <= Overflow
  BY DEF Evicted
<1>2. IsFiniteSet(runs)
  BY FS_Subset, RunRegistryAssumption DEF TypeOK
<1>3. IsFiniteSet(UpTo(r))
  BY <1>2, FS_Subset
<1>4. UpTo(s) \subseteq UpTo(r)
  <2> SUFFICES ASSUME NEW y \in idle, number[y] <= number[s] PROVE number[y] <= number[r]
    OBVIOUS
  <2>1. Evicted \subseteq Runs /\ runs \subseteq Runs
    BY DEF Evicted, TypeOK
  <2>2. number[y] \in Nat /\ number[s] \in Nat /\ number[r] \in Nat
    BY <2>1 DEF TypeOK
  <2> QED
    BY <2>2
<1>5. IsFiniteSet(UpTo(s)) /\ Cardinality(UpTo(s)) <= Cardinality(UpTo(r))
  BY <1>3, <1>4, FS_Subset
<1>6. Cardinality(UpTo(s)) \in Nat /\ Cardinality(UpTo(r)) \in Nat
  BY <1>3, <1>5, FS_CardinalityType
<1>7. Overflow \in Nat
  BY <1>2, FS_CardinalityType, RunRegistryAssumption DEF Overflow
<1>8. Cardinality(UpTo(s)) <= Overflow
  BY <1>1, <1>5, <1>6, <1>7
<1> HIDE DEF UpTo
<1> QED
  BY <1>1, <1>8 DEF Evicted, UpTo

\* _cleanup_run leaves no more runs that are not running than the limit allows, with
\* those that run counted first: each idle run has a rank of its own among the idle,
\* and the first ones go.
LEMMA KeptAreBounded ==
  ASSUME TypeOK, NumberInv, Retention > 0
  PROVE  Cardinality({r \in runs : ~Running(r)} \ Evicted) <= Retention
<1> DEFINE idle == {x \in runs : ~Running(x)}
           UpTo(x) == {y \in idle : number[y] <= number[x]}
           kept == idle \ Evicted
           n == Cardinality(idle)
           rank == [x \in kept |-> Cardinality(UpTo(x))]
<1>1. IsFiniteSet(runs) /\ Cardinality(runs) \in Nat /\ Retention \in Nat
  BY FS_Subset, FS_CardinalityType, RunRegistryAssumption DEF TypeOK
<1>2. IsFiniteSet(idle) /\ n \in Nat /\ n <= Cardinality(runs)
  <2> idle \in SUBSET runs
    OBVIOUS
  <2> QED
    BY <1>1, FS_Subset, FS_CardinalityType
<1>3. Overflow \in Nat /\ Cardinality(runs) <= Overflow + Retention
  BY <1>1 DEF Overflow
<1>4. \A x \in idle : number[x] \in Nat
  BY DEF TypeOK
<1>5. ASSUME NEW x \in idle
      PROVE  UpTo(x) \in SUBSET idle /\ IsFiniteSet(UpTo(x)) /\ Cardinality(UpTo(x)) \in 0 .. n
  <2>1. UpTo(x) \in SUBSET idle
    OBVIOUS
  <2>2. IsFiniteSet(UpTo(x)) /\ Cardinality(UpTo(x)) <= n
    BY <1>2, <2>1, FS_Subset
  <2>3. Cardinality(UpTo(x)) \in Nat
    BY <2>2, FS_CardinalityType
  <2> QED
    BY <1>2, <2>1, <2>2, <2>3
<1>6. ASSUME NEW x \in idle, NEW y \in idle, number[x] < number[y]
      PROVE  Cardinality(UpTo(x)) # Cardinality(UpTo(y))
  <2>1. UpTo(x) \in SUBSET UpTo(y)
    BY <1>4, <1>6
  <2>2. y \in UpTo(y) /\ y \notin UpTo(x)
    BY <1>4, <1>6
  <2> HIDE DEF UpTo
  <2> QED
    BY <1>5, <2>1, <2>2, FS_Subset
<1>7. \A x, y \in idle : x # y => number[x] < number[y] \/ number[y] < number[x]
  <2> SUFFICES ASSUME NEW x \in idle, NEW y \in idle, x # y
               PROVE  number[x] < number[y] \/ number[y] < number[x]
    OBVIOUS
  <2>1. x \in Runs /\ y \in Runs /\ Started(x)
    BY DEF NumberInv, TypeOK
  <2>2. number[x] # number[y]
    BY <2>1 DEF NumberInv
  <2> QED
    BY <1>4, <2>2
<1>8. \A x \in kept : Cardinality(UpTo(x)) > Overflow
  <2> SUFFICES ASSUME NEW x \in kept PROVE Cardinality(UpTo(x)) > Overflow
    OBVIOUS
  <2>1. ~(Cardinality(UpTo(x)) <= Overflow)
    BY DEF Evicted
  <2>2. Cardinality(UpTo(x)) \in Nat
    <3>1. x \in idle
      OBVIOUS
    <3> HIDE DEF UpTo, idle
    <3> QED
      BY <1>2, <1>5, <3>1
  <2> HIDE DEF UpTo
  <2> QED
    BY <1>3, <2>1, <2>2
<1> HIDE DEF UpTo, n, idle
<1>9. rank \in [kept -> (Overflow + 1) .. n]
  BY <1>2, <1>3, <1>5, <1>8
<1>10. \A x, y \in kept : rank[x] = rank[y] => x = y
  BY <1>6, <1>7
<1> HIDE DEF rank, kept
<1>11. rank \in Injection(kept, (Overflow + 1) .. n)
  BY <1>9, <1>10 DEF Injection, IsInjective
<1>12. Cardinality((Overflow + 1) .. n) <= Retention
  <2>1. Cardinality((Overflow + 1) .. n) =
          IF Overflow + 1 > n THEN 0 ELSE n - (Overflow + 1) + 1
    BY <1>2, <1>3, FS_Interval
  <2> QED
    BY <1>1, <1>2, <1>3, <2>1
<1>13. IsFiniteSet((Overflow + 1) .. n)
  BY <1>2, <1>3, FS_Interval
<1>14. IsFiniteSet(kept) /\ Cardinality(kept) <= Cardinality((Overflow + 1) .. n)
  BY <1>11, <1>13, FS_Injection
<1>15. Cardinality(kept) \in Nat /\ Cardinality((Overflow + 1) .. n) \in Nat
  BY <1>13, <1>14, FS_CardinalityType
<1>16. Cardinality(kept) <= Retention
  BY <1>1, <1>12, <1>14, <1>15
<1> QED
  BY <1>16 DEF kept, idle

-----------------------------------------------------------------------------

LEMMA InitRegistry == Init => RegistryInv
BY DEF Init, RegistryInv, TypeOK, LiveIsReachable, SettledInv, Running, NoStream

LEMMA StartKeeps ==
  ASSUME RegistryInv, NEW r \in Runs, StartRun(r)
  PROVE  RegistryInv'
<1>1. Cardinality({s \in Runs : Started(s)}) \in Nat
  BY FS_Subset, FS_CardinalityType, RunRegistryAssumption
<1> QED
  BY <1>1 DEF RegistryInv, TypeOK, LiveIsReachable, SettledInv, Running, StartRun

LEMMA FinalizeKeeps ==
  ASSUME RegistryInv, NEW r \in Runs, Finalize(r)
  PROVE  RegistryInv'
<1> USE DEF RegistryInv, Finalize
<1>1. TypeOK'
  BY DEF TypeOK
<1>2. LiveIsReachable'
  BY EvictedAreIdle DEF TypeOK, LiveIsReachable, Running
<1>3. SettledInv'
  BY DEF TypeOK, SettledInv
<1> QED
  BY <1>1, <1>2, <1>3

LEMMA NextRegistry == RegistryInv /\ [Next]_vars => RegistryInv'
<1> SUFFICES ASSUME RegistryInv, [Next]_vars PROVE RegistryInv'
  OBVIOUS
<1> USE DEF RegistryInv, TypeOK, LiveIsReachable, SettledInv, Running
<1>1. CASE UNCHANGED vars
  BY <1>1 DEF vars, registry
<1>2. ASSUME NEW r \in Runs, StartRun(r) PROVE RegistryInv'
  BY <1>2, StartKeeps
<1>3. ASSUME NEW r \in Runs, Begin(r) PROVE RegistryInv'
  BY <1>3 DEF Begin, registry
<1>4. ASSUME NEW r \in Runs, Settle(r) PROVE RegistryInv'
  BY <1>4 DEF Settle, Told, registry
<1>5. ASSUME NEW r \in Runs, Crash(r) PROVE RegistryInv'
  BY <1>5 DEF Crash, registry
<1>6. ASSUME NEW r \in Runs, Die(r) PROVE RegistryInv'
  BY <1>6 DEF Die, registry
<1>7. ASSUME NEW r \in Runs, Finalize(r) PROVE RegistryInv'
  BY <1>7, FinalizeKeeps
<1>8. ASSUME NEW r \in Runs, LateEmit(r) PROVE RegistryInv'
  BY <1>8 DEF LateEmit, registry
<1>9. ASSUME NEW r \in Runs, LateClose(r) PROVE RegistryInv'
  BY <1>9 DEF LateClose, Told, registry
<1>10. ASSUME NEW c \in Clients, NEW r \in Runs, Connect(c, r) PROVE RegistryInv'
  BY <1>10 DEF Connect, registry
<1>11. ASSUME NEW c \in Clients, Subscribe(c) PROVE RegistryInv'
  BY <1>11 DEF Subscribe, registry
<1>12. ASSUME NEW c \in Clients, StreamEnds(c) \/ DropSlow(c) \/ Leave(c) PROVE RegistryInv'
  BY <1>12 DEF StreamEnds, DropSlow, Leave, NoStream, registry
<1>13. CASE Exit \/ CancelAllRuns \/ ServerReturns \/ Stop
  BY <1>13 DEF Exit, CancelAllRuns, ServerReturns, Stop, NoStream, registry
<1> QED
  BY <1>1, <1>2, <1>3, <1>4, <1>5, <1>6, <1>7, <1>8, <1>9, <1>10, <1>11, <1>12, <1>13
  DEF Next, Advances, Serves, Closes

LEMMA RegistryInvariant == Spec => []RegistryInv
BY InitRegistry, NextRegistry, PTL DEF Spec

-----------------------------------------------------------------------------

LEMMA NumberStart ==
  ASSUME TypeOK, NumberInv, NEW r \in Runs, StartRun(r)
  PROVE  NumberInv'
<1> DEFINE S == {s \in Runs : Started(s)}
<1>1. IsFiniteSet(S) /\ Cardinality(S) \in Nat
  BY FS_Subset, FS_CardinalityType, RunRegistryAssumption
<1>2. number' = [number EXCEPT ![r] = Cardinality(S) + 1] /\ runs' = runs \cup {r}
  BY DEF StartRun
<1>3. r \notin S
  BY DEF StartRun
<1>4. \A s \in Runs : Started(s)' <=> s \in S \cup {r}
  BY <1>1, <1>2 DEF Started, TypeOK
<1>5. {s \in Runs : Started(s)}' = S \cup {r}
  BY <1>4
<1>6. Cardinality(S \cup {r}) = Cardinality(S) + 1
  BY <1>1, <1>3, FS_AddElement
<1>7. \A s \in Runs : number[s] \in Nat /\ number[s] <= Cardinality(S)
  BY DEF NumberInv, TypeOK
<1>8. \A s \in Runs : number'[s] = IF s = r THEN Cardinality(S) + 1 ELSE number[s]
  BY <1>2 DEF TypeOK
<1>9. Cardinality(S)' = Cardinality(S) + 1
  BY <1>5, <1>6
<1>10. (\A s \in runs : Started(s))'
  BY <1>2, <1>4 DEF NumberInv, TypeOK
<1>11. \A s, t \in Runs : Started(s)' /\ number'[s] = number'[t] => s = t
  BY <1>1, <1>4, <1>7, <1>8 DEF NumberInv
<1>12. (\A s \in Runs : number[s] <= Cardinality({x \in Runs : Started(x)}))'
  BY <1>1, <1>7, <1>8, <1>9
<1> QED
  BY <1>10, <1>11, <1>12 DEF NumberInv

\* A run is over once it is finalized, and forgotten by nothing else.
LEMMA OthersFinishNone ==
  ASSUME RegistryInv, [Next]_vars
  PROVE  \/ \E r \in Runs : Finalize(r)
         \/ /\ \A x \in runs' : task'[x] = "over" => x \in runs /\ task[x] = "over"
            /\ UNCHANGED <<runs, number>> \/ \E r \in Runs : StartRun(r)
<1> DEFINE Same == \A x \in runs' : task'[x] = "over" => x \in runs /\ task[x] = "over"
<1> USE DEF RegistryInv, TypeOK
<1>1. CASE UNCHANGED vars
  BY <1>1 DEF vars, registry
<1>2. ASSUME NEW r \in Runs, StartRun(r) PROVE Same
  BY <1>2 DEF StartRun
<1>3. ASSUME NEW r \in Runs, Begin(r) \/ Settle(r) \/ Crash(r) \/ Die(r)
      PROVE  Same /\ UNCHANGED <<runs, number>>
  BY <1>3 DEF Begin, Settle, Crash, Die, registry
<1>4. ASSUME NEW r \in Runs, LateEmit(r) \/ LateClose(r)
      PROVE  Same /\ UNCHANGED <<runs, number>>
  BY <1>4 DEF LateEmit, LateClose, registry
<1>5. ASSUME NEW c \in Clients, NEW r \in Runs, Connect(c, r)
      PROVE  Same /\ UNCHANGED <<runs, number>>
  BY <1>5 DEF Connect, registry
<1>6. ASSUME NEW c \in Clients, Subscribe(c) \/ StreamEnds(c) \/ DropSlow(c) \/ Leave(c)
      PROVE  Same /\ UNCHANGED <<runs, number>>
  BY <1>6 DEF Subscribe, StreamEnds, DropSlow, Leave, registry
<1>7. CASE Exit \/ CancelAllRuns \/ ServerReturns \/ Stop
  BY <1>7 DEF Exit, CancelAllRuns, ServerReturns, Stop, registry
<1> HIDE DEF Same
<1> QED
  BY <1>1, <1>2, <1>3, <1>4, <1>5, <1>6, <1>7 DEF Same, Next, Advances, Serves, Closes

\* _finalize_run forgets what is too much before it returns.
LEMMA FinalizeBounds ==
  ASSUME RegistryInv, NumberInv, NEW r \in Runs, Finalize(r)
  PROVE  FinishedAreBounded' /\ NumberInv'
<1>1. runs' = runs \ Evicted /\ number' = number /\ task' = [task EXCEPT ![r] = "over"]
  BY DEF Finalize
<1>2. NumberInv'
  BY <1>1 DEF NumberInv, Started
<1>3. ASSUME Retention > 0 PROVE Cardinality({x \in runs' : task'[x] = "over"}) <= Retention
  <2> DEFINE Kept == {x \in runs : ~Running(x)} \ Evicted
             Over == {x \in runs' : task'[x] = "over"}
  <2>1. Over \in SUBSET Kept
    <3> SUFFICES ASSUME NEW x \in Over PROVE x \in Kept
      OBVIOUS
    <3>1. x \in runs /\ x \notin Evicted /\ x \in Runs
      BY <1>1 DEF RegistryInv, TypeOK
    <3>2. task[x] = "over" \/ x = r
      BY <1>1, <3>1 DEF RegistryInv, TypeOK
    <3>3. ~Running(x)
      BY <3>2 DEF Running, Finalize
    <3> QED
      BY <3>1, <3>3
  <2>2. IsFiniteSet(Kept)
    <3>1. Kept \in SUBSET Runs
      BY DEF RegistryInv, TypeOK
    <3> QED
      BY <3>1, FS_Subset, RunRegistryAssumption
  <2>3. Cardinality(Kept) <= Retention
    BY <1>3, KeptAreBounded DEF RegistryInv
  <2>4. IsFiniteSet(Over) /\ Cardinality(Over) <= Cardinality(Kept)
    BY <2>1, <2>2, FS_Subset
  <2> HIDE DEF Kept, Over
  <2>5. Cardinality(Over) \in Nat /\ Cardinality(Kept) \in Nat
    BY <2>2, <2>4, FS_CardinalityType
  <2>6. Cardinality(Over) <= Retention
    BY <2>3, <2>4, <2>5, RunRegistryAssumption
  <2> QED
    BY <2>6 DEF Over
<1> QED
  BY <1>2, <1>3 DEF FinishedAreBounded

LEMMA NextBounded ==
  ASSUME RegistryInv, NumberInv, FinishedAreBounded, [Next]_vars
  PROVE  NumberInv' /\ FinishedAreBounded'
<1> DEFINE Over == {x \in runs : task[x] = "over"}
<1>1. CASE \E r \in Runs : Finalize(r)
  BY <1>1, FinalizeBounds
<1>2. CASE /\ \A x \in runs' : task'[x] = "over" => x \in runs /\ task[x] = "over"
           /\ UNCHANGED <<runs, number>> \/ \E r \in Runs : StartRun(r)
  <2>1. NumberInv'
    <3>1. CASE UNCHANGED <<runs, number>>
      BY <3>1 DEF NumberInv, Started
    <3>2. CASE \E r \in Runs : StartRun(r)
      BY <3>2, NumberStart DEF RegistryInv
    <3> QED
      BY <1>2, <3>1, <3>2
  <2>2. IsFiniteSet(Over)
    <3>1. Over \in SUBSET Runs
      BY DEF RegistryInv, TypeOK
    <3> QED
      BY <3>1, FS_Subset, RunRegistryAssumption
  <2>3. Over' \in SUBSET Over
    BY <1>2
  <2>4. IsFiniteSet(Over') /\ Cardinality(Over') <= Cardinality(Over)
    BY <2>2, <2>3, FS_Subset
  <2>5. Cardinality(Over') \in Nat /\ Cardinality(Over) \in Nat
    BY <2>2, <2>4, FS_CardinalityType
  <2>6. Retention > 0 => Cardinality(Over') <= Retention
    <3> HIDE DEF Over
    <3> QED
      BY <2>4, <2>5, RunRegistryAssumption DEF FinishedAreBounded, Over
  <2> QED
    BY <2>1, <2>6 DEF FinishedAreBounded
<1> QED
  BY <1>1, <1>2, OthersFinishNone

-----------------------------------------------------------------------------

\* A run whose task goes on is in the registry and among the background tasks, where
\* polls, cancels, decisions and the shutdown hook find it (runs.py, dependencies.py).
THEOREM LiveAreReachable == Spec => []LiveIsReachable
BY RegistryInvariant, PTL DEF RegistryInv

\* A client that polls never finds a run active whose task is over (_finalize_run),
\* until the process goes down.
THEOREM EndsAreSeen == Spec => []EndIsSeen
<1>1. RegistryInv => EndIsSeen
  BY DEF RegistryInv, SettledInv, EndIsSeen, TypeOK
<1> QED
  BY <1>1, RegistryInvariant, PTL

\* _cleanup_run forgets no run that goes on, and none before an older one it could
\* forget.
THEOREM OldestGo == Spec => OldestGoFirst
<1> DEFINE Fifo ==
      \A r \in runs \ runs' :
        /\ ~Running(r)
        /\ \A s \in runs' : number[s] < number[r] => Running(s)
<1>1. TypeOK /\ [Next]_vars => [Fifo]_vars
  <2> SUFFICES ASSUME TypeOK, [Next]_vars PROVE Fifo
    OBVIOUS
  <2>1. ASSUME NEW r \in Runs, Finalize(r) PROVE Fifo
    <3>1. runs' = runs \ Evicted
      BY <2>1 DEF Finalize
    <3> QED
      BY <3>1, EvictedAreIdle, EvictedAreOldest
  <2>2. CASE runs \subseteq runs'
    BY <2>2
  <2>3. runs \subseteq runs' \/ \E r \in Runs : Finalize(r)
    BY DEF Next, vars, registry, StartRun, Advances, Begin, Settle, Crash, Die, LateEmit,
           LateClose, Connect, Serves, Subscribe, StreamEnds, DropSlow, Leave, Exit, Closes,
           CancelAllRuns, ServerReturns, Stop
  <2> QED
    BY <2>1, <2>2, <2>3
<1>2. RegistryInv => TypeOK
  BY DEF RegistryInv
<1> QED
  BY <1>1, <1>2, RegistryInvariant, PTL DEF OldestGoFirst, Spec

\* However many runs end, in whatever order _finalize_run is called for them, those
\* that are over and kept are no more than run_retention.
THEOREM FinishedBounded == Spec => []FinishedAreBounded
<1>1. Init => NumberInv /\ FinishedAreBounded
  BY FS_EmptySet, RunRegistryAssumption
  DEF Init, NumberInv, Started, FinishedAreBounded
<1>2. RegistryInv /\ NumberInv /\ FinishedAreBounded /\ [Next]_vars
        => NumberInv' /\ FinishedAreBounded'
  BY NextBounded
<1> QED
  BY <1>1, <1>2, RegistryInvariant, PTL DEF Spec

=============================================================================
