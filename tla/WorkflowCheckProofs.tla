--------------------------- MODULE WorkflowCheckProofs ---------------------------
(***************************************************************************)
(* Proofs about WorkflowCheck: the validator's verdict on the edges is     *)
(* right for every document, of any size and with any number of parallel   *)
(* edges.                                                                  *)
(***************************************************************************)
EXTENDS WorkflowCheck, FiniteSetTheorems, TLAPS

\* The edges into n whose source has not been taken yet.
Open(n) == {i \in Into(n) : edges[i][1] \notin Visited}

Checked == verdict \in {"kahn", "accepted", "cyclic"}

\* The queue and the order are used by Kahn's algorithm only, which runs on
\* well-formed documents.
StartInv ==
  /\ ~Checked => queue = {} /\ order = <<>>
  /\ Checked => WellFormed

\* An in-degree counts the open edges.
DegreeInv == Checked => \A n \in Ids : indegree[n] = Cardinality(Open(n))

\* The queue holds the nodes without open edges that have not been taken.
QueueInv ==
  /\ \A n \in queue : n \notin Visited /\ Open(n) = {}
  /\ Checked => \A n \in Ids : Open(n) = {} => n \in queue \cup Visited

\* No node is taken twice, and every edge into one comes from one taken before.
OrderInv ==
  /\ \A p, q \in DOMAIN order : order[p] = order[q] => p = q
  /\ \A p \in DOMAIN order : \A i \in DOMAIN edges : edges[i][2] = order[p] =>
       \E q \in DOMAIN order : q < p /\ order[q] = edges[i][1]

\* What the verdict was given for.
VerdictInv ==
  /\ verdict = "accepted" => Len(order) = Cardinality(Ids)
  /\ verdict = "cyclic" => queue = {} /\ Len(order) # Cardinality(Ids)

IInv == TypeOK /\ StartInv /\ DegreeInv /\ QueueInv /\ OrderInv /\ VerdictInv

-----------------------------------------------------------------------------
(* Facts about sets of edges and about the order *)

\* A document's ids, and the edges into and between them, are finitely many.
LEMMA Finite ==
  ASSUME TypeOK
  PROVE  /\ IsFiniteSet(Ids)
         /\ \A n : IsFiniteSet(Into(n)) /\ IsFiniteSet(Open(n))
         /\ \A m, n : IsFiniteSet(Between(m, n))
<1>1. IsFiniteSet(DOMAIN edges) /\ DOMAIN nodes = 1 .. Len(nodes) /\ IsFiniteSet(DOMAIN nodes)
  BY FS_Interval DEF TypeOK
<1>2. IsFiniteSet(Ids)
  <2>1. nodes \in Surjection(DOMAIN nodes, Ids)
    BY DEF Surjection, Ids, TypeOK
  <2> QED
    BY <1>1, <2>1, FS_Surjection
<1>3. \A n : Into(n) \subseteq DOMAIN edges /\ Open(n) \subseteq DOMAIN edges
  BY DEF Into, Open
<1>4. \A m, n : Between(m, n) \subseteq DOMAIN edges
  BY DEF Between
<1> QED
  BY <1>1, <1>2, <1>3, <1>4, FS_Subset

\* The ids of an order without repetition are as many as it is long.
LEMMA CountOrder ==
  ASSUME TypeOK, OrderInv
  PROVE  IsFiniteSet(Visited) /\ Cardinality(Visited) = Len(order) /\ Visited \subseteq Ids
<1>1. Len(order) \in Nat /\ DOMAIN order = 1 .. Len(order)
  BY DEF TypeOK
<1>2. IsFiniteSet(1 .. Len(order)) /\ Cardinality(1 .. Len(order)) = Len(order)
  <2>1. 1 \in Int /\ Len(order) \in Int /\ (1 > Len(order) => Len(order) = 0)
    BY <1>1
  <2>2. /\ IsFiniteSet(1 .. Len(order))
        /\ Cardinality(1 .. Len(order)) = IF 1 > Len(order) THEN 0 ELSE Len(order) - 1 + 1
    BY <2>1, FS_Interval, Zenon
  <2> QED
    BY <1>1, <2>1, <2>2
<1>3. order \in Surjection(1 .. Len(order), Visited)
  BY <1>1 DEF Surjection, Visited, TypeOK
<1>4. order \in Injection(1 .. Len(order), Visited)
  BY <1>1, <1>3 DEF Injection, IsInjective, Surjection, OrderInv
<1> QED
  BY <1>1, <1>2, <1>3, <1>4, FS_Surjection DEF Visited, TypeOK

-----------------------------------------------------------------------------
(* The steps *)

\* The initial states.
LEMMA InitInv == Init => IInv
<1> SUFFICES ASSUME Init PROVE IInv
  OBVIOUS
<1>1. TypeOK
  BY WorkflowCheckAssumption DEF Init, TypeOK
<1> QED
  BY <1>1 DEF Init, IInv, StartInv, DegreeInv, QueueInv, OrderInv, VerdictInv, Checked, WellFormed, Visited

\* Counting the edges: all of them are open.
LEMMA CountInv == ASSUME IInv, Count PROVE IInv'
<1> USE DEF IInv
<1>1. Ids' = Ids /\ Visited' = Visited /\ Visited = {} /\ order' = <<>>
  BY DEF Count, doc, Ids, Visited, StartInv, Checked
<1>2. \A n : Into(n)' = Into(n) /\ Open(n)' = Into(n)
  BY <1>1 DEF Count, doc, Into, Open
<1>3. \A n : IsFiniteSet(Into(n)) /\ Cardinality(Into(n)) \in Nat
  BY Finite, FS_CardinalityType
<1>4. TypeOK'
  BY <1>1, <1>3 DEF Count, doc, TypeOK
<1>5. StartInv'
  BY <1>1 DEF Count, doc, StartInv, Checked, WellFormed
<1>6. DegreeInv'
  BY <1>1, <1>2 DEF Count, DegreeInv
<1>7. QueueInv'
  BY <1>1, <1>2 DEF Count, QueueInv
<1>8. OrderInv' /\ VerdictInv'
  BY <1>1 DEF Count, OrderInv, VerdictInv
<1> QED
  BY <1>4, <1>5, <1>6, <1>7, <1>8

\* Taking a node closes the edges from it, and no others.
LEMMA TakeCloses ==
  ASSUME IInv, NEW n \in queue, Take(n)
  PROVE  /\ Ids' = Ids /\ n \in Ids /\ n \notin Visited
         /\ Visited' = Visited \cup {n}
         /\ \A s : /\ Between(n, s) \subseteq Open(s)
                   /\ Open(s)' = Open(s) \ Between(n, s)
                   /\ Into(s)' = Into(s)
         /\ \A s \in Ids : indegree'[s] = Cardinality(Open(s)')
<1> USE DEF IInv
<1>1. Ids' = Ids /\ n \in Ids /\ n \notin Visited /\ edges' = edges
  BY DEF Take, doc, Ids, TypeOK, QueueInv
<1>2. Visited' = Visited \cup {n}
  <2>1. order \in Seq(Ids) /\ order' = Append(order, n)
    BY DEF Take, TypeOK
  <2>2. /\ DOMAIN order' = DOMAIN order \cup {Len(order) + 1}
        /\ order'[Len(order) + 1] = n
        /\ \A p \in DOMAIN order : order'[p] = order[p]
    BY <1>1, <2>1
  <2> QED
    BY <2>2 DEF Visited
<1>3. \A i \in DOMAIN edges : edges[i] \in STRING \X STRING /\ edges[i] = <<edges[i][1], edges[i][2]>>
  BY DEF TypeOK
<1>4. ASSUME NEW s
      PROVE  /\ Between(n, s) = {i \in Into(s) : edges[i][1] = n}
             /\ Into(s)' = Into(s)
  BY <1>1, <1>3 DEF Between, Into
<1>5. ASSUME NEW s
      PROVE  /\ Between(n, s) \subseteq Open(s)
             /\ Open(s)' = Open(s) \ Between(n, s)
  BY <1>1, <1>2, <1>4 DEF Open
<1>6. ASSUME NEW s \in Ids PROVE indegree'[s] = Cardinality(Open(s)')
  <2>1. indegree[s] = Cardinality(Open(s))
    BY DEF DegreeInv, Take, Checked
  <2>2. Open(s) \cap Between(n, s) = Between(n, s) /\ IsFiniteSet(Open(s))
    BY <1>5, Finite
  <2>3. Cardinality(Open(s) \ Between(n, s)) = Cardinality(Open(s)) - Cardinality(Between(n, s))
    BY <2>2, FS_Difference
  <2>4. indegree'[s] = indegree[s] - Cardinality(Between(n, s))
    BY DEF Take
  <2> QED
    BY <1>5, <2>1, <2>3, <2>4
<1> QED
  BY <1>1, <1>2, <1>4, <1>5, <1>6

\* The nodes that become ready are those whose last open edges are closed, and
\* were neither queued nor taken before.
LEMMA ReadyIsNew ==
  ASSUME IInv, NEW n \in queue, Take(n)
  PROVE  /\ \A s \in Ids : s \in Ready(n) <=> Open(s) # {} /\ Open(s)' = {}
         /\ Ready(n) \subseteq Ids
         /\ Ready(n) \cap (queue \cup Visited \cup {n}) = {}
<1> USE DEF IInv
<1>1. ASSUME NEW s \in Ids
      PROVE  s \in Ready(n) <=> Open(s) # {} /\ Open(s)' = {}
  <2>1. /\ Open(s)' = Open(s) \ Between(n, s)
        /\ Between(n, s) \subseteq Open(s)
        /\ indegree'[s] = Cardinality(Open(s)')
        /\ indegree'[s] = indegree[s] - Cardinality(Between(n, s))
    BY TakeCloses DEF Take
  <2>2. IsFiniteSet(Open(s)')
    BY <2>1, Finite, FS_Subset
  <2>3. Cardinality(Open(s)') = 0 <=> Open(s)' = {}
    BY <2>2, FS_EmptySet
  <2> QED
    BY <2>1, <2>3 DEF Ready
<1>2. \A s \in queue : Open(s) = {}
  BY DEF QueueInv
<1>3. \A s \in Visited : Open(s) = {}
  <2> SUFFICES ASSUME NEW p \in DOMAIN order, NEW i \in DOMAIN edges,
                      edges[i][2] = order[p], edges[i][1] \notin Visited
               PROVE  FALSE
    BY DEF Visited, Open, Into
  <2> QED
    BY DEF OrderInv, Visited
<1>4. Ready(n) \subseteq Ids
  BY DEF Ready
<1> QED
  BY <1>1, <1>2, <1>3, <1>4

\* Taking a node keeps the invariant.
LEMMA TakeInv == ASSUME IInv, NEW n \in queue, Take(n) PROVE IInv'
<1> USE DEF IInv
<1>1. /\ Ids' = Ids /\ n \in Ids /\ n \notin Visited
      /\ Visited' = Visited \cup {n}
      /\ \A s : Into(s)' = Into(s) /\ Open(s)' = Open(s) \ Between(n, s)
      /\ \A s \in Ids : indegree'[s] = Cardinality(Open(s)')
  BY TakeCloses
<1>2. /\ \A s \in Ids : s \in Ready(n) <=> Open(s) # {} /\ Open(s)' = {}
      /\ Ready(n) \subseteq Ids
      /\ Ready(n) \cap (queue \cup Visited \cup {n}) = {}
  BY ReadyIsNew
<1>3. order \in Seq(Ids) /\ order' = Append(order, n) /\ verdict = "kahn" /\ verdict' = verdict
  BY DEF Take, TypeOK
<1>4. /\ DOMAIN order' = DOMAIN order \cup {Len(order) + 1}
      /\ order'[Len(order) + 1] = n
      /\ \A p \in DOMAIN order : order'[p] = order[p] /\ p < Len(order) + 1 /\ p \in Nat
      /\ order' \in Seq(Ids)
  BY <1>1, <1>3
<1>5. TypeOK'
  <2>1. \A s \in Ids : Cardinality(Open(s)') \in Nat
    <3> TAKE s \in Ids
    <3>1. IsFiniteSet(Open(s)')
      BY <1>1, Finite, FS_Subset
    <3> QED
      BY <3>1, FS_CardinalityType
  <2>2. indegree' \in [Ids -> Nat]
    BY <1>1, <2>1 DEF Take
  <2>3. queue' \subseteq Ids
    BY <1>1, <1>2 DEF Take, TypeOK
  <2> QED
    BY <1>1, <1>4, <2>2, <2>3 DEF Take, doc, TypeOK
<1>6. StartInv'
  BY <1>1, <1>3 DEF Take, doc, StartInv, Checked, WellFormed
<1>7. DegreeInv'
  BY <1>1 DEF DegreeInv
<1>8. QueueInv'
  <2>1. \A s \in queue' : s \notin Visited' /\ Open(s)' = {}
    <3> TAKE s \in queue'
    <3>1. CASE s \in Ready(n)
      BY <1>1, <1>2, <3>1
    <3>2. CASE s \in queue \ {n}
      BY <1>1, <3>2 DEF QueueInv
    <3> QED
      BY <3>1, <3>2 DEF Take
  <2>2. ASSUME NEW s \in Ids, Open(s)' = {} PROVE s \in queue' \cup Visited'
    <3>1. CASE Open(s) = {}
      <4>1. s \in queue \cup Visited
        BY <1>3, <3>1 DEF QueueInv, Checked
      <4> QED
        BY <1>1, <4>1 DEF Take
    <3>2. CASE Open(s) # {}
      BY <1>2, <2>2, <3>2 DEF Take
    <3> QED
      BY <3>1, <3>2
  <2> QED
    BY <1>1, <2>1, <2>2 DEF QueueInv
<1>9. OrderInv'
  <2>1. \A p, q \in DOMAIN order' : order'[p] = order'[q] => p = q
    <3>1. \A p \in DOMAIN order : order[p] # n
      BY <1>1 DEF Visited
    <3> QED
      BY <1>4, <3>1 DEF OrderInv
  <2>2. ASSUME NEW p \in DOMAIN order', NEW i \in DOMAIN edges', edges'[i][2] = order'[p]
        PROVE  \E q \in DOMAIN order' : q < p /\ order'[q] = edges'[i][1]
    <3>0. edges' = edges
      BY DEF Take, doc
    <3>1. CASE p = Len(order) + 1
      <4>1. Open(n) = {} /\ i \in Into(n)
        BY <1>1, <1>4, <2>2, <3>0, <3>1 DEF QueueInv, Into
      <4>2. edges[i][1] \in Visited
        BY <4>1 DEF Open
      <4>3. PICK q \in DOMAIN order : order[q] = edges[i][1]
        BY <4>2 DEF Visited
      <4> QED
        BY <1>4, <3>0, <3>1, <4>3
    <3>2. CASE p \in DOMAIN order
      <4>1. PICK q \in DOMAIN order : q < p /\ order[q] = edges[i][1]
        BY <1>1, <1>4, <2>2, <3>0, <3>2 DEF OrderInv
      <4> QED
        BY <1>4, <3>0, <4>1
    <3> QED
      BY <1>4, <3>1, <3>2
  <2> QED
    BY <2>1, <2>2 DEF OrderInv
<1>10. VerdictInv'
  BY <1>3 DEF VerdictInv
<1> QED
  BY <1>5, <1>6, <1>7, <1>8, <1>9, <1>10

\* Every step keeps the invariant.
LEMMA StepInv == IInv /\ [Next]_vars => IInv'
<1> SUFFICES ASSUME IInv, [Next]_vars PROVE IInv'
  OBVIOUS
<1> USE DEF IInv
<1>1. CASE Count
  BY <1>1, CountInv
<1>2. ASSUME NEW n \in queue, Take(n) PROVE IInv'
  BY <1>2, TakeInv
<1>3. ASSUME UNCHANGED <<doc, indegree, queue, order>>
      PROVE  /\ Ids' = Ids /\ Visited' = Visited /\ WellFormed' = WellFormed
             /\ \A n : Into(n)' = Into(n) /\ Open(n)' = Open(n)
  BY <1>3 DEF doc, Ids, Visited, WellFormed, Into, Open
<1>4. CASE Refuse
  BY <1>3, <1>4 DEF Refuse, doc, TypeOK, StartInv, DegreeInv, QueueInv, OrderInv, VerdictInv, Checked
<1>5. CASE Conclude
  BY <1>3, <1>5 DEF Conclude, doc, TypeOK, StartInv, DegreeInv, QueueInv, OrderInv, VerdictInv, Checked
<1>6. CASE UNCHANGED vars
  BY <1>3, <1>6 DEF vars, doc, TypeOK, StartInv, DegreeInv, QueueInv, OrderInv, VerdictInv, Checked
<1> QED
  BY <1>1, <1>2, <1>4, <1>5, <1>6 DEF Next

\* The invariant.
LEMMA Invariant == Spec => []IInv
  BY InitInv, StepInv, PTL DEF Spec

-----------------------------------------------------------------------------
(* The theorems *)

\* Every variable keeps its type, for documents of any size.
THEOREM TypeCorrect == Spec => []TypeOK
  BY Invariant, PTL DEF IInv

\* An accepted workflow has no cycle: it was visited in an order that has every
\* node once and in which every edge leads forward.
THEOREM AcceptedOnlyIfAcyclic == Spec => []AcceptedIsAcyclic
<1>1. ASSUME IInv, verdict = "accepted"
      PROVE  \A n \in Ids : \E p \in DOMAIN order : order[p] = n
  <2>1. IsFiniteSet(Ids) /\ Visited \subseteq Ids /\ Cardinality(Visited) = Cardinality(Ids)
    BY <1>1, Finite, CountOrder DEF IInv, VerdictInv
  <2>2. Visited = Ids
    BY <2>1, FS_Subset
  <2> QED
    BY <2>2 DEF Visited
<1>2. ASSUME IInv, NEW i \in DOMAIN edges, NEW p \in DOMAIN order, NEW q \in DOMAIN order,
             edges[i] = <<order[p], order[q]>>
      PROVE  p < q
  <2>1. edges[i][2] = order[q]
    BY <1>2
  <2>2. PICK r \in DOMAIN order : r < q /\ order[r] = order[p]
    BY <1>2, <2>1 DEF IInv, OrderInv
  <2> QED
    BY <1>2, <2>2 DEF IInv, OrderInv
<1>3. IInv => AcceptedIsAcyclic
  BY <1>1, <1>2 DEF AcceptedIsAcyclic, IInv, OrderInv
<1> QED
  BY <1>3, Invariant, PTL

\* A workflow refused as cyclic has a cycle: the nodes that were not visited each
\* have a predecessor among them.
THEOREM RefusedOnlyIfCyclic == Spec => []RefusedIsCyclic
<1>1. ASSUME IInv, verdict = "cyclic" PROVE RefusedIsCyclic
  <2> DEFINE S == Ids \ Visited
  <2>1. S # {}
    <3>1. Len(order) # Cardinality(Ids)
      BY <1>1 DEF IInv, VerdictInv
    <3>2. Cardinality(Visited) = Len(order) /\ Visited \subseteq Ids
      BY <1>1, CountOrder DEF IInv
    <3>3. Visited # Ids
      BY <3>1, <3>2
    <3> QED
      BY <3>2, <3>3
  <2>2. ASSUME NEW n \in S PROVE \E i \in DOMAIN edges : edges[i][1] \in S /\ edges[i][2] = n
    <3>1. Open(n) # {}
      BY <1>1 DEF IInv, QueueInv, VerdictInv, Checked
    <3>2. PICK i \in DOMAIN edges : edges[i][2] = n /\ edges[i][1] \notin Visited
      BY <3>1 DEF Open, Into
    <3>3. edges[i][1] \in Ids
      BY <1>1, <3>2 DEF IInv, StartInv, Checked, WellFormed
    <3> QED
      BY <3>2, <3>3
  <2> QED
    BY <2>1, <2>2 DEF RefusedIsCyclic
<1>2. IInv => RefusedIsCyclic
  BY <1>1 DEF RefusedIsCyclic
<1> QED
  BY <1>2, Invariant, PTL

\* No node enters Kahn's queue twice, whatever edges are repeated.
THEOREM NodesQueuedOnce == Spec => QueuedOnce
<1>1. IInv /\ [Next]_vars =>
        [\A n \in queue : Take(n) => Ready(n) \cap (queue \cup Visited) = {}]_vars
  BY ReadyIsNew
<1> QED
  BY <1>1, Invariant, PTL DEF Spec, QueuedOnce

=============================================================================
