------------------------------ MODULE WorkflowCheck ------------------------------
(***************************************************************************)
(* Workflow._validate_graph: what a workflow document must satisfy before  *)
(* it can be stored, shown to the user by the planner, or run.  The last   *)
(* part is Kahn's algorithm, one action for each node it takes from its    *)
(* queue, with the successors it relaxes.                                  *)
(*                                                                         *)
(* A document is its list of node ids, its entrypoint and its list of      *)
(* edges, pairs of ids.  Ids may be repeated, and so may edges: nothing    *)
(* refuses a workflow with two edges, of different conditions, between the *)
(* same nodes.                                                             *)
(***************************************************************************)
EXTENDS Integers, Sequences, FiniteSets

CONSTANTS
  NodeLists,  \* the lists of node ids a document may have
  EdgeLists,  \* the lists of edges
  Entries     \* the entrypoints

ASSUME WorkflowCheckAssumption ==
  /\ \A nl \in NodeLists : nl \in Seq(STRING)
  /\ \A el \in EdgeLists : el \in Seq(STRING \X STRING)
  /\ Entries \subseteq STRING

VARIABLES
  nodes, edges, entry,  \* the document
  verdict,   \* what the validator has said
  indegree,
  queue,     \* the nodes in Kahn's queue
  order      \* the nodes it has taken from it, of which the code keeps the number

doc == <<nodes, edges, entry>>
vars == <<doc, verdict, indegree, queue, order>>

Ids == {nodes[i] : i \in DOMAIN nodes}
Visited == {order[i] : i \in DOMAIN order}

Into(n) == {i \in DOMAIN edges : edges[i][2] = n}
Between(m, n) == {i \in DOMAIN edges : edges[i] = <<m, n>>}

-----------------------------------------------------------------------------

Init ==
  /\ nodes \in NodeLists
  /\ edges \in EdgeLists
  /\ entry \in Entries
  /\ verdict = "none"
  /\ indegree = [n \in Ids |-> 0]
  /\ queue = {}
  /\ order = <<>>

\* _collect_unique_node_ids, the entrypoint, _validate_edges.
WellFormed ==
  /\ nodes # <<>>
  /\ Cardinality(Ids) = Len(nodes)
  /\ entry \in Ids
  /\ \A i \in DOMAIN edges :
       edges[i][1] \in Ids /\ edges[i][2] \in Ids /\ edges[i][1] # edges[i][2]

Refuse ==
  /\ verdict = "none"
  /\ ~WellFormed
  /\ verdict' = "malformed"
  /\ UNCHANGED <<doc, indegree, queue, order>>

\* Slip: parallel edges are counted once.
CountOnce ==
  /\ verdict = "none"
  /\ WellFormed
  /\ verdict' = "kahn"
  /\ indegree' = [n \in Ids |-> Cardinality({edges[i][1] : i \in Into(n)})]
  /\ queue' = {n \in Ids : Into(n) = {}}
  /\ UNCHANGED <<doc, order>>

\* The in-degrees, each edge counted, and the nodes that have none.
Count ==
  /\ verdict = "none"
  /\ WellFormed
  /\ verdict' = "kahn"
  /\ indegree' = [n \in Ids |-> Cardinality(Into(n))]
  /\ queue' = {n \in Ids : Into(n) = {}}
  /\ UNCHANGED <<doc, order>>

\* The successors of n whose last open edge comes from n.
Ready(n) ==
  {s \in Ids : Between(n, s) # {} /\ indegree[s] - Cardinality(Between(n, s)) = 0}

\* A node is taken from the queue, whichever: the list's order is that of a set
\* to begin with.  Its successors are relaxed.
Take(n) ==
  /\ verdict = "kahn"
  /\ n \in queue
  /\ order' = Append(order, n)
  /\ indegree' = [s \in Ids |-> indegree[s] - Cardinality(Between(n, s))]
  /\ queue' = (queue \ {n}) \cup Ready(n)
  /\ UNCHANGED <<doc, verdict>>

\* Slip: the queue being empty is enough.
ConcludeEmpty ==
  /\ verdict = "kahn"
  /\ queue = {}
  /\ verdict' = "accepted"
  /\ UNCHANGED <<doc, indegree, queue, order>>

\* The queue is empty: have all nodes been visited?
Conclude ==
  /\ verdict = "kahn"
  /\ queue = {}
  /\ verdict' = IF Len(order) = Cardinality(Ids) THEN "accepted" ELSE "cyclic"
  /\ UNCHANGED <<doc, indegree, queue, order>>

Next == Refuse \/ Count \/ (\E n \in queue : Take(n)) \/ Conclude

Spec == Init /\ [][Next]_vars

-----------------------------------------------------------------------------

TypeOK ==
  /\ nodes \in Seq(STRING)
  /\ edges \in Seq(STRING \X STRING)
  /\ entry \in STRING
  /\ verdict \in {"none", "malformed", "kahn", "accepted", "cyclic"}
  /\ indegree \in [Ids -> Nat]
  /\ queue \subseteq Ids
  /\ order \in Seq(Ids)

\* The order in which an accepted workflow was visited shows that it has no
\* cycle: it has every node once, and every edge leads forward in it.
AcceptedIsAcyclic ==
  verdict = "accepted" =>
    /\ \A n \in Ids : \E p \in DOMAIN order : order[p] = n
    /\ \A p, q \in DOMAIN order : order[p] = order[q] => p = q
    /\ \A i \in DOMAIN edges : \A p, q \in DOMAIN order :
         edges[i] = <<order[p], order[q]>> => p < q

\* A workflow refused as cyclic has a cycle: nodes each of which has a
\* predecessor among them.  No workflow that could be run is refused.
RefusedIsCyclic ==
  verdict = "cyclic" =>
    \E S \in SUBSET Ids :
      /\ S # {}
      /\ \A n \in S : \E i \in DOMAIN edges : edges[i][1] \in S /\ edges[i][2] = n

\* No node enters the queue twice, however many edges lead to it, so that the
\* number of nodes taken from it is the number of nodes visited.
QueuedOnce ==
  [][\A n \in queue : Take(n) => Ready(n) \cap (queue \cup Visited) = {}]_vars

=============================================================================
