------------------------------ MODULE EditorStore ------------------------------
(***************************************************************************)
(* The workflow editor: the store behind its canvas, its YAML view, its    *)
(* toolbar and its node inspector, and the two requests it makes of the    *)
(* sidecar, which stores or checks a document.                             *)
(*                                                                         *)
(* Requests are answered while the user goes on editing.  Of a node the    *)
(* model keeps its id, whether it is flagged as the entrypoint, and all    *)
(* that is written to the document as its data; of an edge its ends and    *)
(* the number in its id.  The workflow's name and description are left     *)
(* out, and the condition of an edge, which no component lets the user     *)
(* write.  loadWorkflow is answered by this sidecar in a shape the store   *)
(* cannot read, and only says so.                                          *)
(***************************************************************************)
EXTENDS Integers, Sequences, FiniteSets, Functions

CONSTANTS
  Data,      \* what a node's role, label, position and overrides may be
  Texts,     \* documents a user may type
  MaxEdits,  \* bound: edits of the canvas
  MaxSaves,  \* bound: requests to save
  MaxValidations,  \* bound: validations at a time
  None

\* WorkflowDefinition: entry is None where the code has an empty string.
Documents ==
  [nodes : Seq([id : Nat, data : Data]), edges : Seq([from : Nat, to : Nat]),
   entry : Nat \cup {None}]

ASSUME EditorAssumption ==
  /\ {MaxEdits, MaxSaves, MaxValidations} \subseteq Nat
  /\ Texts \subseteq Documents
  /\ None \notin Documents

VARIABLES
  nodes, edges,
  dirty,
  workflowId,   \* the place in stored of what was saved last, or None
  nodeCounter,
  mode,         \* "visual" or "yaml"
  yamlText,
  saving,       \* the document that is being saved, or None
  validations,  \* the canvases that are being validated
  stored,       \* the documents of the sidecar, in the order they came
  undisturbed,  \* nothing but edits of a clean canvas since the last save began
  edits         \* how many there were

canvas == <<nodes, edges, nodeCounter>>
requests == <<saving, validations, stored, workflowId>>
view == <<mode, yamlText>>
editorVars == <<canvas, dirty, requests, view, undisturbed, edits>>

\* What a sequence has at these places, in their order.
Only(s, places) ==
  [k \in 1 .. Cardinality(places) |->
    s[CHOOSE i \in places : Cardinality({j \in places : j <= i}) = k]]

IdsOf(ns) == {n.id : n \in Range(ns)}
Joins(es, ids) == \A e \in Range(es) : {e.from, e.to} \subseteq ids

\* flowToWorkflow and workflowToYaml: the entrypoint is the first flagged node, else
\* the first.
Document(ns, es) ==
  [nodes |-> [i \in DOMAIN ns |-> [id |-> ns[i].id, data |-> ns[i].data]],
   edges |-> [i \in DOMAIN es |-> [from |-> es[i].from, to |-> es[i].to]],
   entry |-> LET flagged == Only(ns, {i \in DOMAIN ns : ns[i].entry}) IN
             IF ns = <<>> THEN None ELSE Head(flagged \o ns).id]

Drawn == Document(nodes, edges)

\* yamlToWorkflow and workflowToFlow.
NodesOf(doc) ==
  [i \in DOMAIN doc.nodes |->
     [id |-> doc.nodes[i].id, data |-> doc.nodes[i].data,
      entry |-> doc.nodes[i].id = doc.entry]]
EdgesOf(doc) ==
  [i \in DOMAIN doc.edges |->
     [from |-> doc.edges[i].from, to |-> doc.edges[i].to, number |-> i - 1]]

\* What the sidecar stores: ids are unique, edges and the entrypoint are of nodes, and
\* the graph has levels.
Acceptable(doc) ==
  LET ids == IdsOf(doc.nodes) IN
  /\ Cardinality(ids) = Len(doc.nodes)
  /\ doc.entry \in ids
  /\ Joins(doc.edges, ids)
  /\ \E level \in [ids -> 1 .. Cardinality(ids)] :
       \A e \in Range(doc.edges) : level[e.from] < level[e.to]

-----------------------------------------------------------------------------

EditorInit ==
  /\ nodes = <<>> /\ edges = <<>> /\ nodeCounter = 0
  /\ dirty = FALSE
  /\ workflowId = None
  /\ mode = "visual" /\ yamlText = None
  /\ saving = None /\ validations = {}
  /\ stored = <<>>
  /\ undisturbed = TRUE /\ edits = 0

\* An edit: dirty, and if a save is under way it will not hold it.
Edits ==
  /\ edits < MaxEdits
  /\ edits' = edits + 1
  /\ dirty' = TRUE
  /\ undisturbed' = (undisturbed /\ saving = None)

OnCanvas == mode = "visual"

AddNode(data) ==
  /\ OnCanvas /\ Edits
  /\ nodeCounter' = nodeCounter + 1
  /\ nodes' = Append(nodes, [id |-> nodeCounter + 1, data |-> data, entry |-> nodes = <<>>])
  /\ UNCHANGED <<edges, requests, view>>

\* removeNode of the menu and the inspector, and the Delete key on the canvas, where
\* React Flow reports the edges of the node first.
RemoveNode(id) ==
  /\ Edits
  /\ id \in IdsOf(nodes)
  /\ nodes' = Only(nodes, {i \in DOMAIN nodes : nodes[i].id # id})
  /\ edges' = Only(edges, {i \in DOMAIN edges : id \notin {edges[i].from, edges[i].to}})
  /\ UNCHANGED <<nodeCounter, requests, view>>

ConnectNodes(a, b) ==
  /\ OnCanvas /\ Edits
  /\ {a, b} \subseteq IdsOf(nodes)
  /\ edges' = Append(edges, [from |-> a, to |-> b, number |-> Len(edges)])
  /\ UNCHANGED <<nodes, nodeCounter, requests, view>>

\* Every edge of that id goes.
RemoveEdge(edge) ==
  /\ OnCanvas /\ Edits
  /\ edge \in Range(edges)
  /\ edges' = Only(edges, {i \in DOMAIN edges : edges[i] # edge})
  /\ UNCHANGED <<nodes, nodeCounter, requests, view>>

\* Slip: dirty is left as it is.
UpdateNodeQuietly(id, data) ==
  /\ edits < MaxEdits /\ edits' = edits + 1
  /\ id \in IdsOf(nodes)
  /\ nodes' = [i \in DOMAIN nodes |->
                 IF nodes[i].id = id THEN [nodes[i] EXCEPT !.data = data] ELSE nodes[i]]
  /\ UNCHANGED <<edges, nodeCounter, dirty, requests, view, undisturbed>>

\* updateNodeData of the inspector, or a move on the canvas.
UpdateNode(id, data) ==
  /\ Edits
  /\ id \in IdsOf(nodes)
  /\ nodes' = [i \in DOMAIN nodes |->
                 IF nodes[i].id = id THEN [nodes[i] EXCEPT !.data = data] ELSE nodes[i]]
  /\ UNCHANGED <<edges, nodeCounter, requests, view>>

\* The layout of the toolbar places every node anew.
AutoLayout ==
  /\ OnCanvas /\ Edits
  /\ \E places \in [DOMAIN nodes -> Data] :
       nodes' = [i \in DOMAIN nodes |-> [nodes[i] EXCEPT !.data = places[i]]]
  /\ UNCHANGED <<edges, nodeCounter, requests, view>>

SetEntrypoint(id) ==
  /\ Edits
  /\ id \in IdsOf(nodes)
  /\ nodes' = [i \in DOMAIN nodes |-> [nodes[i] EXCEPT !.entry = nodes[i].id = id]]
  /\ UNCHANGED <<edges, nodeCounter, requests, view>>

\* The toggle of the toolbar; to YAML it writes the document anew.
SetMode ==
  /\ mode' = IF mode = "visual" THEN "yaml" ELSE "visual"
  /\ yamlText' = IF mode = "visual" THEN Drawn ELSE yamlText
  /\ UNCHANGED <<canvas, dirty, requests, undisturbed, edits>>

\* syncFlowFromYaml, of the text shown or of another that was typed over it.
ApplyYaml(text) ==
  /\ mode = "yaml" /\ Edits
  /\ text # None
  /\ nodes' = NodesOf(text)
  /\ edges' = EdgesOf(text)
  /\ yamlText' = text
  /\ UNCHANGED <<nodeCounter, mode, requests>>

NewWorkflow ==
  /\ nodes' = <<>> /\ edges' = <<>> /\ nodeCounter' = 0
  /\ dirty' = FALSE
  /\ workflowId' = None
  /\ yamlText' = None
  /\ undisturbed' = (undisturbed /\ saving = None)
  /\ UNCHANGED <<mode, saving, validations, stored, edits>>

\* The button is disabled while a save is under way.
SaveWorkflow ==
  /\ saving = None
  /\ Len(stored) < MaxSaves
  /\ saving' = Drawn
  /\ undisturbed' = TRUE
  /\ UNCHANGED <<canvas, dirty, validations, stored, workflowId, view, edits>>

\* Without an id in the document every save stores another workflow.
Saved ==
  /\ saving # None
  /\ Acceptable(saving)
  /\ stored' = Append(stored, saving)
  /\ workflowId' = Len(stored) + 1
  /\ saving' = None
  /\ dirty' = FALSE
  /\ UNCHANGED <<canvas, validations, view, undisturbed, edits>>

\* The sidecar refuses the document or cannot be reached.
SaveFails ==
  /\ saving # None
  /\ saving' = None
  /\ undisturbed' = FALSE
  /\ UNCHANGED <<canvas, dirty, validations, stored, workflowId, view, edits>>

ValidateWorkflow ==
  /\ Cardinality(validations) < MaxValidations
  /\ validations' = validations \cup {[nodes |-> nodes, edges |-> edges]}
  /\ UNCHANGED <<canvas, dirty, saving, stored, workflowId, view, undisturbed, edits>>

\* Slip: only the nodes are marked.
ValidatedNodes(v) ==
  /\ v \in validations
  /\ Acceptable(Document(v.nodes, v.edges))
  /\ validations' = validations \ {v}
  /\ nodes' = v.nodes
  /\ undisturbed' = (undisturbed /\ nodes = v.nodes)
  /\ UNCHANGED <<edges, nodeCounter, dirty, saving, stored, workflowId, view, edits>>

\* The answer writes back the nodes and edges that were sent.
Validated(v) ==
  /\ v \in validations
  /\ Acceptable(Document(v.nodes, v.edges))
  /\ validations' = validations \ {v}
  /\ nodes' = v.nodes
  /\ edges' = v.edges
  /\ undisturbed' = (undisturbed /\ <<nodes, edges>> = <<v.nodes, v.edges>>)
  /\ UNCHANGED <<nodeCounter, dirty, saving, stored, workflowId, view, edits>>

ValidateFails(v) ==
  /\ v \in validations
  /\ validations' = validations \ {v}
  /\ UNCHANGED <<canvas, dirty, saving, stored, workflowId, view, undisturbed, edits>>

\* The inspector stays beside the YAML view, and can do to a node what the canvas can.
InspectNode ==
  \E id \in IdsOf(nodes) :
    \/ RemoveNode(id) \/ SetEntrypoint(id)
    \/ \E data \in Data : UpdateNode(id, data)

EditCanvas ==
  \/ \E data \in Data : AddNode(data)
  \/ \E a, b \in IdsOf(nodes) : ConnectNodes(a, b)
  \/ \E edge \in Range(edges) : RemoveEdge(edge)
  \/ AutoLayout

EditYaml == \E text \in Texts \cup {yamlText} : ApplyYaml(text)

Edit == InspectNode \/ EditCanvas \/ EditYaml

Answer ==
  \/ Saved \/ SaveFails
  \/ \E v \in validations : Validated(v) \/ ValidateFails(v)

EditorNext ==
  \/ Edit \/ SetMode \/ NewWorkflow
  \/ SaveWorkflow \/ ValidateWorkflow
  \/ Answer

EditorSpec == EditorInit /\ [][EditorNext]_editorVars

-----------------------------------------------------------------------------

\* Every edge joins nodes that are there, on the canvas and in what is being validated
\* or saved, whatever is deleted while the requests are under way.
EdgesHaveEnds ==
  /\ Joins(edges, IdsOf(nodes))
  /\ \A v \in validations : Joins(v.edges, IdsOf(v.nodes))
  /\ saving # None => Joins(saving.edges, IdsOf(saving.nodes))

\* Without the badge "Unsaved" the document the canvas stands for is what the sidecar
\* stores under the workflow's id, if nothing happened to the canvas while it was being
\* saved and no validation has brought back another since.  What a node has and its
\* document has not, the tools of the inspector, is in neither.
CleanIsSaved ==
  ~dirty /\ saving = None /\ workflowId # None /\ undisturbed => Drawn = stored[workflowId]

=============================================================================
