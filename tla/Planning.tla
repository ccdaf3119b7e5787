-------------------------------- MODULE Planning --------------------------------
(***************************************************************************)
(* From a sentence to a run: the planner turns what a user wrote into a    *)
(* workflow and says which of its tools will be denied or asked about;     *)
(* the user starts a run of it; every call of the run is decided by the    *)
(* policy.  Policies are PUT at any time.                                  *)
(*                                                                         *)
(* The planner decides by the policy it read before it asked the model,    *)
(* and with no arguments; the run by the policy it found when it was       *)
(* started, and with the arguments of each call.                           *)
(***************************************************************************)
EXTENDS PolicyEngine, Sequences, FiniteSets

CONSTANTS
  Ids,        \* ids of policies
  SeedId,     \* the one the sidecar starts with
  Seed,       \* and its policy
  Bodies,     \* policies a client may PUT
  Workflows,
  Uses,       \* Uses[w]: the tools of the roles of its nodes
  Names,      \* Names[w]: the policy it names, or None
  Writing,    \* tools whose side effect is write or destructive
  Turns,
  Runs,
  ArgsOf,     \* what the arguments of a call may name
  MaxCalls,   \* bound: decisions of a run
  None

ASSUME PlanningAssumption ==
  /\ SeedId \in Ids
  /\ Seed \in Policies
  /\ Bodies \subseteq Policies
  /\ Uses \in [Workflows -> SUBSET Tools]
  /\ Names \in [Workflows -> Ids \cup {None}]
  /\ Writing \subseteq Tools
  /\ ArgsOf \subseteq SUBSET Things
  /\ MaxCalls \in Nat
  /\ None \notin Ids \cup Workflows

VARIABLES
  policies,   \* the dictionary
  first,      \* the first of its ids, in the order of insertion
  default,    \* default_policy_id
  workflows,  \* the workflows that are stored
  turn,       \* requests to the planner, and what was answered
  session,    \* the turns of the chat session, as they were appended
  run,        \* the runs' workflows and policies
  decided     \* what the policy has said of the calls of each run

chat == <<turn, session>>
vars == <<policies, first, default, workflows, chat, run, decided>>

\* The stages at which an answer of the model is refused.
Stages ==
  {"empty_content", "content_json", "content_json_block", "planner_output_schema",
   "workflow_yaml", "workflow_references"}

\* SYNTHETIC_FALLBACK_POLICY.
Fallback == [mode |-> "strict", rules |-> {}]

Has(id) == id \in DOMAIN policies

\* _default_policy of the chat route, which repeats the end of resolve_policy.
DefaultPolicy ==
  CASE Has(default) -> policies[default]
    [] ~Has(default) /\ first # None -> policies[first]
    [] OTHER -> Fallback

ResolvePolicy(w) ==
  CASE Has(Names[w]) -> policies[Names[w]]
    [] ~Has(Names[w]) /\ Has(default) -> policies[default]
    [] ~Has(Names[w]) /\ ~Has(default) /\ first # None -> policies[first]
    [] OTHER -> Fallback

\* The override of a request to start a run.
PolicyFor(w, override) == IF Has(override) THEN policies[override] ELSE ResolvePolicy(w)

\* _derive_expected_effects: a line for each tool of the workflow's roles, or none.
Expected(policy, w) ==
  [tool \in Uses[w] |->
     LET effect == Evaluate(policy, tool, {}, {}) IN
     CASE effect = "deny" -> "denied"
       [] effect = "ask" -> "approval"
       [] effect \notin {"deny", "ask"} /\ tool \in Writing -> "side_effect"
       [] OTHER -> "nothing"]

-----------------------------------------------------------------------------

\* The process starts with one policy, which is the default; an application that
\* is assembled without one has none.
Init ==
  /\ default \in {SeedId, None}
  /\ first = default
  /\ policies = [id \in {default} \ {None} |-> Seed]
  /\ workflows = {}
  /\ turn = [t \in Turns |->
       [pc |-> "unsent", attempt |-> 0, stage |-> None, policy |-> Fallback,
        plan |-> None, said |-> <<>>]]
  /\ session = <<>>
  /\ run = [r \in Runs |-> [workflow |-> None, policy |-> Fallback]]
  /\ decided = [r \in Runs |-> {}]

\* upsert_policy: a copy under the path's id; an entry that is there keeps its
\* place.
Put(id, body) ==
  /\ policies' = [i \in DOMAIN policies \cup {id} |-> IF i = id THEN body ELSE policies[i]]
  /\ first' = IF first = None THEN id ELSE first
  /\ UNCHANGED <<default, workflows, chat, run, decided>>

\* create_workflow, of a plan or of what was drawn in the editor.
CreateWorkflow(w) ==
  /\ workflows' = workflows \cup {w}
  /\ UNCHANGED <<policies, first, default, chat, run, decided>>

DeleteWorkflow(w) ==
  /\ w \in workflows
  /\ workflows' = workflows \ {w}
  /\ UNCHANGED <<policies, first, default, chat, run, decided>>

\* send_turn, up to the first answer of the model.
SendTurn(t) ==
  /\ turn[t].pc = "unsent"
  /\ turn' = [turn EXCEPT ![t].pc = "chat", ![t].policy = DefaultPolicy, ![t].attempt = 1]
  /\ UNCHANGED <<policies, first, default, workflows, session, run, decided>>

\* An answer with a workflow that parses and refers to what there is: the plan,
\* with what is expected of it, is appended to the session and returned.
Planned(t, w) ==
  /\ turn[t].pc = "chat"
  /\ turn' = [turn EXCEPT ![t].pc = "done", ![t].plan = w,
                          ![t].said = Expected(turn[t].policy, w)]
  /\ session' = Append(session, t)
  /\ UNCHANGED <<policies, first, default, workflows, run, decided>>

\* Slip: the model is asked for as long as it errs.
RefusedAgain(t, stage) ==
  /\ turn[t].pc = "chat"
  /\ turn' = [turn EXCEPT ![t].stage = stage, ![t].attempt = @ + 1]
  /\ UNCHANGED <<policies, first, default, workflows, session, run, decided>>

\* An answer that is refused: the model is told why and asked once more, or the
\* turn fails with the stage of the second.
Refused(t, stage) ==
  /\ turn[t].pc = "chat"
  /\ turn' = [turn EXCEPT ![t].stage = stage,
                          ![t].pc = IF turn[t].attempt = 1 THEN "chat" ELSE "failed",
                          ![t].attempt = 2]
  /\ UNCHANGED <<policies, first, default, workflows, session, run, decided>>

\* The provider fails: no second attempt, and no stage.
ChatFails(t) ==
  /\ turn[t].pc = "chat"
  /\ turn' = [turn EXCEPT ![t].pc = "failed", ![t].stage = None]
  /\ UNCHANGED <<policies, first, default, workflows, session, run, decided>>

\* start_run: the run keeps the policy object it found.
StartRun(r, w, override) ==
  /\ run[r].workflow = None
  /\ w \in workflows
  /\ run' = [run EXCEPT ![r] = [workflow |-> w, policy |-> PolicyFor(w, override)]]
  /\ UNCHANGED <<policies, first, default, workflows, chat, decided>>

\* A call of the run, also one that is made again after an approval: the runner
\* refuses a tool that is not its role's, ToolRuntime.invoke asks the policy, which
\* asks the file system where the paths lead.
Decide(r, tool, args) ==
  /\ run[r].workflow # None
  /\ tool \in Uses[run[r].workflow]
  /\ Cardinality(decided[r]) < MaxCalls
  /\ \E things \in Reached(args) :
       decided' = [decided EXCEPT ![r] = @ \cup
         {[tool |-> tool, args |-> args, things |-> things,
           effect |-> Evaluate(run[r].policy, tool, args, things)]}]
  /\ UNCHANGED <<policies, first, default, workflows, chat, run>>

Next ==
  \/ \E id \in Ids, body \in Bodies : Put(id, body)
  \/ \E w \in Workflows : CreateWorkflow(w) \/ DeleteWorkflow(w)
  \/ \E t \in Turns :
       \/ SendTurn(t) \/ ChatFails(t)
       \/ \E w \in Workflows : Planned(t, w)
       \/ \E stage \in Stages : Refused(t, stage)
  \/ \E r \in Runs :
       \/ \E w \in Workflows, override \in Ids \cup {None} : StartRun(r, w, override)
       \/ \E tool \in Tools, args \in ArgsOf : Decide(r, tool, args)

Spec == Init /\ [][Next]_vars

-----------------------------------------------------------------------------

Lines == {"denied", "approval", "side_effect", "nothing"}

\* What a turn may have said: nothing yet, or a line on each tool of a workflow.
Told == {<<>>} \cup UNION {[Uses[w] -> Lines] : w \in Workflows}

TurnRecords ==
  [pc : {"unsent", "chat", "done", "failed"}, attempt : 0 .. 2, stage : Stages \cup {None},
   policy : Policies, plan : Workflows \cup {None},
   said : Told]

TypeOK ==
  /\ DOMAIN policies \subseteq Ids /\ policies \in [DOMAIN policies -> Policies]
  /\ first \in Ids \cup {None}
  /\ default \in Ids \cup {None}
  /\ workflows \subseteq Workflows
  /\ turn \in [Turns -> TurnRecords]
  /\ session \in Seq(Turns)
  /\ run \in [Runs -> [workflow : Workflows \cup {None}, policy : Policies]]
  /\ decided \in [Runs -> SUBSET [tool : Tools, args : ArgsOf, things : SUBSET Things, effect : Effects]]

\* A rule about what the arguments name, or about where a path of theirs led, that
\* goes before every rule about the tool accounts for the decision.
ByArguments(policy, d) ==
  \E rule \in policy.rules :
    /\ rule.on \cap d.things # {}
    /\ rule.effect = d.effect
    /\ \A other \in policy.rules : d.tool \in other.on => rule.priority < other.priority

(***************************************************************************)
(* What the user was told of a plan is what the policy says when the plan  *)
(* runs: under the policy it was told of, a call is denied or asked about  *)
(* exactly when its tool was said to be, but for its arguments.  A rule    *)
(* about them may answer otherwise, in either direction; a system path     *)
(* that is named is denied whatever the rules.  Where the run has another  *)
(* policy than the preview nothing is promised.                            *)
(***************************************************************************)
PreviewHolds ==
  \A t \in Turns, r \in Runs : \A d \in decided[r] :
    /\ turn[t].pc = "done"
    /\ run[r].workflow = turn[t].plan
    /\ run[r].policy = turn[t].policy
    => IF d.args \cap SystemPaths # {} THEN d.effect = "deny"
       ELSE \/ /\ turn[t].said[d.tool] = "denied" <=> d.effect = "deny"
               /\ turn[t].said[d.tool] = "approval" <=> d.effect = "ask"
            \/ ByArguments(run[r].policy, d)

=============================================================================
