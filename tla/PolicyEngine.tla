------------------------------ MODULE PolicyEngine ------------------------------
(***************************************************************************)
(* PolicyEngine.evaluate, what the sidecar asks before it runs a tool, and *)
(* what the planner and the simulator ask to say what it would answer.     *)
(*                                                                         *)
(* A call is a tool and the things its arguments name: paths, a command,   *)
(* hosts, an action.  A rule of scope tool_id is about tools, any other    *)
(* about such things, and its matcher is the set it matches, so that       *)
(* what a rule is "on" tells its scope: a glob or regular expression that  *)
(* matches nothing the call has, or a scope the call gives no input,       *)
(* is an empty intersection.                                               *)
(*                                                                         *)
(* A path leads somewhere: it is matched as it was named and as it         *)
(* resolves on the file system, which is asked at every evaluation, so     *)
(* that the same call may match other rules the next time.  The system's   *)
(* paths are compared as they were named only.                             *)
(***************************************************************************)
EXTENDS Integers

CONSTANTS
  Tools,
  Things,      \* what arguments name
  Paths,       \* those of them that are paths
  SystemPaths  \* those below DEFAULT_DENY_PATHS

ASSUME PolicyEngineAssumption ==
  /\ Tools \cap Things = {}
  /\ Paths \subseteq Things
  /\ SystemPaths \subseteq Paths

Modes == {"strict", "ask", "trusted"}
Effects == {"allow", "deny", "ask", "dry_run_only"}

Rules == [priority : Nat, on : SUBSET Tools \cup SUBSET Things, effect : Effects]

\* What the validator of a Policy lets pass.
Policies ==
  {p \in [mode : Modes, rules : SUBSET Rules] :
     \A r, q \in p.rules : r.priority = q.priority => r = q}

\* What arguments may reach: what they name, and where each of their paths leads
\* when the file system is asked, itself if it is no link.
Reached(args) ==
  {args \cup {leads[p] : p \in args \cap Paths} : leads \in [args \cap Paths -> Paths]}

\* matches_rule; any path and any host will do.
Matches(rule, tool, things) == rule.on \cap ({tool} \cup things) # {}

Candidates(policy, tool, things) == {r \in policy.rules : Matches(r, tool, things)}

FirstOf(candidates) ==
  CHOOSE r \in candidates : \A q \in candidates : r.priority <= q.priority

DefaultEffect(mode) ==
  CASE mode = "strict"  -> "deny"
    [] mode = "trusted" -> "allow"
    [] mode = "ask"     -> "ask"

\* Slip: the user's rules come before the system's.
EvaluateRulesFirst(policy, tool, args, things) ==
  LET candidates == Candidates(policy, tool, things) IN
  IF candidates # {} THEN FirstOf(candidates).effect
  ELSE IF args \cap SystemPaths # {} THEN "deny"
  ELSE DefaultEffect(policy.mode)

\* Of a call whose arguments are args and reach things, one of Reached(args).
Evaluate(policy, tool, args, things) ==
  LET candidates == Candidates(policy, tool, things) IN
  IF args \cap SystemPaths # {} THEN "deny"
  ELSE IF candidates # {} THEN FirstOf(candidates).effect
  ELSE DefaultEffect(policy.mode)

=============================================================================
