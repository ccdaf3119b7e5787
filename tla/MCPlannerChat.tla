----------------------------- MODULE MCPlannerChat -----------------------------
(***************************************************************************)
(* The instance of PlannerChat's run: a tool that writes and one that      *)
(* reads, a path of the system and one of the user, and two policies in    *)
(* which rules about tools and about paths overrule each other, one way in *)
(* each.                                                                   *)
(***************************************************************************)
EXTENDS PlannerChat

Rule(p, on, effect) == [priority |-> p, on |-> on, effect |-> effect]

\* Everything is asked about, and nothing written, but in the user's folder.
Relaxing ==
  [mode |-> "ask", rules |-> {Rule(1, {"home"}, "allow"), Rule(2, {"write"}, "deny")}]

\* Tools are allowed, and so would be the system's files; the rule about the user's
\* folder comes too late.
Tightening ==
  [mode |-> "strict", rules |-> {Rule(0, {"etc"}, "allow"), Rule(1, {"write", "read"}, "allow"),
                                 Rule(3, {"home"}, "dry_run_only")}]

MCUses == [w \in {"plain", "named"} |-> IF w = "plain" THEN {"write", "read"} ELSE {"write"}]
MCNames == [w \in {"plain", "named"} |-> IF w = "plain" THEN None ELSE "mine"]
MCArgs == {{}, {"home"}, {"home", "etc"}}
MCBodies == {Relaxing}

=============================================================================
