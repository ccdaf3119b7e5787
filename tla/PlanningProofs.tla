----------------------------- MODULE PlanningProofs -----------------------------
(***************************************************************************)
(* Proofs about the policy engine and Planning, for any policies, tools,   *)
(* workflows and arguments, and about PlannerChat: with the adapter under  *)
(* it the planner does what Planning says, and the two loops are bounded   *)
(* together, for any number of turns and any max_retries.                  *)
(***************************************************************************)
EXTENDS PlannerChat, WellFoundedInduction, TLAPS

\* What a turn said is what the policy it read says of each tool without arguments.
SaidInv ==
  \A t \in Turns : turn[t].pc = "done" =>
    turn[t].plan \in Workflows /\ turn[t].said = Expected(turn[t].policy, turn[t].plan)

\* What was decided of a call is what the run's policy says of it.
DecidedInv ==
  \A r \in Runs : \A d \in decided[r] :
    /\ run[r].workflow \in Workflows
    /\ d.tool \in Uses[run[r].workflow]
    /\ d.effect = Evaluate(run[r].policy, d.tool, d.args, d.things)

IInv == TypeOK /\ SaidInv /\ DecidedInv

-----------------------------------------------------------------------------
(* The policy engine *)

\* Rules that match have one that goes first.
LEMMA FirstExists ==
  ASSUME NEW candidates \in SUBSET Rules, candidates # {}
  PROVE  /\ FirstOf(candidates) \in candidates
         /\ \A q \in candidates : FirstOf(candidates).priority <= q.priority
<1> DEFINE P == {r.priority : r \in candidates}
<1>1. P \subseteq Nat /\ P # {}
  BY DEF Rules
<1>2. PICK p \in P : \A q \in P : ~(<<q, p>> \in OpToRel(<, Nat))
  BY <1>1, NatLessThanWellFounded, WFMin
<1>3. \A q \in P : ~(q < p)
  BY <1>1, <1>2 DEF OpToRel
<1>4. \A q \in P : p <= q
  BY <1>1, <1>3
<1>5. PICK r \in candidates : r.priority = p
  OBVIOUS
<1>6. \A q \in candidates : r.priority <= q.priority
  BY <1>4, <1>5
<1> QED
  BY <1>6 DEF FirstOf

\* evaluate answers with an effect.
LEMMA EvaluateAnswers ==
  ASSUME NEW p \in Policies, NEW tool, NEW args, NEW things
  PROVE  Evaluate(p, tool, args, things) \in Effects
<1>1. CASE Candidates(p, tool, things) # {}
  <2>1. Candidates(p, tool, things) \in SUBSET Rules
    BY DEF Candidates, Policies
  <2>2. FirstOf(Candidates(p, tool, things)) \in Rules
    BY <1>1, <2>1, FirstExists
  <2>3. FirstOf(Candidates(p, tool, things)).effect \in Effects
    BY <2>2 DEF Rules
  <2> QED
    BY <1>1, <2>3 DEF Evaluate, Effects
<1>2. CASE Candidates(p, tool, things) = {}
  <2>1. p.mode \in Modes
    BY DEF Policies
  <2> QED
    BY <1>2, <2>1 DEF Evaluate, Effects, DefaultEffect, Modes
<1> QED
  BY <1>1, <1>2

\* A call that is answered otherwise than its tool alone, and touches no system
\* path, has a rule about what its arguments reach, of that effect, before every
\* rule about the tool.
LEMMA ArgumentsAccount ==
  ASSUME NEW p \in Policies, NEW tool \in Tools, NEW args \in SUBSET Things,
         NEW things \in SUBSET Things,
         args \cap SystemPaths = {},
         Evaluate(p, tool, args, things) # Evaluate(p, tool, {}, {})
  PROVE  \E rule \in p.rules :
           /\ rule.on \cap things # {}
           /\ rule.effect = Evaluate(p, tool, args, things)
           /\ \A other \in p.rules : tool \in other.on => rule.priority < other.priority
<1> DEFINE C == Candidates(p, tool, things)
           B == Candidates(p, tool, {})
           first_ == FirstOf(C)
<1>1. /\ B = {r \in p.rules : tool \in r.on}
      /\ C = {r \in p.rules : tool \in r.on \/ r.on \cap things # {}}
      /\ B \subseteq C /\ C \subseteq Rules
  BY DEF Candidates, Matches, Policies
<1>2. C # {}
  <2>1. SUFFICES ASSUME C = {} PROVE FALSE
    OBVIOUS
  <2>2. B = {}
    BY <1>1, <2>1
  <2> QED
    BY <2>1, <2>2 DEF Evaluate
<1>3. /\ first_ \in C
      /\ \A q \in C : first_.priority <= q.priority
  BY <1>1, <1>2, FirstExists
<1>4. Evaluate(p, tool, args, things) = first_.effect
  BY <1>2 DEF Evaluate
<1>5. first_ \notin B
  <2>1. SUFFICES ASSUME first_ \in B PROVE FALSE
    OBVIOUS
  <2>2. /\ FirstOf(B) \in B
        /\ \A q \in B : FirstOf(B).priority <= q.priority
    BY <1>1, <2>1, FirstExists
  <2>3. first_.priority \in Nat /\ FirstOf(B).priority \in Nat
    BY <1>1, <1>3, <2>2 DEF Rules
  <2>4. first_.priority = FirstOf(B).priority
    BY <1>1, <1>3, <2>1, <2>2, <2>3
  <2>5. first_ = FirstOf(B)
    BY <1>1, <2>1, <2>2, <2>4 DEF Policies
  <2>6. Evaluate(p, tool, {}, {}) = FirstOf(B).effect
    BY <2>1 DEF Evaluate
  <2> QED
    BY <1>4, <2>5, <2>6
<1>6. ASSUME NEW other \in p.rules, tool \in other.on
      PROVE  first_.priority < other.priority
  <2>1. other \in B /\ other \in C
    BY <1>1, <1>6
  <2>2. first_.priority # other.priority
    BY <1>1, <1>3, <1>5, <2>1 DEF Policies
  <2>3. first_.priority \in Nat /\ other.priority \in Nat
    BY <1>1, <1>3, <2>1 DEF Rules
  <2> QED
    BY <1>3, <2>1, <2>2, <2>3
<1>7. first_ \in p.rules /\ first_.on \cap things # {}
  BY <1>1, <1>3, <1>5
<1> QED
  BY <1>4, <1>6, <1>7

-----------------------------------------------------------------------------
(* What the code chooses and says has its type *)

LEMMA ChosenIsPolicy ==
  ASSUME TypeOK, PlanningAssumption, first = None \/ Has(first)
  PROVE  /\ DefaultPolicy \in Policies
         /\ \A w \in Workflows, id \in Ids \cup {None} : PolicyFor(w, id) \in Policies
<1>1. Fallback \in Policies
  BY DEF Fallback, Policies, Modes
<1>2. \A id : Has(id) => policies[id] \in Policies
  BY DEF Has, TypeOK
<1>3. DefaultPolicy \in Policies
  BY <1>1, <1>2 DEF DefaultPolicy
<1>4. \A w \in Workflows : ResolvePolicy(w) \in Policies
  BY <1>1, <1>2 DEF ResolvePolicy
<1> QED
  BY <1>2, <1>3, <1>4 DEF PolicyFor

LEMMA ChangeAttempt ==
  ASSUME NEW x \in TurnRecords, NEW a \in 0 .. 2
  PROVE  [x EXCEPT !.attempt = a] \in TurnRecords
BY DEF TurnRecords

LEMMA ExpectedIsSaid ==
  ASSUME NEW p \in Policies, NEW w \in Workflows
  PROVE  Expected(p, w) \in Told
<1>1. Expected(p, w) \in [Uses[w] -> Lines]
  BY DEF Expected, Lines
<1> QED
  BY <1>1 DEF Told

-----------------------------------------------------------------------------
(* The invariant *)

\* The first id of the dictionary is in it.
FirstInv == first = None \/ Has(first)

Inv == IInv /\ FirstInv

LEMMA InitInv == Init => Inv
<1> SUFFICES ASSUME Init PROVE Inv
  OBVIOUS
<1> USE PlanningAssumption DEF PlanningAssumption
<1>1. Fallback \in Policies
  BY DEF Fallback, Policies, Modes
<1>2. TypeOK
  <2>1. turn \in [Turns -> TurnRecords]
    BY <1>1 DEF Init, TurnRecords, Told
  <2>2. run \in [Runs -> [workflow : Workflows \cup {None}, policy : Policies]]
    BY <1>1 DEF Init
  <2>3. DOMAIN policies \subseteq Ids /\ policies \in [DOMAIN policies -> Policies]
    BY DEF Init
  <2> QED
    BY <2>1, <2>2, <2>3 DEF Init, TypeOK
<1>3. SaidInv /\ DecidedInv
  BY DEF Init, SaidInv, DecidedInv
<1>4. FirstInv
  BY DEF Init, FirstInv, Has
<1> QED
  BY <1>2, <1>3, <1>4 DEF Inv, IInv

\* A step of a turn is one of its record, and leaves the runs alone.
LEMMA TurnStep ==
  ASSUME Inv, NEW t \in Turns, NEW new \in TurnRecords,
         new.pc = "done" => new.plan \in Workflows /\ new.said = Expected(new.policy, new.plan),
         turn' = [turn EXCEPT ![t] = new], session' \in Seq(Turns),
         UNCHANGED <<policies, first, default, workflows, run, decided>>
  PROVE  Inv'
<1>1. TypeOK'
  BY DEF Inv, IInv, TypeOK
<1>2. SaidInv'
  BY DEF Inv, IInv, SaidInv, TypeOK, Expected
<1>3. DecidedInv' /\ FirstInv'
  BY DEF Inv, IInv, DecidedInv, FirstInv, Has
<1> QED
  BY <1>1, <1>2, <1>3 DEF Inv, IInv

LEMMA NextInv == Inv /\ [Next]_vars => Inv'
<1> SUFFICES ASSUME Inv, [Next]_vars PROVE Inv'
  OBVIOUS
<1> USE PlanningAssumption
<1>0. TypeOK /\ SaidInv /\ DecidedInv /\ FirstInv
  BY DEF Inv, IInv
<1>1. ASSUME NEW id \in Ids, NEW body \in Bodies, Put(id, body) PROVE Inv'
  <2>1. TypeOK'
    <3>1. DOMAIN policies' = DOMAIN policies \cup {id}
      BY <1>1 DEF Put
    <3>2. policies' \in [DOMAIN policies' -> Policies]
      BY <1>0, <1>1, <3>1 DEF Put, TypeOK, PlanningAssumption
    <3> QED
      BY <1>0, <1>1, <3>1, <3>2 DEF Put, TypeOK, chat
  <2>2. SaidInv' /\ DecidedInv'
    BY <1>0, <1>1 DEF Put, SaidInv, DecidedInv, chat
  <2>3. FirstInv'
    BY <1>0, <1>1 DEF Put, FirstInv, Has
  <2> QED
    BY <2>1, <2>2, <2>3 DEF Inv, IInv
<1>2. ASSUME NEW w \in Workflows, CreateWorkflow(w) \/ DeleteWorkflow(w) PROVE Inv'
  <2>1. TypeOK'
    BY <1>0, <1>2 DEF CreateWorkflow, DeleteWorkflow, TypeOK, chat
  <2>2. SaidInv' /\ DecidedInv' /\ FirstInv'
    BY <1>0, <1>2 DEF CreateWorkflow, DeleteWorkflow, SaidInv, DecidedInv, FirstInv, Has, chat
  <2> QED
    BY <2>1, <2>2 DEF Inv, IInv
<1>3. ASSUME NEW t \in Turns, SendTurn(t) PROVE Inv'
  <2> DEFINE new == [turn[t] EXCEPT !.pc = "chat", !.policy = DefaultPolicy, !.attempt = 1]
  <2>1. DefaultPolicy \in Policies
    BY <1>0, ChosenIsPolicy DEF FirstInv
  <2>2. new \in TurnRecords /\ new.pc = "chat"
    <3>1. turn[t] \in TurnRecords
      BY <1>0 DEF TypeOK
    <3>2. [turn[t] EXCEPT !.pc = "chat"] \in TurnRecords
      BY <3>1 DEF TurnRecords
    <3>3. [turn[t] EXCEPT !.pc = "chat", !.policy = DefaultPolicy] \in TurnRecords
      BY <2>1, <3>2 DEF TurnRecords
    <3> DEFINE old == [turn[t] EXCEPT !.pc = "chat", !.policy = DefaultPolicy]
    <3>5. 1 \in 0 .. 2 /\ old \in TurnRecords /\ new = [old EXCEPT !.attempt = 1] /\ new.pc = "chat"
      BY <3>1, <3>3 DEF TurnRecords
    <3> HIDE DEF old, new
    <3> QED
      BY <3>5, ChangeAttempt
  <2>3. turn' = [turn EXCEPT ![t] = new]
    BY <1>0, <1>3 DEF SendTurn, TypeOK
  <2>4. /\ session' \in Seq(Turns)
        /\ UNCHANGED <<policies, first, default, workflows, run, decided>>
    BY <1>0, <1>3 DEF SendTurn, TypeOK
  <2> HIDE DEF new
  <2> QED
    BY <2>2, <2>3, <2>4, TurnStep
<1>4. ASSUME NEW t \in Turns, NEW w \in Workflows, Planned(t, w) PROVE Inv'
  <2> DEFINE new == [turn[t] EXCEPT !.pc = "done", !.plan = w,
                                    !.said = Expected(turn[t].policy, w)]
  <2>1. turn[t] \in TurnRecords /\ turn[t].policy \in Policies
    BY <1>0 DEF TypeOK, TurnRecords
  <2>2. Expected(turn[t].policy, w) \in Told
    BY <2>1, ExpectedIsSaid
  <2>3. /\ new \in TurnRecords
        /\ new.plan = w /\ new.policy = turn[t].policy
        /\ new.said = Expected(turn[t].policy, w)
    BY <2>1, <2>2 DEF TurnRecords
  <2>4. turn' = [turn EXCEPT ![t] = new]
    BY <1>0, <1>4 DEF Planned, TypeOK
  <2>5. /\ session' \in Seq(Turns)
        /\ UNCHANGED <<policies, first, default, workflows, run, decided>>
    BY <1>0, <1>4 DEF Planned, TypeOK
  <2> HIDE DEF new
  <2> QED
    BY <2>3, <2>4, <2>5, TurnStep
<1>5. ASSUME NEW t \in Turns, NEW stage \in Stages, Refused(t, stage) PROVE Inv'
  <2> DEFINE pc == IF turn[t].attempt = 1 THEN "chat" ELSE "failed"
             new == [turn[t] EXCEPT !.stage = stage, !.pc = pc, !.attempt = 2]
  <2>1. new \in TurnRecords /\ new.pc # "done"
    <3>1. turn[t] \in TurnRecords
      BY <1>0 DEF TypeOK
    <3>2. [turn[t] EXCEPT !.stage = stage, !.pc = pc] \in TurnRecords
      BY <3>1 DEF TurnRecords
    <3> DEFINE old == [turn[t] EXCEPT !.stage = stage, !.pc = pc]
    <3>3. 2 \in 0 .. 2 /\ old \in TurnRecords /\ new = [old EXCEPT !.attempt = 2] /\ new.pc # "done"
      BY <3>1, <3>2 DEF TurnRecords
    <3> HIDE DEF old, new
    <3> QED
      BY <3>3, ChangeAttempt
  <2>2. turn' = [turn EXCEPT ![t] = new]
    BY <1>0, <1>5 DEF Refused, TypeOK
  <2>3. /\ session' \in Seq(Turns)
        /\ UNCHANGED <<policies, first, default, workflows, run, decided>>
    BY <1>0, <1>5 DEF Refused, TypeOK
  <2> HIDE DEF new
  <2> QED
    BY <2>1, <2>2, <2>3, TurnStep
<1>6. ASSUME NEW t \in Turns, ChatFails(t) PROVE Inv'
  <2> DEFINE new == [turn[t] EXCEPT !.pc = "failed", !.stage = None]
  <2>1. new \in TurnRecords /\ new.pc # "done"
    <3>1. turn[t] \in TurnRecords
      BY <1>0 DEF TypeOK
    <3> QED
      BY <3>1 DEF TurnRecords
  <2>2. turn' = [turn EXCEPT ![t] = new]
    BY <1>0, <1>6 DEF ChatFails, TypeOK
  <2>3. /\ session' \in Seq(Turns)
        /\ UNCHANGED <<policies, first, default, workflows, run, decided>>
    BY <1>0, <1>6 DEF ChatFails, TypeOK
  <2> HIDE DEF new
  <2> QED
    BY <2>1, <2>2, <2>3, TurnStep
<1>7. ASSUME NEW r \in Runs, NEW w \in Workflows, NEW id \in Ids \cup {None}, StartRun(r, w, id)
      PROVE  Inv'
  <2>1. PolicyFor(w, id) \in Policies
    BY <1>0, ChosenIsPolicy DEF FirstInv
  <2>2. decided[r] = {}
    BY <1>0, <1>7 DEF StartRun, DecidedInv, PlanningAssumption
  <2>3. TypeOK'
    BY <1>0, <1>7, <2>1 DEF StartRun, TypeOK, chat
  <2>4. DecidedInv'
    BY <1>0, <1>7, <2>2 DEF StartRun, DecidedInv, TypeOK
  <2>5. SaidInv' /\ FirstInv'
    BY <1>0, <1>7 DEF StartRun, SaidInv, FirstInv, Has, chat
  <2> QED
    BY <2>3, <2>4, <2>5 DEF Inv, IInv
<1>8. ASSUME NEW r \in Runs, NEW tool \in Tools, NEW args \in ArgsOf, Decide(r, tool, args)
      PROVE  Inv'
  <2>0. PICK things \in Reached(args) :
          decided' = [decided EXCEPT ![r] = @ \cup
            {[tool |-> tool, args |-> args, things |-> things,
              effect |-> Evaluate(run[r].policy, tool, args, things)]}]
    BY <1>8 DEF Decide
  <2> DEFINE d == [tool |-> tool, args |-> args, things |-> things,
                   effect |-> Evaluate(run[r].policy, tool, args, things)]
  <2>1. run[r].policy \in Policies /\ run[r].workflow \in Workflows
    BY <1>0, <1>8 DEF Decide, TypeOK
  <2>2. d \in [tool : Tools, args : ArgsOf, things : SUBSET Things, effect : Effects]
    <3>1. things \in SUBSET Things
      BY PolicyEngineAssumption DEF Reached, PolicyEngineAssumption, PlanningAssumption
    <3> QED
      BY <2>1, <3>1, EvaluateAnswers
  <2>3. decided' = [decided EXCEPT ![r] = @ \cup {d}]
    BY <2>0
  <2>4. TypeOK'
    BY <1>0, <1>8, <2>2, <2>3 DEF Decide, TypeOK, chat
  <2>5. DecidedInv'
    <3>1. tool \in Uses[run[r].workflow] /\ run' = run
      BY <1>8 DEF Decide
    <3> QED
      BY <1>0, <2>1, <2>3, <3>1 DEF DecidedInv, TypeOK
  <2>6. SaidInv' /\ FirstInv'
    BY <1>0, <1>8 DEF Decide, SaidInv, FirstInv, Has, chat
  <2> QED
    BY <2>4, <2>5, <2>6 DEF Inv, IInv
<1>9. ASSUME UNCHANGED vars PROVE Inv'
  BY <1>0, <1>9 DEF vars, chat, Inv, IInv, TypeOK, SaidInv, DecidedInv, FirstInv, Has
<1> QED
  BY <1>1, <1>2, <1>3, <1>4, <1>5, <1>6, <1>7, <1>8, <1>9 DEF Next

LEMMA Invariant == Spec => []Inv
BY InitInv, NextInv, PTL DEF Spec

-----------------------------------------------------------------------------

\* Every variable keeps its type.
THEOREM TypeCorrect == Spec => []TypeOK
<1>1. Inv => TypeOK
  BY DEF Inv, IInv
<1> QED
  BY <1>1, Invariant, PTL

\* What the user was told of a plan holds in its run, but for arguments, under the
\* policy it was told of.
THEOREM PreviewsHold == Spec => []PreviewHolds
<1>1. ASSUME Inv, NEW t \in Turns, NEW r \in Runs, NEW d \in decided[r],
             turn[t].pc = "done", run[r].workflow = turn[t].plan, run[r].policy = turn[t].policy
      PROVE  IF d.args \cap SystemPaths # {} THEN d.effect = "deny"
             ELSE \/ /\ turn[t].said[d.tool] = "denied" <=> d.effect = "deny"
                     /\ turn[t].said[d.tool] = "approval" <=> d.effect = "ask"
                  \/ ByArguments(run[r].policy, d)
  <2> DEFINE p == run[r].policy
  <2>1. /\ d.effect = Evaluate(p, d.tool, d.args, d.things)
        /\ d.tool \in Uses[turn[t].plan]
        /\ turn[t].said = Expected(p, turn[t].plan)
    BY <1>1 DEF Inv, IInv, DecidedInv, SaidInv
  <2>2. /\ p \in Policies /\ d.tool \in Tools
        /\ d.args \in SUBSET Things /\ d.things \in SUBSET Things
    BY <1>1, PlanningAssumption DEF Inv, IInv, TypeOK, PlanningAssumption
  <2>3. CASE d.args \cap SystemPaths # {}
    BY <2>1, <2>3 DEF Evaluate
  <2>4. CASE /\ d.args \cap SystemPaths = {}
             /\ Evaluate(p, d.tool, d.args, d.things) # Evaluate(p, d.tool, {}, {})
    <3>1. ByArguments(p, d)
      BY <2>1, <2>2, <2>4, ArgumentsAccount DEF ByArguments
    <3> QED
      BY <2>4, <3>1
  <2>5. CASE /\ d.args \cap SystemPaths = {}
             /\ Evaluate(p, d.tool, d.args, d.things) = Evaluate(p, d.tool, {}, {})
    <3>1. turn[t].said[d.tool] =
            (CASE d.effect = "deny" -> "denied"
               [] d.effect = "ask" -> "approval"
               [] d.effect \notin {"deny", "ask"} /\ d.tool \in Writing -> "side_effect"
               [] OTHER -> "nothing")
      BY <2>1, <2>5 DEF Expected
    <3> QED
      BY <2>5, <3>1
  <2> QED
    BY <2>3, <2>4, <2>5
<1>2. Inv => PreviewHolds
  BY <1>1 DEF PreviewHolds
<1> QED
  BY <1>2, Invariant, PTL

-----------------------------------------------------------------------------
(* The planner with its adapter *)

PostRecords ==
  [pc : {"none", "headers", "posted", "pausing"}, attempt : 0 .. MaxRetries - 1,
   error : {None} \cup ErrorCodes, last : {None} \cup Causes \cup Stages]

\* The posts of the planner's attempts before this one.
Earlier(t) == IF turn[t].attempt = 2 THEN MaxRetries ELSE 0

\* What a turn has posted, by where it is.
CountInv(t) ==
  /\ turn[t].pc = "unsent" => made[t] = 0
  /\ turn[t].pc = "chat" =>
       /\ turn[t].attempt \in {1, 2}
       /\ post[t].pc # "none"
       /\ post[t].error = None
       /\ post[t].pc = "headers" => post[t].attempt = 0 /\ made[t] <= Earlier(t)
       /\ post[t].pc # "headers" => made[t] <= Earlier(t) + post[t].attempt + 1
       /\ post[t].pc = "pausing" => post[t].attempt + 1 < MaxRetries
  /\ turn[t].pc # "chat" => post[t].pc = "none"
  /\ turn[t].pc \in {"done", "failed"} => made[t] <= 2 * MaxRetries
  /\ turn[t].pc = "failed" =>
       /\ \/ /\ turn[t].stage = post[t].last /\ post[t].last \in Stages
             /\ post[t].error = None
          \/ /\ turn[t].stage = None /\ post[t].last \in Causes
             /\ post[t].error \in ErrorCodes
             /\ post[t].error = "orca.unknown" <=> post[t].last \in Misshapen
       /\ post[t].error \in {ErrorOf(c) : c \in Passing} => post[t].attempt = MaxRetries - 1

ChatInv ==
  /\ post \in [Turns -> PostRecords]
  /\ made \in [Turns -> Nat]
  /\ \A t \in Turns : CountInv(t)

-----------------------------------------------------------------------------

\* Every step of the planner with its adapter is one of Planning, or one it does
\* not see.
LEMMA StepImplements == [ChatNext]_chatVars => [Next]_vars
<1> SUFFICES ASSUME [ChatNext]_chatVars PROVE [Next]_vars
  OBVIOUS
<1>1. CASE UNCHANGED chatVars
  BY <1>1 DEF chatVars
<1>2. CASE Others
  BY <1>2 DEF Others, Next
<1>3. CASE \E t \in Turns : Send(t)
  BY <1>3 DEF Send, Next
<1>4. ASSUME NEW t \in Turns, Advances(t) PROVE [Next]_vars
  BY <1>4 DEF Advances, NoSecret, Post, Pauses, Raises, Succeeds, Disappoints, Next
<1> QED
  BY <1>1, <1>2, <1>3, <1>4 DEF ChatNext

\* The planner with its adapter implements Planning (planner.py and chat.py do not
\* see how often the adapter posts).
THEOREM ImplementsPlanning == ChatSpec => Spec
<1>1. ChatInit => Init
  BY DEF ChatInit
<1> QED
  BY <1>1, StepImplements, PTL DEF ChatSpec, Spec

-----------------------------------------------------------------------------

LEMMA InitChat == ChatInit => ChatInv
BY PlannerChatAssumption DEF ChatInit, ChatInv, Init, CountInv, PostRecords, Unposted

\* A step of one turn and its posts, which keeps the others'.
LEMMA OneTurn ==
  ASSUME TypeOK, ChatInv, NEW t \in Turns, NEW x, NEW y \in PostRecords, NEW n \in Nat,
         turn' = [turn EXCEPT ![t] = x], post' = [post EXCEPT ![t] = y],
         made' = [made EXCEPT ![t] = n], CountInv(t)'
  PROVE  ChatInv'
<1>1. post' \in [Turns -> PostRecords] /\ made' \in [Turns -> Nat]
  BY DEF ChatInv
<1>2. ASSUME NEW u \in Turns, u # t PROVE CountInv(u)'
  <2>1. turn'[u] = turn[u] /\ post'[u] = post[u] /\ made'[u] = made[u]
    BY <1>2 DEF TypeOK, ChatInv
  <2> QED
    BY <2>1 DEF ChatInv, CountInv, Earlier
<1> QED
  BY <1>1, <1>2 DEF ChatInv

\* The codes of failures in passing are theirs alone, and so is that of answers of
\* another shape.
LEMMA CodesTell ==
  ASSUME NEW cause \in Causes
  PROVE  /\ ErrorOf(cause) \in {ErrorOf(c) : c \in Passing} => cause \in Passing
         /\ ErrorOf(cause) = "orca.unknown" <=> cause \in Misshapen
BY DEF ErrorOf, Causes, Passing, Final, Misshapen

\* chat raises: the turn fails with the code of what it raises.
LEMMA ChatRaises ==
  ASSUME TypeOK, ChatInv, NEW t \in Turns, ChatFails(t), NEW cause \in Causes,
         post' = [post EXCEPT ![t].pc = "none", ![t].error = ErrorOf(cause), ![t].last = cause],
         made' = made,
         cause \in Passing => post[t].attempt = MaxRetries - 1
  PROVE  ChatInv'
<1> USE PlannerChatAssumption
<1> DEFINE e == ErrorOf(cause)
           x == [turn[t] EXCEPT !.pc = "failed", !.stage = None]
           z == [post[t] EXCEPT !.pc = "none"]
           v == [z EXCEPT !.error = e]
           y == [v EXCEPT !.last = cause]
<1>0. /\ e \in ErrorCodes
      /\ e = "orca.unknown" <=> cause \in Misshapen
      /\ e \in {ErrorOf(c) : c \in Passing} => post[t].attempt = MaxRetries - 1
  BY CodesTell DEF ErrorCodes
<1>1. /\ turn[t] \in TurnRecords /\ post[t] \in PostRecords
      /\ made[t] \in Nat /\ CountInv(t)
  BY DEF TypeOK, ChatInv
<1>2. /\ z \in PostRecords /\ z.pc = "none" /\ z.attempt = post[t].attempt
  BY <1>1 DEF PostRecords
<1>3. /\ y \in PostRecords /\ y.pc = "none" /\ y.attempt = post[t].attempt
      /\ y.error = e /\ y.last = cause
  <2> HIDE DEF e, z
  <2>1. /\ v \in PostRecords /\ v.pc = "none" /\ v.attempt = post[t].attempt /\ v.error = e
    BY <1>0, <1>2 DEF PostRecords
  <2> HIDE DEF v
  <2> QED
    BY <2>1 DEF PostRecords
<1>4. x.pc = "failed" /\ x.stage = None
  BY <1>1 DEF TurnRecords
<1>5. turn' = [turn EXCEPT ![t] = x] /\ turn[t].pc = "chat"
  BY <1>1 DEF ChatFails
<1>6. post' = [post EXCEPT ![t] = y]
  BY DEF ChatInv
<1>7. made' = [made EXCEPT ![t] = made[t]]
  BY DEF ChatInv
<1>8. made[t] <= 2 * MaxRetries
  <2>1. post[t].attempt \in 0 .. MaxRetries - 1
    BY <1>1 DEF PostRecords
  <2>2. made[t] <= Earlier(t) + MaxRetries
    BY <1>1, <1>5, <2>1 DEF CountInv, Earlier
  <2> QED
    BY <1>1, <2>2 DEF Earlier
<1>9. turn'[t] = x /\ post'[t] = y /\ made'[t] = made[t]
  BY <1>5, <1>6, <1>7 DEF TypeOK, ChatInv
<1>10. CountInv(t)'
  <2> HIDE DEF e, x, y
  <2> QED
    BY <1>0, <1>3, <1>4, <1>8, <1>9 DEF CountInv
<1> QED
  BY <1>1, <1>3, <1>5, <1>6, <1>7, <1>10, OneTurn

LEMMA NextChat == TypeOK /\ ChatInv /\ [ChatNext]_chatVars => ChatInv'
<1> SUFFICES ASSUME TypeOK, ChatInv, [ChatNext]_chatVars PROVE ChatInv'
  OBVIOUS
<1> USE PlannerChatAssumption
<1>0. /\ turn \in [Turns -> TurnRecords]
      /\ post \in [Turns -> PostRecords]
      /\ made \in [Turns -> Nat]
      /\ \A t \in Turns : CountInv(t)
  BY DEF TypeOK, ChatInv
<1>1. CASE UNCHANGED chatVars
  BY <1>0, <1>1 DEF chatVars, vars, chat, ChatInv, CountInv, Earlier
<1>2. CASE Others
  <2>1. UNCHANGED <<turn, post, made>>
    BY <1>2 DEF Others, Put, CreateWorkflow, DeleteWorkflow, StartRun, Decide, chat
  <2> QED
    BY <1>0, <2>1 DEF ChatInv, CountInv, Earlier
<1>3. ASSUME NEW t \in Turns, Send(t) PROVE ChatInv'
  <2> DEFINE x == [turn[t] EXCEPT !.pc = "chat", !.policy = DefaultPolicy, !.attempt = 1]
             y == [Unposted EXCEPT !.pc = "headers"]
  <2>1. /\ turn' = [turn EXCEPT ![t] = x]
        /\ post' = [post EXCEPT ![t] = y]
        /\ made' = [made EXCEPT ![t] = made[t]]
        /\ turn[t].pc = "unsent"
    BY <1>0, <1>3 DEF Send, SendTurn, CallChat
  <2>2. y \in PostRecords /\ y.pc = "headers" /\ y.attempt = 0 /\ y.error = None
    BY DEF PostRecords, Unposted
  <2>3. x.pc = "chat" /\ x.attempt = 1
    BY <1>0 DEF TurnRecords
  <2>4. turn'[t] = x /\ post'[t] = y /\ made'[t] = 0
    BY <1>0, <2>1 DEF CountInv
  <2>5. CountInv(t)'
    BY <2>2, <2>3, <2>4 DEF CountInv, Earlier
  <2> QED
    BY <1>0, <2>1, <2>2, <2>5, OneTurn
<1>4. ASSUME NEW t \in Turns, NoSecret(t) PROVE ChatInv'
  <2>1. "no_secret" \in Causes /\ "no_secret" \notin Passing
    BY DEF Causes, Passing
  <2> QED
    BY <1>4, <2>1, ChatRaises DEF NoSecret
<1>5. ASSUME NEW t \in Turns, NEW cause \in Causes \ {"no_secret"}, Raises(t, cause)
      PROVE  ChatInv'
  <2>3. post[t].attempt \in 0 .. MaxRetries - 1
    BY <1>0 DEF PostRecords
  <2>4. cause \in Passing => post[t].attempt = MaxRetries - 1
    BY <1>5, <2>3 DEF Raises
  <2> QED
    BY <1>5, <2>4, ChatRaises DEF Raises
<1>6. ASSUME NEW t \in Turns, Post(t) \/ Pauses(t) PROVE ChatInv'
  <2>1. UNCHANGED turn
    BY <1>6 DEF Post, Pauses, vars, chat
  <2>2. turn' = [turn EXCEPT ![t] = turn[t]] /\ turn'[t] = turn[t]
    BY <1>0, <2>1
  <2>3. turn[t].pc = "chat"
    BY <1>0, <1>6 DEF Post, Pauses, Posting, CountInv
  <2>4. post[t] \in PostRecords /\ made[t] \in Nat /\ turn[t].attempt \in {1, 2} /\ CountInv(t)
    BY <1>0, <2>3 DEF CountInv
  <2>5. post[t].attempt \in 0 .. MaxRetries - 1
    BY <2>4 DEF PostRecords
  <2>6. CASE Post(t)
    <3> DEFINE z == [post[t] EXCEPT !.pc = "posted"]
               a == IF post[t].pc = "pausing" THEN post[t].attempt + 1 ELSE post[t].attempt
               y == [z EXCEPT !.attempt = a]
    <3>1. a \in 0 .. MaxRetries - 1
      BY <1>0, <2>3, <2>5 DEF CountInv
    <3>2. z \in PostRecords /\ z.pc = "posted" /\ z.error = post[t].error
      BY <2>4 DEF PostRecords
    <3>3. y \in PostRecords /\ y.pc = "posted" /\ y.attempt = a /\ y.error = post[t].error
      <4> HIDE DEF a
      <4> QED
        BY <3>1, <3>2 DEF PostRecords
    <3>4. post' = [post EXCEPT ![t] = y] /\ post'[t] = y
      BY <1>0, <2>6 DEF Post
    <3>5. made' = [made EXCEPT ![t] = made[t] + 1] /\ made'[t] = made[t] + 1
      BY <1>0, <2>6 DEF Post
    <3>6. made[t] + 1 <= Earlier(t) + a + 1
      BY <2>3, <2>4, <2>5, <2>6 DEF Post, CountInv, Earlier
    <3>7. CountInv(t)'
      <4> HIDE DEF a, y
      <4> QED
        BY <2>2, <2>3, <2>4, <3>1, <3>3, <3>4, <3>5, <3>6 DEF CountInv, Earlier
    <3>8. made[t] + 1 \in Nat
      BY <2>4
    <3> HIDE DEF y
    <3> QED
      BY <2>2, <3>3, <3>4, <3>5, <3>7, <3>8, OneTurn
  <2>7. CASE Pauses(t)
    <3> DEFINE y == [post[t] EXCEPT !.pc = "pausing"]
    <3>1. y \in PostRecords /\ y.pc = "pausing" /\ y.attempt = post[t].attempt
          /\ y.error = post[t].error
      BY <2>4 DEF PostRecords
    <3>2. post' = [post EXCEPT ![t] = y] /\ post'[t] = y
      BY <1>0, <2>7 DEF Pauses
    <3>3. made' = [made EXCEPT ![t] = made[t]] /\ made'[t] = made[t]
      BY <1>0, <2>7 DEF Pauses
    <3>4. CountInv(t)'
      <4> HIDE DEF y
      <4> QED
        BY <2>2, <2>3, <2>4, <2>5, <2>7, <3>1, <3>2, <3>3 DEF CountInv, Earlier, Pauses, Posting
    <3> QED
      BY <2>2, <2>4, <3>1, <3>2, <3>3, <3>4, OneTurn
  <2> QED
    BY <1>6, <2>6, <2>7
<1>7. ASSUME NEW t \in Turns, NEW w \in Workflows, Succeeds(t, w) PROVE ChatInv'
  <2> DEFINE x == [turn[t] EXCEPT !.pc = "done", !.plan = w, !.said = Expected(turn[t].policy, w)]
  <2>1. /\ turn' = [turn EXCEPT ![t] = x] /\ turn'[t] = x
        /\ post' = [post EXCEPT ![t] = Unposted] /\ post'[t] = Unposted
        /\ made' = [made EXCEPT ![t] = made[t]] /\ made'[t] = made[t]
        /\ turn[t].pc = "chat" /\ post[t].pc = "posted"
    BY <1>0, <1>7 DEF Succeeds, Planned, Posting
  <2>2. x.pc = "done"
    BY <1>0 DEF TurnRecords
  <2>3. Unposted \in PostRecords /\ Unposted.pc = "none"
    BY DEF Unposted, PostRecords
  <2>4. made[t] <= 2 * MaxRetries
    <3>1. post[t].attempt \in 0 .. MaxRetries - 1
      BY <1>0 DEF PostRecords
    <3> QED
      BY <1>0, <2>1, <3>1 DEF CountInv, Earlier
  <2>5. CountInv(t)'
    <3> HIDE DEF x
    <3> QED
      BY <2>1, <2>2, <2>3, <2>4 DEF CountInv
  <2> QED
    BY <1>0, <2>1, <2>3, <2>5, OneTurn
<1>8. ASSUME NEW t \in Turns, NEW stage \in Stages, Disappoints(t, stage) PROVE ChatInv'
  <2> DEFINE x == [turn[t] EXCEPT !.stage = stage,
                                  !.pc = IF turn[t].attempt = 1 THEN "chat" ELSE "failed",
                                  !.attempt = 2]
  <2>1. /\ turn' = [turn EXCEPT ![t] = x] /\ turn'[t] = x
        /\ turn[t].pc = "chat" /\ post[t].pc = "posted"
    BY <1>0, <1>8 DEF Disappoints, Refused, Posting
  <2>2. x.pc = (IF turn[t].attempt = 1 THEN "chat" ELSE "failed") /\ x.stage = stage /\ x.attempt = 2
    BY <1>0 DEF TurnRecords
  <2>3. post[t].attempt \in 0 .. MaxRetries - 1 /\ made[t] \in Nat /\ turn[t].attempt \in {1, 2}
    BY <1>0, <2>1 DEF PostRecords, CountInv
  <2>4. made' = [made EXCEPT ![t] = made[t]] /\ made'[t] = made[t]
    BY <1>0, <1>8 DEF Disappoints, CallChat
  <2>5. made[t] <= Earlier(t) + MaxRetries
    BY <1>0, <2>1, <2>3 DEF CountInv, Earlier
  <2>6. CASE turn[t].attempt = 1
    <3> DEFINE y == [Unposted EXCEPT !.pc = "headers"]
    <3>1. post' = [post EXCEPT ![t] = y] /\ post'[t] = y
      BY <1>0, <1>8, <2>6 DEF Disappoints, CallChat
    <3>2. y \in PostRecords /\ y.pc = "headers" /\ y.attempt = 0 /\ y.error = None
      BY DEF PostRecords, Unposted
    <3>3. CountInv(t)'
      <4> HIDE DEF x, y
      <4> QED
        BY <2>1, <2>2, <2>3, <2>4, <2>5, <2>6, <3>1, <3>2 DEF CountInv, Earlier
    <3> QED
      BY <2>1, <2>3, <2>4, <3>1, <3>2, <3>3, OneTurn
  <2>7. CASE turn[t].attempt = 2
    <3> DEFINE y == [Unposted EXCEPT !.last = stage]
    <3>1. post' = [post EXCEPT ![t] = y] /\ post'[t] = y
      BY <1>0, <1>8, <2>7 DEF Disappoints
    <3>2. y \in PostRecords /\ y.pc = "none" /\ y.error = None /\ y.last = stage
      BY DEF PostRecords, Unposted
    <3>3. None \notin {ErrorOf(c) : c \in Passing} /\ stage # None
      BY DEF ErrorCodes, Causes
    <3>4. CountInv(t)'
      <4> HIDE DEF x, y
      <4> QED
        BY <2>1, <2>2, <2>3, <2>4, <2>5, <2>7, <3>1, <3>2, <3>3 DEF CountInv, Earlier
    <3> QED
      BY <2>1, <2>3, <2>4, <3>1, <3>2, <3>4, OneTurn
  <2> QED
    BY <2>3, <2>6, <2>7
<1> QED
  BY <1>1, <1>2, <1>3, <1>4, <1>5, <1>6, <1>7, <1>8 DEF ChatNext, Advances

LEMMA ChatInvariant == ChatSpec => [](TypeOK /\ ChatInv)
<1>1. ChatSpec => []TypeOK
  BY ImplementsPlanning, TypeCorrect, PTL
<1> QED
  BY <1>1, InitChat, NextChat, PTL DEF ChatSpec

\* A turn posts at most max_retries times for each of the planner's attempts, and
\* gives up for want of an answer only after the last (_post_with_retry).
THEOREM PostsBounded == ChatSpec => []PostsAreBounded
<1>1. TypeOK /\ ChatInv => PostsAreBounded
  <2> SUFFICES ASSUME TypeOK, ChatInv, NEW t \in Turns
               PROVE  /\ made[t] <= 2 * MaxRetries
                      /\ turn[t].pc = "failed" /\ post[t].error \in {ErrorOf(c) : c \in Passing} =>
                           post[t].attempt = MaxRetries - 1
    BY DEF PostsAreBounded
  <2> USE PlannerChatAssumption
  <2>1. /\ turn[t].pc \in {"unsent", "chat", "done", "failed"}
        /\ post[t].attempt \in 0 .. MaxRetries - 1 /\ made[t] \in Nat /\ CountInv(t)
    BY DEF TypeOK, ChatInv, TurnRecords, PostRecords
  <2> QED
    BY <2>1 DEF CountInv, Earlier
<1> QED
  BY <1>1, ChatInvariant, PTL

\* A turn that fails says why it did: by the stage of its last answer or by the code
\* of the provider's failure, except after an answer of a shape nobody expects, of
\* which the HTTP layer says that something is wrong (Planner.plan, _unhandled).
THEOREM FailuresAreTold == ChatSpec => []FailureIsTold
<1>1. ChatInv => FailureIsTold
  BY DEF ChatInv, CountInv, FailureIsTold
<1> QED
  BY <1>1, ChatInvariant, PTL

=============================================================================
