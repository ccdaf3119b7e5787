------------------------------ MODULE PlannerChat ------------------------------
(***************************************************************************)
(* Planning with the provider adapter under it: what the planner takes for *)
(* one answer of the model is OpenAICompatibleAdapter.chat, which posts    *)
(* the request up to max_retries times, with a pause in between.           *)
(*                                                                         *)
(* Two loops are nested, the planner's, which asks again when an answer is *)
(* of no use, and the adapter's, which posts again when there was none.    *)
(***************************************************************************)
EXTENDS Planning

CONSTANT MaxRetries  \* max_retries

VARIABLES
  post,  \* each turn's request to the provider
  made   \* how many a turn has made

chatVars == <<vars, post, made>>

\* A failure to reach the provider in time or at all, and answers that say later.
Passing == {"timeout", "transport", "rate_limited", "server_error"}

\* Answers that say never: not authorised, refused, not JSON, no choices or
\* arguments of a tool call that do not parse.
Final == {"auth", "client_error", "not_json", "no_choices", "bad_arguments"}

\* Answers that are JSON, but not of the shape they are read as: no object where
\* one is read from, or arguments of a tool call that are none.  Nothing expects
\* what this raises, an AttributeError, a TypeError or a ValidationError: it leaves
\* the adapter and the planner, and the HTTP layer answers with a code of its own.
Misshapen == {"not_object", "arguments_no_object"}

\* The code the client of the turn gets.
ErrorOf(cause) ==
  CASE cause = "timeout"                        -> "provider.timeout"
    [] cause \in {"transport", "server_error"}  -> "provider.unavailable"
    [] cause = "rate_limited"                   -> "provider.rate_limited"
    [] cause = "auth"                           -> "provider.auth_invalid"
    [] cause = "no_secret"                      -> "provider.secret_not_found"
    [] cause \in Misshapen                      -> "orca.unknown"
    [] OTHER                                    -> "provider.error"

Causes == Passing \cup Final \cup Misshapen \cup {"no_secret"}

ErrorCodes == {ErrorOf(c) : c \in Causes}

ASSUME PlannerChatAssumption ==
  /\ MaxRetries \in Nat \ {0}
  /\ None \notin Stages \cup Causes \cup ErrorCodes

\* "last" is history: what came of the last post, if that was of no use.
Unposted == [pc |-> "none", attempt |-> 0, error |-> None, last |-> None]

Posting(t) == post[t].pc = "posted"

-----------------------------------------------------------------------------

ChatInit ==
  /\ Init
  /\ post = [t \in Turns |-> Unposted]
  /\ made = [t \in Turns |-> 0]

\* chat, up to the secret store, which holds the provider's key.
CallChat(t) ==
  /\ post' = [post EXCEPT ![t] = [Unposted EXCEPT !.pc = "headers"]]
  /\ UNCHANGED made

Send(t) == SendTurn(t) /\ CallChat(t)

\* The store has no such key.
NoSecret(t) ==
  /\ post[t].pc = "headers"
  /\ post' = [post EXCEPT ![t].pc = "none", ![t].error = ErrorOf("no_secret"),
                          ![t].last = "no_secret"]
  /\ ChatFails(t)
  /\ UNCHANGED made

\* The first attempt, or the pause before another is over.
Post(t) ==
  /\ post[t].pc \in {"headers", "pausing"}
  /\ post' = [post EXCEPT ![t].pc = "posted",
                          ![t].attempt = IF post[t].pc = "pausing" THEN @ + 1 ELSE @]
  /\ made' = [made EXCEPT ![t] = @ + 1]
  /\ UNCHANGED vars

\* Slip: the last attempt is followed by one more.
PausesOnceMore(t) ==
  /\ Posting(t)
  /\ post[t].attempt < MaxRetries
  /\ post' = [post EXCEPT ![t].pc = "pausing"]
  /\ UNCHANGED <<vars, made>>

\* An attempt fails in passing, and is not the last.
Pauses(t) ==
  /\ Posting(t)
  /\ post[t].attempt + 1 < MaxRetries
  /\ post' = [post EXCEPT ![t].pc = "pausing"]
  /\ UNCHANGED <<vars, made>>

\* Slip: the exception is swallowed.
RaisesUntold(t, cause) ==
  /\ Posting(t)
  /\ cause \in Passing => post[t].attempt + 1 >= MaxRetries
  /\ post' = [post EXCEPT ![t].pc = "none", ![t].last = cause]
  /\ ChatFails(t)
  /\ UNCHANGED made

\* The last attempt fails in passing, or any for good or for its shape: chat raises,
\* and the planner lets the exception through.
Raises(t, cause) ==
  /\ Posting(t)
  /\ cause \in Passing => post[t].attempt + 1 >= MaxRetries
  /\ post' = [post EXCEPT ![t].pc = "none", ![t].error = ErrorOf(cause), ![t].last = cause]
  /\ ChatFails(t)
  /\ UNCHANGED made

\* chat returns, and the planner takes the answer.
Succeeds(t, w) ==
  /\ Posting(t)
  /\ post' = [post EXCEPT ![t] = Unposted]
  /\ Planned(t, w)
  /\ UNCHANGED made

\* chat returns, and the planner cannot use the answer: it calls chat again, whose
\* attempts count from the start, or gives up.
Disappoints(t, stage) ==
  /\ Posting(t)
  /\ Refused(t, stage)
  /\ IF turn[t].attempt = 1 THEN CallChat(t)
     ELSE post' = [post EXCEPT ![t] = [Unposted EXCEPT !.last = stage]] /\ UNCHANGED made

\* Everything but the chats.
Others ==
  /\ \/ \E id \in Ids, body \in Bodies : Put(id, body)
     \/ \E w \in Workflows : CreateWorkflow(w) \/ DeleteWorkflow(w)
     \/ \E r \in Runs :
          \/ \E w \in Workflows, override \in Ids \cup {None} : StartRun(r, w, override)
          \/ \E tool \in Tools, args \in ArgsOf : Decide(r, tool, args)
  /\ UNCHANGED <<post, made>>

\* What the event loop, the secret store, the HTTP timeout and the timer of the
\* pause bring about.
Advances(t) ==
  \/ NoSecret(t) \/ Post(t)
  \/ Pauses(t)
  \/ \E cause \in Causes \ {"no_secret"} : Raises(t, cause)
  \/ \E w \in Workflows : Succeeds(t, w)
  \/ \E stage \in Stages : Disappoints(t, stage)

ChatNext == (\E t \in Turns : Send(t) \/ Advances(t)) \/ Others

ChatSpec == ChatInit /\ [][ChatNext]_chatVars

\* A post ends by its timeout, a pause by its timer.
ChatFairSpec == ChatSpec /\ \A t \in Turns : WF_chatVars(Advances(t))

-----------------------------------------------------------------------------

\* The nested loops are bounded together: a turn posts no more than max_retries
\* times for each of the planner's two attempts, and a turn that fails for want of an
\* answer has posted that often in its last attempt.
PostsAreBounded ==
  \A t \in Turns :
    /\ made[t] <= 2 * MaxRetries
    /\ turn[t].pc = "failed" /\ post[t].error \in {ErrorOf(c) : c \in Passing} =>
         post[t].attempt = MaxRetries - 1

\* Every turn is answered, with a plan or with the reason why there is none.
TurnEnds == \A t \in Turns : turn[t].pc = "chat" ~> turn[t].pc \in {"done", "failed"}

\* The reason is that of the last post, whatever came before: the stage at which its
\* answer was refused, or the provider's failure.  An answer of a shape nobody
\* expects is the exception: the turn is told that something is wrong, not what.
FailureIsTold ==
  \A t \in Turns : turn[t].pc = "failed" =>
    \/ /\ turn[t].stage = post[t].last /\ post[t].last \in Stages
       /\ post[t].error = None
    \/ /\ turn[t].stage = None /\ post[t].last \in Causes
       /\ post[t].error \in ErrorCodes
       /\ post[t].error = "orca.unknown" <=> post[t].last \in Misshapen

=============================================================================
