------------------------------- MODULE Settings -------------------------------
(***************************************************************************)
(* Providers and LLM profiles: the window's lists, the sidecar's memory    *)
(* and its database.                                                       *)
(*                                                                         *)
(* A route changes the memory when it is called and awaits the database    *)
(* after: each write has a connection and a commit of its own, so two of   *)
(* them commit in any order.  The sidecar (module Sidecar) may be killed   *)
(* at any step, and starts again with what the database holds.  The window *)
(* sends requests at will and changes its lists when the answers come.     *)
(***************************************************************************)
EXTENDS Sidecar, FiniteSets

CONSTANTS
  Providers,  \* ids; what is added or created has a new one
  Profiles,   \* ids
  Namesakes,  \* those that have the same name
  Slots,      \* requests of the window at a time
  MaxAsks,    \* bound: requests of the window
  None

ASSUME SettingsAssumption ==
  /\ MaxAsks \in Nat
  /\ Namesakes \subseteq Profiles
  /\ Providers \cap Profiles = {}
  /\ None \notin Providers \cup Profiles

VARIABLES
  registry,      \* providers in ProviderRegistry
  llm_profiles,  \* services.llm_profiles: the provider each profile names
  rows,          \* table providers
  profileRows,   \* table llm_profiles
  request,       \* what each slot waits for
  given,         \* ids already used
  asked,         \* requests so far
  shown,         \* how often the window lists a provider
  shownProfiles, \* the profiles it lists
  told,          \* the providers that are there by the answers so far
  toldProfiles,  \* the profiles by the answers so far
  doubt,         \* ids whose last write failed, was lost, or ran beside another
  stale,         \* ids the window's lists may be wrong about
  blind          \* profiles written to memory without their provider there

ids == <<given, asked>>
memory == <<registry, llm_profiles, blind>>
database == <<rows, profileRows>>
window == <<shown, shownProfiles, stale>>
answers == <<told, toldProfiles, doubt>>
settingsVars == <<memory, database, window, answers, request, ids>>
vars == <<sidecarVars, settingsVars>>

Ids == Providers \cup Profiles
Writes == {"add", "drop", "save", "forget"}
Idle == [op |-> "none", id |-> None, val |-> None, at |-> "idle", reply |-> "none",
         alone |-> TRUE, touched |-> {}]

Busy(s) == request[s].at # "idle"
Writing(s) == Busy(s) /\ request[s].op \in Writes
InFlight(id) == \E s \in Slots : Writing(s) /\ request[s].id = id
Written(slots) == {request[s].id : s \in {t \in slots : Writing(t)}}
Pending == Written(Slots)

\* The profiles that name a provider, in memory or in the table.
Linked(table, p) == {f \in Profiles : table[f] = p}

-----------------------------------------------------------------------------

Init ==
  /\ SidecarInit
  /\ registry = {} /\ rows = {}
  /\ llm_profiles = [f \in Profiles |-> None]
  /\ profileRows = [f \in Profiles |-> None]
  /\ request = [s \in Slots |-> Idle]
  /\ given = {} /\ asked = 0
  /\ shown = [p \in Providers |-> 0]
  /\ shownProfiles = [f \in Profiles |-> None]
  /\ told = {}
  /\ toldProfiles = [f \in Profiles |-> None]
  /\ doubt = {} /\ stale = Ids /\ blind = {}

-----------------------------------------------------------------------------
(* The window. *)

\* A request r of slot s joins those in flight: a write of the same id is no longer
\* alone, and a list that is on its way may or may not have what r writes.
Joined(s, r) ==
  [t \in Slots |->
    IF t = s THEN r
    ELSE IF ~Busy(t) \/ r.op \notin Writes THEN request[t]
    ELSE IF Writing(t) THEN [request[t] EXCEPT !.alone = @ /\ r.id # request[t].id]
    ELSE [request[t] EXCEPT !.touched = @ \cup {r.id}]]

Write(op, id, val) ==
  [Idle EXCEPT !.op = op, !.id = id, !.val = val, !.at = "sent", !.alone = ~InFlight(id)]

List(op, others) == [Idle EXCEPT !.op = op, !.at = "sent", !.touched = Written(others)]

Ask(s, r) ==
  /\ app = "open" /\ status = "Ready"
  /\ ~Busy(s)
  /\ asked < MaxAsks /\ asked' = asked + 1
  /\ request' = Joined(s, r)
  /\ UNCHANGED <<sidecarVars, memory, database, window, answers>>

\* The sidecar generates a new id; which one does not matter.
New(of) == IF of \subseteq given THEN {} ELSE {CHOOSE id \in of : id \notin given}

\* addProvider, and the editor's create for a provider that is listed.
AskNew(s) ==
  \/ \E p \in New(Providers) :
       Ask(s, Write("add", p, None)) /\ given' = given \cup {p}
  \/ \E f \in New(Profiles), p \in Providers :
       shown[p] > 0 /\ Ask(s, Write("save", f, p)) /\ given' = given \cup {f}

\* The other requests of the two panels: what they offer is what is listed.
AskOther(s) ==
  /\ \/ \E p \in Providers : shown[p] > 0 /\ Ask(s, Write("drop", p, None))
     \/ \E f \in Profiles : shownProfiles[f] # None /\ Ask(s, Write("forget", f, None))
     \/ Ask(s, List("providers", Slots))
     \/ Ask(s, List("profiles", Slots))
  /\ UNCHANGED given

\* No sidecar listens: the connection is refused.
Refuse(s) ==
  /\ app = "open"
  /\ request[s].at = "sent"
  /\ child \in {"announced", "dead"}
  /\ request' = [request EXCEPT ![s].at = "answered", ![s].reply = "failed"]
  /\ UNCHANGED <<sidecarVars, memory, database, window, answers, ids>>

\* What the store does with a good answer: a provider is appended to the list as it
\* is now, what was deleted is filtered out of it, a list replaces it.
ListsAfter(s) ==
  LET r == request[s] IN
  /\ shown' = CASE r.op = "add" -> [shown EXCEPT ![r.id] = @ + 1]
                [] r.op = "drop" -> [shown EXCEPT ![r.id] = 0]
                [] r.op = "providers" -> [p \in Providers |-> IF p \in r.val THEN 1 ELSE 0]
                [] OTHER -> shown
  /\ shownProfiles' = CASE r.op = "forget" -> [shownProfiles EXCEPT ![r.id] = None]
                        [] r.op = "profiles" -> r.val
                        [] OTHER -> shownProfiles

\* What the answers say so far, and what they leave open.
Learn(s) ==
  LET r == request[s] IN
  /\ told' = CASE r.op = "add" -> told \cup {r.id}
               [] r.op = "drop" -> told \ {r.id}
               [] OTHER -> told
  /\ toldProfiles' = IF r.op \in {"save", "forget"}
                     THEN [toldProfiles EXCEPT ![r.id] = r.val] ELSE toldProfiles
  /\ doubt' = IF r.op \notin Writes THEN doubt
              ELSE IF r.alone THEN doubt \ {r.id} ELSE doubt \cup {r.id}
  /\ stale' = CASE r.op = "providers" -> (stale \ Providers) \cup (r.touched \cap Providers)
                [] r.op = "profiles" -> (stale \ Profiles) \cup (r.touched \cap Profiles)
                [] OTHER -> IF r.alone THEN stale ELSE stale \cup {r.id}

\* Slip: the editor leaves the list to the store.
ReceiveOkOnly(s) ==
  /\ app = "open"
  /\ request[s].at = "answered" /\ request[s].reply = "ok"
  /\ ListsAfter(s)
  /\ Learn(s)
  /\ request' = [request EXCEPT ![s] = Idle]
  /\ UNCHANGED <<sidecarVars, memory, database, ids>>

\* A good answer.  The editor asks for the profiles again when it has created one.
ReceiveOk(s) ==
  /\ app = "open"
  /\ request[s].at = "answered" /\ request[s].reply = "ok"
  /\ ListsAfter(s)
  /\ Learn(s)
  /\ request' = IF request[s].op # "save" THEN [request EXCEPT ![s] = Idle]
                ELSE [request EXCEPT ![s] = List("profiles", Slots \ {s})]
  /\ UNCHANGED <<sidecarVars, memory, database, ids>>

\* Any other answer leaves the lists alone and shows the error.
ReceiveError(s) ==
  /\ app = "open"
  /\ request[s].at = "answered" /\ request[s].reply # "ok"
  /\ LET open == IF request[s].op \in Writes /\ request[s].reply = "failed"
                 THEN {request[s].id} ELSE {} IN
     /\ doubt' = doubt \cup open
     /\ stale' = stale \cup open
  /\ request' = [request EXCEPT ![s] = Idle]
  /\ UNCHANGED <<sidecarVars, memory, database, shown, shownProfiles, told, toldProfiles, ids>>

-----------------------------------------------------------------------------
(* The routes of the sidecar. *)

Handled(s, op) ==
  /\ child = "serving"
  /\ request[s].at = "sent" /\ request[s].op = op

\* The handler awaits the database.
Awaits(s) == request' = [request EXCEPT ![s].at = "writing"]
Answers(s, reply) == request' = [request EXCEPT ![s].at = "answered", ![s].reply = reply]

AddProvider(s) ==
  /\ Handled(s, "add")
  /\ registry' = registry \cup {request[s].id}
  /\ Awaits(s)
  /\ UNCHANGED <<sidecarVars, llm_profiles, blind, database, window, answers, ids>>

\* Slip: the profiles are not looked at.
DeleteProviderUnchecked(s) ==
  LET p == request[s].id IN
  /\ Handled(s, "drop")
  /\ IF p \notin registry
     THEN Answers(s, "refused") /\ UNCHANGED registry
     ELSE Awaits(s) /\ registry' = registry \ {p}
  /\ UNCHANGED <<sidecarVars, llm_profiles, blind, database, window, answers, ids>>

\* delete_provider: 409 while a profile names it, 404 if it is not there.
DeleteProvider(s) ==
  LET p == request[s].id IN
  /\ Handled(s, "drop")
  /\ IF Linked(llm_profiles, p) # {} \/ p \notin registry
     THEN Answers(s, "refused") /\ UNCHANGED registry
     ELSE Awaits(s) /\ registry' = registry \ {p}
  /\ UNCHANGED <<sidecarVars, llm_profiles, blind, database, window, answers, ids>>

\* create_profile: nobody asks whether the provider is there.
SaveProfile(s) ==
  LET r == request[s] IN
  /\ Handled(s, "save")
  /\ llm_profiles' = [llm_profiles EXCEPT ![r.id] = r.val]
  /\ blind' = IF r.val \in registry THEN blind \ {r.id} ELSE blind \cup {r.id}
  /\ Awaits(s)
  /\ UNCHANGED <<sidecarVars, registry, database, window, answers, ids>>

DeleteProfile(s) ==
  /\ Handled(s, "forget")
  /\ llm_profiles' = [llm_profiles EXCEPT ![request[s].id] = None]
  /\ blind' = blind \ {request[s].id}
  /\ Awaits(s)
  /\ UNCHANGED <<sidecarVars, registry, database, window, answers, ids>>

\* list_providers and list_profiles answer from memory.
ListAll(s) ==
  /\ \/ /\ Handled(s, "providers")
        /\ request' = [request EXCEPT ![s].at = "answered", ![s].reply = "ok", ![s].val = registry]
     \/ /\ Handled(s, "profiles")
        /\ request' = [request EXCEPT ![s].at = "answered", ![s].reply = "ok", ![s].val = llm_profiles]
  /\ UNCHANGED <<sidecarVars, memory, database, window, answers, ids>>

Handle(s) ==
  \/ AddProvider(s) \/ DeleteProvider(s) \/ SaveProfile(s) \/ DeleteProfile(s) \/ ListAll(s)

-----------------------------------------------------------------------------
(* The database. *)

Named(f) == {g \in Namesakes \ {f} : f \in Namesakes /\ profileRows[g] # None}

\* The keys of llm_profiles: a row's provider exists, and is not deleted; no two
\* rows have one name.
Allowed(r) ==
  CASE r.op = "drop" -> Linked(profileRows, r.id) = {}
    [] r.op = "save" -> r.val \in rows /\ Named(r.id) = {}
    [] OTHER -> TRUE

\* Slip: deleting a profile leaves its row.
CommitKeepsRow(s) ==
  LET r == request[s] IN
  /\ child = "serving" /\ r.at = "writing"
  /\ Allowed(r)
  /\ rows' = CASE r.op = "add" -> rows \cup {r.id}
               [] r.op = "drop" -> rows \ {r.id}
               [] OTHER -> rows
  /\ profileRows' = IF r.op = "save"
                    THEN [profileRows EXCEPT ![r.id] = r.val] ELSE profileRows
  /\ Answers(s, "ok")
  /\ UNCHANGED <<sidecarVars, memory, window, answers, ids>>

\* One statement and its commit on a connection of its own, then the answer.
Commit(s) ==
  LET r == request[s] IN
  /\ child = "serving" /\ r.at = "writing"
  /\ Allowed(r)
  /\ rows' = CASE r.op = "add" -> rows \cup {r.id}
               [] r.op = "drop" -> rows \ {r.id}
               [] OTHER -> rows
  /\ profileRows' = IF r.op \in {"save", "forget"}
                    THEN [profileRows EXCEPT ![r.id] = r.val] ELSE profileRows
  /\ Answers(s, "ok")
  /\ UNCHANGED <<sidecarVars, memory, window, answers, ids>>

\* Slip: a statement that failed is tried again.
CommitRetries(s) ==
  /\ child = "serving" /\ request[s].at = "writing"
  /\ Fault
  /\ UNCHANGED <<bridgeVars, childVars, request, memory, database, window, answers, ids>>

\* The statement is refused by a key, or the file is locked or full: 500, and the
\* memory stays changed.
CommitFails(s) ==
  /\ child = "serving" /\ request[s].at = "writing"
  /\ \/ ~Allowed(request[s]) /\ UNCHANGED faultVars
     \/ Fault
  /\ Answers(s, "failed")
  /\ UNCHANGED <<bridgeVars, childVars, memory, database, window, answers, ids>>

-----------------------------------------------------------------------------
(* The process. *)

\* What was in flight has no answer any more, but for those that had arrived.
Lost(arrived) ==
  [s \in Slots |-> IF Busy(s) /\ s \notin arrived
                   THEN [request[s] EXCEPT !.at = "answered", !.reply = "failed"]
                   ELSE request[s]]

\* The lists are the window's: they go with it, and a new one has none.
NoLists ==
  /\ shown' = [p \in Providers |-> 0]
  /\ shownProfiles' = [f \in Profiles |-> None]
  /\ stale' = Ids

\* The services of the sidecar before: an application is launched by hand, long
\* after the last write that a sidecar without one had begun.  Nobody asks that
\* sidecar for anything again, should it run on.
Start ==
  /\ \A s \in Slots : request[s].at \notin {"sent", "writing"}
  /\ Launch
  /\ request' = [s \in Slots |-> Idle]
  /\ NoLists
  /\ UNCHANGED <<memory, database, answers, ids>>

LoadProviders ==
  /\ ReadProviders
  /\ registry' = rows
  /\ UNCHANGED <<llm_profiles, blind, database, window, answers, request, ids>>

LoadProfiles ==
  /\ ReadProfiles
  /\ llm_profiles' = profileRows
  /\ blind' = {}
  /\ UNCHANGED <<registry, database, window, answers, request, ids>>

Dies ==
  /\ ChildFails
  /\ IF app = "open"
     THEN \E arrived \in SUBSET {s \in Slots : request[s].at = "answered"} :
            request' = Lost(arrived)
     ELSE request' = [s \in Slots |-> Idle]
  /\ UNCHANGED <<memory, database, window, answers, ids>>

\* The window is closed and the sidecar killed, and with it what was in flight.
Closes ==
  /\ AppCloses
  /\ request' = [s \in Slots |-> Idle]
  /\ doubt' = doubt \cup Pending
  /\ NoLists
  /\ UNCHANGED <<memory, database, told, toldProfiles, ids>>

\* The application ends without a drop: an answer that had come goes with the window,
\* and the sidecar finishes what it was asked.
Exits ==
  /\ AppExits
  /\ request' = [s \in Slots |-> IF request[s].at = "answered" THEN Idle ELSE request[s]]
  /\ doubt' = doubt \cup Pending
  /\ NoLists
  /\ UNCHANGED <<memory, database, told, toldProfiles, ids>>

Boots == (Migrate \/ SetVersion \/ EmitHandshake \/ Serve) /\ UNCHANGED settingsVars
Reads == (ReadHandshake \/ ClientFails \/ SpawnFails) /\ UNCHANGED settingsVars
Strays == StraySteps /\ UNCHANGED settingsVars

Answered(s) == Refuse(s) \/ ReceiveOk(s) \/ ReceiveError(s)
Served(s) == Handle(s) \/ Commit(s) \/ CommitFails(s)

Next ==
  \/ Start \/ Boots \/ LoadProviders \/ LoadProfiles \/ Reads
  \/ Dies \/ Closes \/ Exits \/ Strays
  \/ \E s \in Slots : AskNew(s) \/ AskOther(s) \/ Answered(s) \/ Served(s)

\* What has begun goes on: the start of a sidecar, the read that waits for it, a
\* request that was sent.  Nobody has to ask, to close the window or to launch.
Fairness ==
  /\ WF_vars(Boots \/ LoadProviders \/ LoadProfiles)
  /\ WF_vars(Reads)
  /\ \A s \in Slots : WF_vars(Answered(s) \/ Served(s))

Spec == Init /\ [][Next]_vars /\ Fairness

-----------------------------------------------------------------------------

\* The requests with one op.
RequestsOf(op, of, vals) ==
  [op : {op}, id : of, val : vals, at : {"idle", "sent", "writing", "answered"},
   reply : {"none", "ok", "refused", "failed"}, alone : BOOLEAN, touched : SUBSET Ids]

Table == [Profiles -> Providers \cup {None}]

Requests ==
  RequestsOf("none", {None}, {None})
    \cup RequestsOf("add", Providers, {None}) \cup RequestsOf("drop", Providers, {None})
    \cup RequestsOf("save", Profiles, Providers) \cup RequestsOf("forget", Profiles, {None})
    \cup RequestsOf("providers", {None}, {None} \cup SUBSET Providers)
    \cup RequestsOf("profiles", {None}, {None} \cup Table)

TypeOK ==
  /\ SidecarTypeOK
  /\ registry \subseteq Providers /\ rows \subseteq Providers /\ told \subseteq Providers
  /\ llm_profiles \in Table /\ profileRows \in Table
  /\ toldProfiles \in Table /\ shownProfiles \in Table
  /\ request \in [Slots -> Requests]
  /\ \A s \in Slots : request[s].op = "profiles" /\ request[s].reply = "ok" =>
       request[s].val \in Table
  /\ given \subseteq Ids /\ asked \in Nat
  /\ shown \in [Providers -> Nat]
  /\ doubt \subseteq Ids /\ stale \subseteq Ids /\ blind \subseteq Profiles

RegistryIsLoaded == child \in {"providers", "loaded", "announced", "serving"}
ProfilesAreLoaded == child \in {"loaded", "announced", "serving"}

\* What the answers say of a provider or a profile is what the database holds and,
\* while a sidecar runs, what its memory holds: after any number of crashes and
\* launches, unless the last write failed, was lost or ran beside another: a
\* deletion may overtake the answer to what it deletes.
AnswersHold ==
  /\ \A p \in Providers \ (doubt \cup Pending) :
       /\ p \in told <=> p \in rows
       /\ RegistryIsLoaded => (p \in told <=> p \in registry)
  /\ \A f \in Profiles \ (doubt \cup Pending) :
       /\ toldProfiles[f] = profileRows[f]
       /\ ProfilesAreLoaded => toldProfiles[f] = llm_profiles[f]

\* A profile names a provider that is there: in the table always, in memory unless
\* the provider was missing when the profile was written.  No deletion and no
\* launch leaves a profile without one.
ProfilesAreLinked ==
  /\ \A f \in Profiles : profileRows[f] \in rows \cup {None}
  /\ ProfilesAreLoaded =>
       \A f \in Profiles \ blind : llm_profiles[f] \in registry \cup {None}

\* When the window waits for nothing, its lists are the sidecar's memory, each
\* provider once, but for what changed while a list was on its way, for a deletion that
\* overtook the answer to what it deletes, and for what failed.
ListsAgree ==
  (app = "open" /\ child = "serving" /\ \A s \in Slots : ~Busy(s)) =>
    /\ \A p \in Providers \ stale : shown[p] = (IF p \in registry THEN 1 ELSE 0)
    /\ \A f \in Profiles \ stale : shownProfiles[f] = llm_profiles[f]

\* A request ends, whatever becomes of the sidecar, while the window is open.
RequestsEnd ==
  \A s \in Slots : []<>(~Busy(s) \/ app = "closed")
=============================================================================
