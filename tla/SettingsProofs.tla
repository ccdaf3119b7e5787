------------------------------ MODULE SettingsProofs ------------------------------
(***************************************************************************)
(* Proofs about Settings: types, the life of the sidecar under its         *)
(* application, the link of profiles to providers, and the agreement of    *)
(* the answers with the tables and of the window's lists with the memory,  *)
(* for any providers, profiles, requests at a time, launches and faults.   *)
(***************************************************************************)
EXTENDS Settings, TLAPS

-----------------------------------------------------------------------------
(* The sidecar. *)

\* While the application waits, the output holds nothing the child has not yet
\* written, and a dead child has failed.  Only an open window keeps a child.  A stray
\* is of an earlier launch than the child is.
BootInv == app = "spawning" /\ child \in Booting => stdout = <<>>
DeathInv == app = "spawning" /\ child = "dead" => faulted
OwnedInv == owned => app = "open"
EarlierInv == \A n \in strays : n < launches

SidecarInv ==
  /\ SidecarTypeOK
  /\ BootInv /\ DeathInv /\ OwnedInv /\ EarlierInv
  /\ StraysAreExplained /\ FailsOnlyByFault

\* What a step of Settings does to the sidecar's variables.
SidecarMoves ==
  \/ SidecarNext
  \/ Fault /\ UNCHANGED <<bridgeVars, childVars>>
  \/ UNCHANGED sidecarVars

LEMMA SidecarStarts == SidecarInit => SidecarInv
<1> SUFFICES ASSUME SidecarInit PROVE SidecarInv
  OBVIOUS
<1>1. SidecarTypeOK
  <2>1. launches \in 0 .. MaxLaunches /\ faults \in Nat
    BY SidecarAssumption DEF SidecarInit
  <2>2. strays \subseteq 0 .. MaxLaunches /\ undropped \subseteq 0 .. MaxLaunches
    BY DEF SidecarInit
  <2> QED
    BY <2>1, <2>2, Zenon DEF SidecarInit, SidecarTypeOK
<1>2. BootInv /\ DeathInv /\ OwnedInv /\ EarlierInv /\ FailsOnlyByFault
  BY DEF SidecarInit, BootInv, DeathInv, OwnedInv, EarlierInv, FailsOnlyByFault, Booting
<1>3. StraysAreExplained
  BY DEF SidecarInit, StraysAreExplained, Unkept, Alive, Booting
<1> QED
  BY <1>1, <1>2, <1>3 DEF SidecarInv

\* Where the strays come from and go to: a step that leaves the launches and the
\* strays alone only has to explain the last child.
LEMMA LastChildExplained ==
  ASSUME StraysAreExplained, EarlierInv, UNCHANGED <<launches, strays>>,
         \A n \in strays : n \in undropped => n \in undropped',
         app' # "spawning" /\ child' \in Alive /\ ~owned' => launches \in undropped',
         app' = "open" /\ child' \in Alive =>
           IF status' = "Ready" THEN owned' ELSE child' \in {"announced", "serving"}
  PROVE  StraysAreExplained' /\ EarlierInv'
BY DEF StraysAreExplained, EarlierInv, Unkept

LEMMA SidecarStep ==
  ASSUME SidecarInv, SidecarMoves
  PROVE  SidecarInv'
<1> USE DEF SidecarInv, BootInv, DeathInv, OwnedInv, FailsOnlyByFault, Fault,
            bridgeVars, strayVars, childVars, faultVars
<1>t. /\ SidecarTypeOK
      /\ launches \in Nat /\ \A n \in strays : n # launches
      /\ strays \subseteq undropped
      /\ app # "spawning" /\ child \in Alive /\ ~owned => launches \in undropped
      /\ app = "open" /\ child \in Alive =>
           IF status = "Ready" THEN owned ELSE child \in {"announced", "serving"}
  BY DEF SidecarTypeOK, EarlierInv, StraysAreExplained, Unkept
<1>l. stdout = <<>> \/ stdout = <<"handshake">>
  BY <1>t DEF SidecarTypeOK
<1>1. CASE Launch
  <2>1. launches' \in 0 .. MaxLaunches /\ launches' = launches + 1
    BY <1>1, <1>t, SidecarAssumption DEF Launch, SidecarTypeOK
  <2>2. strays' \subseteq 0 .. MaxLaunches
    BY <1>1, <1>t DEF Launch, SidecarTypeOK
  <2>3. SidecarTypeOK'
    BY <1>1, <1>t, <2>1, <2>2, Zenon DEF Launch, SidecarTypeOK, Alive, Booting
  <2>4. EarlierInv'
    <3> SUFFICES ASSUME NEW n \in strays' PROVE n < launches'
      BY DEF EarlierInv
    <3>1. n \in strays \/ n = launches
      BY <1>1 DEF Launch
    <3>2. launches \in Nat /\ (n \in strays => n < launches /\ n \in 0 .. MaxLaunches)
      BY <1>t DEF EarlierInv, SidecarTypeOK
    <3>3. n \in Nat /\ n < launches + 1
      BY <3>1, <3>2
    <3> QED
      BY <2>1, <3>3
  <2>5. StraysAreExplained'
    <3>1. strays' \subseteq undropped'
      BY <1>1, <1>t DEF Launch
    <3> QED
      BY <1>1, <3>1 DEF Launch, StraysAreExplained, Unkept
  <2> QED
    BY <1>1, <2>3, <2>4, <2>5 DEF Launch
<1>2. CASE Migrate \/ SetVersion
  <2>1. SidecarTypeOK'
    BY <1>2, <1>t DEF Migrate, SetVersion, Logged, SidecarTypeOK, Alive, Booting
  <2>2. StraysAreExplained' /\ EarlierInv'
    BY <1>2, <1>t, LastChildExplained DEF Migrate, SetVersion, Alive, Booting
  <2> QED
    BY <1>2, <2>1, <2>2 DEF Migrate, SetVersion, Logged, Booting
<1>3. CASE ReadProviders \/ ReadProfiles \/ Serve
  <2>1. SidecarTypeOK'
    BY <1>3, <1>t DEF ReadProviders, ReadProfiles, Serve, SidecarTypeOK, Alive, Booting
  <2>2. StraysAreExplained' /\ EarlierInv'
    BY <1>3, <1>t, LastChildExplained
       DEF ReadProviders, ReadProfiles, Serve, Alive, Booting
  <2> QED
    BY <1>3, <2>1, <2>2 DEF ReadProviders, ReadProfiles, Serve, Booting
<1>4. CASE EmitHandshake
  <2>1. CASE app = "spawning"
    <3>1. stdout = <<>> /\ stdout' = <<"handshake">>
      BY <1>4, <2>1 DEF EmitHandshake, Booting
    <3>2. SidecarTypeOK'
      BY <1>4, <1>t, <2>1, <3>1 DEF EmitHandshake, SidecarTypeOK, Alive, Booting
    <3>3. StraysAreExplained' /\ EarlierInv'
      BY <1>4, <1>t, <2>1, LastChildExplained DEF EmitHandshake
    <3> QED
      BY <1>4, <2>1, <3>1, <3>2, <3>3 DEF EmitHandshake, Booting
  <2>2. CASE app # "spawning"
    <3>1. SidecarTypeOK'
      BY <1>4, <1>t, <2>2 DEF EmitHandshake, SidecarTypeOK, Alive, Booting
    <3>2. StraysAreExplained' /\ EarlierInv'
      BY <1>4, <1>t, <2>2, LastChildExplained DEF EmitHandshake, Alive, Booting
    <3> QED
      BY <1>4, <2>2, <3>1, <3>2 DEF EmitHandshake, Booting
  <2> QED
    BY <2>1, <2>2
<1>5. CASE ChildFails
  <2>1. faults' \in Nat
    BY <1>5, <1>t DEF ChildFails, SidecarTypeOK
  <2>2. SidecarTypeOK'
    BY <1>5, <1>t, <2>1, Zenon DEF ChildFails, SidecarTypeOK
  <2>3. StraysAreExplained' /\ EarlierInv'
    BY <1>5, <1>t, LastChildExplained DEF ChildFails, Alive, Booting
  <2> QED
    BY <1>5, <2>2, <2>3 DEF ChildFails, Booting
<1>6. CASE ReadHandshake
  <2>1. stdout = <<"handshake">> /\ stdout' = <<>>
    <3>1. stdout = <<"handshake">> /\ stdout' = Tail(stdout)
      BY <1>6, <1>l, Zenon DEF ReadHandshake
    <3>2. Tail(<<"handshake">>) = <<>>
      OBVIOUS
    <3> QED
      BY <3>1, <3>2, Zenon
  <2>2. SidecarTypeOK'
    BY <1>6, <1>t, <2>1 DEF ReadHandshake, SidecarTypeOK
  <2>3. StraysAreExplained' /\ EarlierInv'
    BY <1>6, <1>t, LastChildExplained DEF ReadHandshake
  <2> QED
    BY <1>6, <2>1, <2>2, <2>3 DEF ReadHandshake
<1>7. CASE ClientFails
  <2>1. stdout = <<"handshake">> /\ stdout' = <<>> /\ child \notin Booting
    BY <1>7, <1>l DEF ClientFails
  <2>2. faults' \in Nat /\ undropped' \subseteq 0 .. MaxLaunches
    BY <1>7, <1>t DEF ClientFails, SidecarTypeOK
  <2>3. SidecarTypeOK'
    BY <1>7, <1>t, <2>1, <2>2, Zenon DEF ClientFails, SidecarTypeOK
  <2>4. StraysAreExplained' /\ EarlierInv'
    BY <1>7, <1>t, <2>1, LastChildExplained DEF ClientFails, Alive
  <2> QED
    BY <1>7, <2>1, <2>3, <2>4 DEF ClientFails
<1>8. CASE SpawnFails
  <2>1. child = "dead"
    BY <1>8, <1>t DEF SpawnFails, SidecarTypeOK
  <2>2. SidecarTypeOK'
    BY <1>8, <1>t DEF SpawnFails, SidecarTypeOK
  <2>3. StraysAreExplained' /\ EarlierInv'
    BY <1>8, <1>t, <2>1, LastChildExplained DEF SpawnFails, Alive, Booting
  <2> QED
    BY <1>8, <2>1, <2>2, <2>3 DEF SpawnFails
<1>9. CASE AppCloses
  <2>1. SidecarTypeOK'
    BY <1>9, <1>t DEF AppCloses, Shutdown, SidecarTypeOK
  <2>2. StraysAreExplained' /\ EarlierInv'
    BY <1>9, <1>t, LastChildExplained DEF AppCloses, Shutdown, Alive, Booting
  <2> QED
    BY <1>9, <2>1, <2>2 DEF AppCloses, Shutdown
<1>10. CASE AppExits
  <2>1. undropped' \subseteq 0 .. MaxLaunches
    BY <1>10, <1>t DEF AppExits, SidecarTypeOK
  <2>2. SidecarTypeOK'
    BY <1>10, <1>t, <2>1 DEF AppExits, SidecarTypeOK
  <2>3. StraysAreExplained' /\ EarlierInv'
    BY <1>10, <1>t, LastChildExplained DEF AppExits
  <2> QED
    BY <1>10, <2>2, <2>3 DEF AppExits
<1>11. CASE StrayMigrates
  <2>1. SidecarTypeOK'
    BY <1>11, <1>t DEF StrayMigrates, SidecarTypeOK
  <2>2. StraysAreExplained' /\ EarlierInv'
    BY <1>11, <1>t, LastChildExplained DEF StrayMigrates
  <2> QED
    BY <1>11, <2>1, <2>2 DEF StrayMigrates
<1>12. ASSUME NEW n, StrayEnds(n) PROVE SidecarInv'
  <2>1. SidecarTypeOK'
    BY <1>12, <1>t DEF StrayEnds, SidecarTypeOK
  <2>2. EarlierInv'
    BY <1>12 DEF StrayEnds, EarlierInv
  <2>3. n # launches
    BY <1>12, <1>t DEF StrayEnds
  <2>4. StraysAreExplained'
    BY <1>12, <1>t, <2>3 DEF StrayEnds, StraysAreExplained, Unkept
  <2> QED
    BY <1>12, <2>1, <2>2, <2>4 DEF StrayEnds
<1>13. CASE Fault /\ UNCHANGED <<bridgeVars, childVars>>
  <2>1. faults' \in Nat
    BY <1>13, <1>t DEF SidecarTypeOK
  <2>2. SidecarTypeOK'
    BY <1>13, <1>t, <2>1 DEF SidecarTypeOK
  <2>3. StraysAreExplained' /\ EarlierInv'
    BY <1>13, <1>t, LastChildExplained
  <2> QED
    BY <1>13, <2>2, <2>3
<1>14. CASE UNCHANGED sidecarVars
  <2>1. SidecarTypeOK'
    BY <1>14, <1>t DEF sidecarVars, SidecarTypeOK
  <2>2. StraysAreExplained' /\ EarlierInv'
    BY <1>14, <1>t, LastChildExplained DEF sidecarVars
  <2> QED
    BY <1>14, <2>1, <2>2 DEF sidecarVars
<1> QED
  BY <1>1, <1>2, <1>3, <1>4, <1>5, <1>6, <1>7, <1>8, <1>9, <1>10, <1>11, <1>12, <1>13, <1>14
     DEF SidecarMoves, SidecarNext, ChildSteps, StraySteps

LEMMA NextMovesSidecar ==
  ASSUME [Next]_vars
  PROVE  SidecarMoves
<1> USE DEF SidecarMoves, SidecarNext, ChildSteps
<1>1. CASE Start \/ LoadProviders \/ LoadProfiles \/ Dies \/ Closes \/ Exits
  BY <1>1 DEF Start, LoadProviders, LoadProfiles, Dies, Closes, Exits
<1>2. CASE Boots \/ Reads \/ Strays
  BY <1>2 DEF Boots, Reads, Strays
<1>3. ASSUME NEW s \in Slots, AskNew(s) \/ AskOther(s) PROVE SidecarMoves
  BY <1>3 DEF AskNew, AskOther, Ask
<1>4. ASSUME NEW s \in Slots, Answered(s) PROVE SidecarMoves
  BY <1>4 DEF Answered, Refuse, ReceiveOk, ReceiveError
<1>5. ASSUME NEW s \in Slots, Handle(s) \/ Commit(s) PROVE SidecarMoves
  BY <1>5 DEF Handle, AddProvider, DeleteProvider, SaveProfile, DeleteProfile, ListAll, Commit
<1>6. ASSUME NEW s \in Slots, CommitFails(s) PROVE SidecarMoves
  BY <1>6 DEF CommitFails, sidecarVars
<1>7. CASE UNCHANGED vars
  BY <1>7 DEF vars
<1> QED
  BY <1>1, <1>2, <1>3, <1>4, <1>5, <1>6, <1>7 DEF Next, Served

-----------------------------------------------------------------------------
(* Requests. *)

LEMMA IdleIsRequest == Idle \in Requests
BY DEF Idle, Requests, RequestsOf

LEMMA NewRequests ==
  ASSUME NEW op, NEW id, NEW val, NEW others
  PROVE  /\ op \in {"add", "drop"} /\ id \in Providers /\ val = None
              => Write(op, id, val) \in Requests
         /\ op = "save" /\ id \in Profiles /\ val \in Providers
              => Write(op, id, val) \in Requests
         /\ op = "forget" /\ id \in Profiles /\ val = None
              => Write(op, id, val) \in Requests
         /\ Write(op, id, val).reply = "none"
<1>1. InFlight(id) \in BOOLEAN
  BY DEF InFlight
<1> QED
  BY <1>1 DEF Write, Idle, Requests, RequestsOf

LEMMA Progressed ==
  ASSUME NEW r \in Requests,
         NEW at \in {"idle", "sent", "writing", "answered"},
         NEW reply \in {"none", "ok", "refused", "failed"}
  PROVE  /\ [r EXCEPT !.at = at] \in Requests
         /\ [r EXCEPT !.at = at, !.reply = reply] \in Requests
<1>1. ASSUME NEW op, NEW of, NEW vals, r \in RequestsOf(op, of, vals)
      PROVE  /\ [r EXCEPT !.at = at] \in RequestsOf(op, of, vals)
             /\ [r EXCEPT !.at = at, !.reply = reply] \in RequestsOf(op, of, vals)
  BY <1>1 DEF RequestsOf
<1> QED
  BY <1>1 DEF Requests

LEMMA Marked ==
  ASSUME NEW r \in Requests, NEW alone \in BOOLEAN, NEW touched \in SUBSET Ids
  PROVE  /\ [r EXCEPT !.alone = alone] \in Requests
         /\ [r EXCEPT !.touched = touched] \in Requests
BY DEF Requests, RequestsOf

LEMMA Listed ==
  ASSUME NEW r \in Requests, NEW val, NEW reply \in {"none", "ok", "refused", "failed"},
         \/ r.op = "providers" /\ val \in SUBSET Providers
         \/ r.op = "profiles" /\ val \in Table
  PROVE  [r EXCEPT !.at = "answered", !.reply = reply, !.val = val] \in Requests
BY DEF Requests, RequestsOf

LEMMA RequestFields ==
  ASSUME NEW r \in Requests
  PROVE  /\ r.op \in {"none", "providers", "profiles"} \cup Writes
         /\ r.op \in {"add", "drop"} => r.id \in Providers /\ r.val = None
         /\ r.op = "save" => r.id \in Profiles /\ r.val \in Providers
         /\ r.op = "forget" => r.id \in Profiles /\ r.val = None
         /\ r.op \in Writes => r.id \in Ids
         /\ r.touched \subseteq Ids
         /\ r.alone \in BOOLEAN
BY DEF Requests, RequestsOf, Writes, Ids

-----------------------------------------------------------------------------
(* Types. *)

\* Only a write awaits the database, and what is under way is a request.
WritingInv ==
  \A s \in Slots :
    /\ request[s].at = "writing" => request[s].op \in Writes
    /\ request[s].at # "idle" => request[s].op # "none"

\* What TypeOK and WritingInv say of one request.
Sound(r) ==
  /\ r \in Requests
  /\ r.op = "profiles" /\ r.reply = "ok" => r.val \in Table
  /\ r.at = "writing" => r.op \in Writes
  /\ r.at # "idle" => r.op # "none"

Types == TypeOK /\ WritingInv

LEMMA SoundRequests ==
  ASSUME Types
  PROVE  /\ request = [s \in Slots |-> request[s]]
         /\ \A s \in Slots : Sound(request[s])
BY DEF Types, TypeOK, WritingInv, Sound

\* The part of Types that is about requests, in the next state.
RequestsKept ==
  /\ request' \in [Slots -> Requests]
  /\ \A s \in Slots : request[s]'.op = "profiles" /\ request[s]'.reply = "ok" =>
       request[s]'.val \in Table
  /\ WritingInv'

LEMMA AllSound ==
  ASSUME NEW f, request' = [s \in Slots |-> f[s]], \A s \in Slots : Sound(f[s])
  PROVE  RequestsKept
BY DEF RequestsKept, Sound, WritingInv

LEMMA OneSound ==
  ASSUME Types, NEW s \in Slots, NEW r, Sound(r), request' = [request EXCEPT ![s] = r]
  PROVE  RequestsKept
<1> DEFINE f == [t \in Slots |-> IF t = s THEN r ELSE request[t]]
<1>1. request' = [t \in Slots |-> f[t]]
  BY SoundRequests
<1>2. \A t \in Slots : Sound(f[t])
  BY SoundRequests
<1> HIDE DEF f
<1> QED
  BY <1>1, <1>2, AllSound

LEMMA AwaitsKeeps ==
  ASSUME Types, NEW s \in Slots, request[s].op \in Writes, Awaits(s)
  PROVE  RequestsKept
<1> DEFINE r == [request[s] EXCEPT !.at = "writing"]
<1>1. request' = [request EXCEPT ![s] = r]
  BY DEF Awaits
<1>2. Sound(request[s])
  BY SoundRequests
<1>3. r \in Requests
  BY <1>2, Progressed DEF Sound
<1>4. r.op = request[s].op
  BY <1>2 DEF Sound, Requests, RequestsOf
<1>5. Sound(r)
  BY <1>3, <1>4 DEF Sound, Writes
<1> QED
  BY <1>1, <1>5, OneSound

LEMMA AnswersKeeps ==
  ASSUME Types, NEW s \in Slots, NEW reply \in {"ok", "refused", "failed"}, Answers(s, reply),
         request[s].at # "idle", reply = "ok" => request[s].op \in Writes
  PROVE  RequestsKept
<1> DEFINE r == [request[s] EXCEPT !.at = "answered", !.reply = reply]
<1>1. request' = [request EXCEPT ![s] = r]
  BY DEF Answers
<1>2. Sound(request[s])
  BY SoundRequests
<1>3. r \in Requests
  BY <1>2, Progressed DEF Sound
<1>4. r.op = request[s].op /\ r.at = "answered" /\ r.reply = reply
  BY <1>2 DEF Sound, Requests, RequestsOf
<1>5. Sound(r)
  BY <1>2, <1>3, <1>4 DEF Sound, Writes
<1> QED
  BY <1>1, <1>5, OneSound

LEMMA AskKeeps ==
  ASSUME Types, NEW s \in Slots, NEW r, Ask(s, r),
         r \in Requests, r.reply = "none", r.at = "sent", r.op # "none"
  PROVE  RequestsKept
<1> DEFINE f == Joined(s, r)
<1>1. Sound(r)
  BY DEF Sound
<1>2. ASSUME NEW t \in Slots PROVE Sound(f[t])
  <2> DEFINE q == request[t]
             alone == q.alone /\ r.id # q.id
             touched == q.touched \cup {r.id}
  <2>1. Sound(q) /\ q \in Requests
    BY SoundRequests DEF Sound
  <2>2. CASE t = s
    BY <2>2, <1>1 DEF Joined
  <2>3. CASE t # s /\ (~Busy(t) \/ r.op \notin Writes)
    BY <2>1, <2>3 DEF Joined
  <2>4. CASE t # s /\ Busy(t) /\ r.op \in Writes /\ Writing(t)
    <3>1. f[t] = [q EXCEPT !.alone = alone]
      BY <2>4 DEF Joined
    <3>2. alone \in BOOLEAN
      OBVIOUS
    <3>3. f[t] \in Requests
      BY <2>1, <3>1, <3>2, Marked
    <3>4. f[t].op = q.op /\ f[t].at = q.at /\ f[t].reply = q.reply /\ f[t].val = q.val
      BY <2>1, <3>1 DEF Requests, RequestsOf
    <3> QED
      BY <2>1, <3>3, <3>4 DEF Sound
  <2>5. CASE t # s /\ Busy(t) /\ r.op \in Writes /\ ~Writing(t)
    <3>1. f[t] = [q EXCEPT !.touched = touched]
      BY <2>5 DEF Joined
    <3>2. touched \in SUBSET Ids
      BY <2>1, <2>5, RequestFields
    <3>3. f[t] \in Requests
      BY <2>1, <3>1, <3>2, Marked
    <3>4. f[t].op = q.op /\ f[t].at = q.at /\ f[t].reply = q.reply /\ f[t].val = q.val
      BY <2>1, <3>1 DEF Requests, RequestsOf
    <3> QED
      BY <2>1, <3>3, <3>4 DEF Sound
  <2> QED
    BY <2>2, <2>3, <2>4, <2>5
<1>3. request' = [t \in Slots |-> f[t]]
  BY DEF Ask, Joined
<1> HIDE DEF f
<1> QED
  BY <1>2, <1>3, AllSound

LEMMA RequestsStand ==
  ASSUME Types, UNCHANGED request
  PROVE  RequestsKept
BY DEF Types, TypeOK, WritingInv, RequestsKept

LEMMA AllIdle ==
  ASSUME request' = [s \in Slots |-> Idle]
  PROVE  RequestsKept
<1> DEFINE f == [s \in Slots |-> Idle]
<1>1. \A s \in Slots : Sound(f[s])
  BY IdleIsRequest DEF Sound, Idle
<1> HIDE DEF f
<1> QED
  BY <1>1, AllSound DEF f

LEMMA LostKeeps ==
  ASSUME Types, NEW arrived, request' = Lost(arrived)
  PROVE  RequestsKept
<1> DEFINE f == Lost(arrived)
<1>1. ASSUME NEW s \in Slots PROVE Sound(f[s])
  <2> DEFINE r == [request[s] EXCEPT !.at = "answered", !.reply = "failed"]
  <2>1. Sound(request[s])
    BY SoundRequests
  <2>2. r \in Requests
    BY <2>1, Progressed DEF Sound
  <2>3. r.op = request[s].op /\ r.at = "answered" /\ r.reply = "failed"
    BY <2>1 DEF Sound, Requests, RequestsOf
  <2>4. Busy(s) => Sound(r)
    BY <2>1, <2>2, <2>3 DEF Sound, Busy
  <2> QED
    BY <2>1, <2>4 DEF Lost
<1>2. request' = [s \in Slots |-> f[s]]
  BY DEF Lost
<1> HIDE DEF f
<1> QED
  BY <1>1, <1>2, AllSound

\* The other part: what the steps of the window and of the sidecar leave to show.
OthersTyped ==
  /\ registry \subseteq Providers /\ rows \subseteq Providers /\ told \subseteq Providers
  /\ llm_profiles \in Table /\ profileRows \in Table
  /\ toldProfiles \in Table /\ shownProfiles \in Table
  /\ given \subseteq Ids /\ asked \in Nat
  /\ shown \in [Providers -> Nat]
  /\ doubt \subseteq Ids /\ stale \subseteq Ids /\ blind \subseteq Profiles

LEMMA TypesSplit ==
  /\ Types => SidecarTypeOK /\ OthersTyped
  /\ SidecarTypeOK' /\ RequestsKept /\ OthersTyped' => Types'
BY DEF Types, TypeOK, OthersTyped, RequestsKept, WritingInv

LEMMA InitTypes == Init => Types
<1> SUFFICES ASSUME Init PROVE Types
  OBVIOUS
<1>1. SidecarTypeOK
  BY SidecarStarts DEF Init, SidecarInv
<1>2. OthersTyped
  BY DEF Init, OthersTyped, Table, Ids
<1>3. \A s \in Slots : Sound(request[s])
  BY IdleIsRequest DEF Init, Sound, Idle
<1> QED
  BY <1>1, <1>2, <1>3 DEF Init, Types, TypeOK, OthersTyped, Sound, WritingInv

LEMMA PendingAreIds == Types => Pending \subseteq Ids
BY SoundRequests, RequestFields DEF Pending, Written, Writing, Sound

\* A write of the window.
LEMMA AskTypes ==
  ASSUME Types, NEW s \in Slots, AskNew(s) \/ AskOther(s)
  PROVE  RequestsKept /\ OthersTyped'
<1>1. ASSUME NEW r, Ask(s, r) PROVE asked' \in Nat /\ UNCHANGED <<memory, database, window, answers>>
  BY <1>1, TypesSplit DEF Ask, OthersTyped
<1>2. CASE AskNew(s)
  <2>1. PICK id \in Ids, r \in Requests :
          /\ r.reply = "none" /\ r.at = "sent" /\ r.op # "none"
          /\ Ask(s, r) /\ given' = given \cup {id}
    <3>1. New(Providers) \subseteq Providers /\ New(Profiles) \subseteq Profiles
      BY DEF New
    <3>2. CASE \E p \in New(Providers) : Ask(s, Write("add", p, None)) /\ given' = given \cup {p}
      <4>1. PICK p \in Providers :
              Ask(s, Write("add", p, None)) /\ given' = given \cup {p}
        BY <3>1, <3>2
      <4> DEFINE r == Write("add", p, None)
      <4>2. r \in Requests /\ r.reply = "none" /\ r.at = "sent" /\ r.op = "add"
        BY NewRequests DEF Write, Idle
      <4>3. p \in Ids
        BY DEF Ids
      <4> HIDE DEF r
      <4> QED
        BY <4>1, <4>2, <4>3 DEF r
    <3>3. CASE \E f \in New(Profiles), p \in Providers :
                 shown[p] > 0 /\ Ask(s, Write("save", f, p)) /\ given' = given \cup {f}
      <4>1. PICK f \in Profiles, p \in Providers :
              Ask(s, Write("save", f, p)) /\ given' = given \cup {f}
        BY <3>1, <3>3
      <4> DEFINE r == Write("save", f, p)
      <4>2. r \in Requests /\ r.reply = "none" /\ r.at = "sent" /\ r.op = "save"
        BY NewRequests DEF Write, Idle
      <4>3. f \in Ids
        BY DEF Ids
      <4> HIDE DEF r
      <4> QED
        BY <4>1, <4>2, <4>3 DEF r
    <3> QED
      BY <1>2, <3>2, <3>3 DEF AskNew
  <2> QED
    BY <1>1, <2>1, AskKeeps, TypesSplit DEF OthersTyped, memory, database, window, answers
<1>3. CASE AskOther(s)
  <2>1. PICK r \in Requests :
          r.reply = "none" /\ r.at = "sent" /\ r.op # "none" /\ Ask(s, r)
    <3>1. \A others \in SUBSET Slots : \A op \in {"providers", "profiles"} :
            List(op, others) \in Requests /\ List(op, others).reply = "none"
              /\ List(op, others).at = "sent" /\ List(op, others).op = op
      <4> SUFFICES ASSUME NEW others \in SUBSET Slots, NEW op \in {"providers", "profiles"}
                   PROVE  List(op, others) \in Requests /\ List(op, others).reply = "none"
                            /\ List(op, others).at = "sent" /\ List(op, others).op = op
        OBVIOUS
      <4>1. Written(others) \in SUBSET Ids
        BY SoundRequests, RequestFields DEF Written, Writing, Sound
      <4> QED
        BY <4>1 DEF List, Idle, Requests, RequestsOf
    <3>2. \A op, id : Write(op, id, None).at = "sent" /\ Write(op, id, None).op = op
      BY DEF Write, Idle
    <3> QED
      BY <1>3, <3>1, <3>2, NewRequests DEF AskOther
  <2>2. UNCHANGED given
    BY <1>3 DEF AskOther
  <2> QED
    BY <1>1, <2>1, <2>2, AskKeeps, TypesSplit DEF OthersTyped, memory, database, window, answers
<1> QED
  BY <1>2, <1>3

LEMMA AnsweredTypes ==
  ASSUME Types, NEW s \in Slots, Answered(s)
  PROVE  RequestsKept /\ OthersTyped'
<1> DEFINE r == request[s]
<1>1. Sound(r) /\ OthersTyped
  BY SoundRequests, TypesSplit
<1>2. CASE Refuse(s)
  <2>1. Answers(s, "failed")
    BY <1>2 DEF Refuse, Answers
  <2> QED
    BY <1>1, <1>2, <2>1, AnswersKeeps
       DEF Refuse, OthersTyped, memory, database, window, answers, ids
<1>3. CASE ReceiveOk(s)
  <2>1. RequestsKept
    <3>1. CASE r.op # "save"
      BY <1>3, <3>1, OneSound, IdleIsRequest DEF ReceiveOk, Sound, Idle
    <3>2. CASE r.op = "save"
      <4> DEFINE q == List("profiles", Slots \ {s})
      <4>1. Written(Slots \ {s}) \in SUBSET Ids
        BY SoundRequests, RequestFields DEF Written, Writing, Sound
      <4>2. Sound(q)
        BY <4>1 DEF Sound, List, Idle, Requests, RequestsOf
      <4>3. request' = [request EXCEPT ![s] = q]
        BY <1>3, <3>2 DEF ReceiveOk
      <4> HIDE DEF q
      <4> QED
        BY <4>2, <4>3, OneSound
    <3> QED
      BY <3>1, <3>2
  <2>2. shown' \in [Providers -> Nat] /\ shownProfiles' \in Table
    BY <1>1, <1>3, RequestFields DEF ReceiveOk, ListsAfter, OthersTyped, Sound, Table, Writes
  <2>3. told' \subseteq Providers /\ toldProfiles' \in Table
    BY <1>1, <1>3, RequestFields DEF ReceiveOk, Learn, OthersTyped, Sound, Table
  <2>4. doubt' \subseteq Ids /\ stale' \subseteq Ids
    <3>1. r.op \in Writes \cup {"providers", "profiles"} /\ r.touched \subseteq Ids
      BY <1>1, <1>3, RequestFields DEF Sound, ReceiveOk
    <3>2. r.op \in Writes => r.id \in Ids
      BY <1>1, RequestFields DEF Sound
    <3>3. doubt' \subseteq Ids
      BY <1>1, <1>3, <3>2 DEF ReceiveOk, Learn, OthersTyped
    <3>4. stale' \subseteq Ids
      BY <1>1, <1>3, <3>1, <3>2 DEF ReceiveOk, Learn, OthersTyped, Ids
    <3> QED
      BY <3>3, <3>4
  <2> QED
    BY <1>1, <1>3, <2>1, <2>2, <2>3, <2>4
       DEF ReceiveOk, OthersTyped, memory, database, ids
<1>4. CASE ReceiveError(s)
  <2>1. RequestsKept
    BY <1>4, OneSound, IdleIsRequest DEF ReceiveError, Sound, Idle
  <2>2. doubt' \subseteq Ids /\ stale' \subseteq Ids
    BY <1>1, <1>4, RequestFields DEF ReceiveError, OthersTyped, Sound
  <2> QED
    BY <1>1, <1>4, <2>1, <2>2 DEF ReceiveError, OthersTyped, memory, database, ids
<1> QED
  BY <1>2, <1>3, <1>4 DEF Answered

LEMMA ServedTypes ==
  ASSUME Types, NEW s \in Slots, Served(s)
  PROVE  RequestsKept /\ OthersTyped'
<1> DEFINE r == request[s]
<1>1. Sound(r) /\ OthersTyped
  BY SoundRequests, TypesSplit
<1> USE DEF OthersTyped, memory, database, window, answers, ids
<1>2. CASE AddProvider(s)
  <2>1. r.op = "add" /\ r.id \in Providers
    BY <1>1, <1>2, RequestFields DEF AddProvider, Handled, Sound
  <2> QED
    BY <1>1, <1>2, <2>1, AwaitsKeeps DEF AddProvider, Writes
<1>3. CASE DeleteProvider(s)
  <2>1. r.op = "drop" /\ r.at = "sent"
    BY <1>3 DEF DeleteProvider, Handled
  <2> QED
    BY <1>1, <1>3, <2>1, AwaitsKeeps, AnswersKeeps DEF DeleteProvider, Writes
<1>4. CASE SaveProfile(s)
  <2>1. r.op = "save" /\ r.id \in Profiles /\ r.val \in Providers
    BY <1>1, <1>4, RequestFields DEF SaveProfile, Handled, Sound
  <2> QED
    BY <1>1, <1>4, <2>1, AwaitsKeeps DEF SaveProfile, Writes, Table
<1>5. CASE DeleteProfile(s)
  <2>1. r.op = "forget" /\ r.id \in Profiles
    BY <1>1, <1>5, RequestFields DEF DeleteProfile, Handled, Sound
  <2> QED
    BY <1>1, <1>5, <2>1, AwaitsKeeps DEF DeleteProfile, Writes, Table
<1>6. CASE ListAll(s)
  <2>1. PICK val :
          /\ request' = [request EXCEPT ![s].at = "answered", ![s].reply = "ok", ![s].val = val]
          /\ \/ r.op = "providers" /\ val \in SUBSET Providers
             \/ r.op = "profiles" /\ val \in Table
    BY <1>1, <1>6 DEF ListAll, Handled
  <2> DEFINE q == [r EXCEPT !.at = "answered", !.reply = "ok", !.val = val]
  <2>2. q \in Requests
    BY <1>1, <2>1, Listed DEF Sound
  <2>3. q.op = r.op /\ q.at = "answered" /\ q.val = val
    BY <1>1 DEF Sound, Requests, RequestsOf
  <2>4. Sound(q)
    BY <2>1, <2>2, <2>3 DEF Sound
  <2>5. RequestsKept
    BY <2>1, <2>4, OneSound
  <2> QED
    BY <1>1, <1>6, <2>5 DEF ListAll
<1>7. CASE Commit(s)
  <2>1. r.op \in Writes
    BY <1>1, <1>7 DEF Commit, Sound
  <2>2. RequestsKept
    BY <1>7, <2>1, AnswersKeeps DEF Commit
  <2>3. rows' \subseteq Providers
    BY <1>1, <1>7, RequestFields DEF Commit, Sound
  <2>4. profileRows' \in Table
    BY <1>1, <1>7, RequestFields DEF Commit, Sound, Table
  <2> QED
    BY <1>1, <1>7, <2>2, <2>3, <2>4 DEF Commit
<1>8. CASE CommitFails(s)
  BY <1>1, <1>8, AnswersKeeps DEF CommitFails
<1> QED
  BY <1>2, <1>3, <1>4, <1>5, <1>6, <1>7, <1>8 DEF Served, Handle

LEMMA ProcessTypes ==
  ASSUME Types,
         \/ Start \/ Boots \/ LoadProviders \/ LoadProfiles \/ Reads
         \/ Dies \/ Closes \/ Exits \/ Strays
  PROVE  RequestsKept /\ OthersTyped'
<1>1. OthersTyped /\ Pending \subseteq Ids
  BY TypesSplit, PendingAreIds
<1> USE DEF OthersTyped, memory, database, window, answers, ids
<1>2. CASE Start
  BY <1>1, <1>2, AllIdle DEF Start, NoLists, Table
<1>3. CASE Boots \/ Reads \/ Strays
  BY <1>1, <1>3, RequestsStand DEF Boots, Reads, Strays, settingsVars
<1>4. CASE LoadProviders \/ LoadProfiles
  BY <1>1, <1>4, RequestsStand DEF LoadProviders, LoadProfiles
<1>5. CASE Dies
  <2>1. RequestsKept
    BY <1>5, AllIdle, LostKeeps DEF Dies
  <2> QED
    BY <1>1, <1>5, <2>1 DEF Dies
<1>6. CASE Closes
  BY <1>1, <1>6, AllIdle DEF Closes, NoLists, Table
<1>7. CASE Exits
  <2> DEFINE f == [s \in Slots |-> IF request[s].at = "answered" THEN Idle ELSE request[s]]
  <2>1. \A s \in Slots : Sound(f[s])
    BY SoundRequests, IdleIsRequest DEF Sound, Idle
  <2>2. request' = [s \in Slots |-> f[s]]
    BY <1>7 DEF Exits
  <2> HIDE DEF f
  <2>3. RequestsKept
    BY <2>1, <2>2, AllSound
  <2> QED
    BY <1>1, <1>7, <2>3 DEF Exits, NoLists, Table
<1> QED
  BY <1>2, <1>3, <1>4, <1>5, <1>6, <1>7

LEMMA StepTypes ==
  ASSUME Types, SidecarInv', [Next]_vars
  PROVE  Types'
<1>1. SidecarTypeOK'
  BY DEF SidecarInv
<1>2. RequestsKept /\ OthersTyped'
  <2>1. CASE UNCHANGED vars
    BY <2>1, RequestsStand, TypesSplit
       DEF vars, settingsVars, OthersTyped, memory, database, window, answers, ids
  <2> QED
    BY <2>1, ProcessTypes, AskTypes, AnsweredTypes, ServedTypes DEF Next
<1> QED
  BY <1>1, <1>2, TypesSplit

-----------------------------------------------------------------------------
(* Profiles and providers. *)

\* Between the two reads of a start nobody writes the tables.
LoadInv == child = "providers" => registry = rows

LinkInv == LoadInv /\ ProfilesAreLinked

LEMMA InitLinks == Init => LinkInv
BY DEF Init, SidecarInit, LinkInv, LoadInv, ProfilesAreLinked, ProfilesAreLoaded

\* The steps that leave the child where it is, memory and tables alone.
LEMMA LinksStand ==
  ASSUME LinkInv, UNCHANGED <<memory, database>>,
         UNCHANGED child
           \/ (child' # "providers" /\ (ProfilesAreLoaded' => ProfilesAreLoaded))
  PROVE  LinkInv'
BY DEF LinkInv, LoadInv, ProfilesAreLinked, ProfilesAreLoaded, memory, database

LEMMA CommitLinks ==
  ASSUME Types, LinkInv, NEW s \in Slots, Commit(s)
  PROVE  LinkInv'
<1> DEFINE r == request[s]
<1>1. Sound(r) /\ r.op \in Writes /\ OthersTyped
  BY SoundRequests, TypesSplit DEF Commit, Sound
<1>2. child = "serving" /\ child' = "serving" /\ UNCHANGED memory /\ Allowed(r)
  BY DEF Commit, sidecarVars, childVars
<1>3. ASSUME NEW f \in Profiles PROVE profileRows'[f] \in rows' \cup {None}
  <2>1. profileRows[f] \in rows \cup {None} /\ profileRows \in Table
    BY <1>1 DEF LinkInv, ProfilesAreLinked, OthersTyped
  <2>2. CASE r.op = "add"
    BY <2>1, <2>2 DEF Commit
  <2>3. CASE r.op = "drop"
    BY <1>2, <2>1, <2>3 DEF Commit, Allowed, Linked
  <2>4. CASE r.op = "save"
    BY <1>2, <2>1, <2>4 DEF Commit, Allowed, Table
  <2>5. CASE r.op = "forget"
    <3>1. r.val = None
      BY <1>1, <2>5, RequestFields DEF Sound
    <3> QED
      BY <2>1, <2>5, <3>1 DEF Commit, Table
  <2> QED
    BY <1>1, <2>2, <2>3, <2>4, <2>5 DEF Writes
<1> QED
  BY <1>2, <1>3 DEF LinkInv, LoadInv, ProfilesAreLinked, ProfilesAreLoaded, memory

LEMMA HandleLinks ==
  ASSUME Types, LinkInv, NEW s \in Slots, Handle(s)
  PROVE  LinkInv'
<1> DEFINE r == request[s]
<1>1. OthersTyped
  BY TypesSplit
<1>2. child = "serving" /\ child' = "serving" /\ UNCHANGED database
  BY DEF Handle, AddProvider, DeleteProvider, SaveProfile, DeleteProfile, ListAll, Handled,
         sidecarVars, childVars
<1>3. \A f \in Profiles : profileRows'[f] \in rows' \cup {None}
  BY <1>2 DEF LinkInv, ProfilesAreLinked, database
<1>4. ASSUME NEW f \in Profiles \ blind' PROVE llm_profiles'[f] \in registry' \cup {None}
  <2>1. f \notin blind => llm_profiles[f] \in registry \cup {None}
    BY <1>2, <1>4 DEF LinkInv, ProfilesAreLinked, ProfilesAreLoaded
  <2>2. CASE AddProvider(s) \/ ListAll(s)
    BY <1>4, <2>1, <2>2 DEF AddProvider, ListAll, memory
  <2>3. CASE DeleteProvider(s)
    BY <1>4, <2>1, <2>3 DEF DeleteProvider, Linked
  <2>4. CASE SaveProfile(s)
    BY <1>1, <1>4, <2>1, <2>4 DEF SaveProfile, OthersTyped, Table
  <2>5. CASE DeleteProfile(s)
    BY <1>1, <1>4, <2>1, <2>5 DEF DeleteProfile, OthersTyped, Table
  <2> QED
    BY <2>2, <2>3, <2>4, <2>5 DEF Handle
<1> QED
  BY <1>2, <1>3, <1>4 DEF LinkInv, LoadInv, ProfilesAreLinked

LEMMA StepLinks ==
  ASSUME Types, LinkInv, [Next]_vars
  PROVE  LinkInv'
<1>1. CASE LoadProviders
  BY <1>1 DEF LoadProviders, ReadProviders, LinkInv, LoadInv, ProfilesAreLinked,
              ProfilesAreLoaded, database
<1>2. CASE LoadProfiles
  BY <1>2 DEF LoadProfiles, ReadProfiles, LinkInv, LoadInv, ProfilesAreLinked,
              ProfilesAreLoaded, database
<1>3. CASE Start \/ Dies \/ Closes \/ Exits
  BY <1>3, LinksStand DEF Start, Launch, Dies, ChildFails, Closes, AppCloses, Shutdown,
                          Exits, AppExits, childVars, ProfilesAreLoaded
<1>4. CASE Boots
  BY <1>4, LinksStand DEF Boots, Migrate, SetVersion, EmitHandshake, Serve, settingsVars,
                          ProfilesAreLoaded
<1>5. CASE Reads \/ Strays
  BY <1>5, LinksStand DEF Reads, ReadHandshake, ClientFails, SpawnFails,
                          Strays, StraySteps, StrayMigrates, StrayEnds, settingsVars, childVars
<1>6. ASSUME NEW s \in Slots, AskNew(s) \/ AskOther(s) \/ Answered(s) \/ CommitFails(s)
      PROVE  LinkInv'
  BY <1>6, LinksStand DEF AskNew, AskOther, Ask, Answered, Refuse, ReceiveOk, ReceiveError,
                          CommitFails, sidecarVars, childVars
<1>7. CASE UNCHANGED vars
  BY <1>7, LinksStand DEF vars, sidecarVars, childVars, settingsVars
<1> QED
  BY <1>1, <1>2, <1>3, <1>4, <1>5, <1>6, <1>7, CommitLinks, HandleLinks DEF Next, Served

-----------------------------------------------------------------------------
(* Requests in flight. *)

\* A write that may have changed something: it was handled and not refused, or nobody
\* knows what became of it.
Effective(s) ==
  /\ Writing(s)
  /\ request[s].at = "writing" \/ (request[s].at = "answered" /\ request[s].reply # "refused")

Underway(x) == \E s \in Slots : Effective(s) /\ request[s].id = x

\* It has been answered with ok.
Done(s) == request[s].at = "answered" /\ request[s].reply = "ok"

\* The ids of the writes.
LEMMA WhatIsPending ==
  \A x : x \in Pending <=> \E s \in Slots : Writing(s) /\ request[s].id = x
BY DEF Pending, Written

\* What is left when only the state of a request changes.
SameBut(s) ==
  /\ \A t \in Slots \ {s} : request'[t] = request[t]
  /\ request'[s].op = request[s].op /\ request'[s].id = request[s].id
  /\ request'[s].alone = request[s].alone /\ request'[s].touched = request[s].touched

\* A handler that goes on to the database.
LEMMA AwaitsFields ==
  ASSUME Types, NEW s \in Slots, Awaits(s)
  PROVE  /\ SameBut(s) /\ request'[s].val = request[s].val
         /\ request'[s].at = "writing" /\ request'[s].reply = request[s].reply
<1>1. request \in [Slots -> Requests] /\ request[s] \in Requests
  BY DEF Types, TypeOK
<1>2. request' = [request EXCEPT ![s] = [request[s] EXCEPT !.at = "writing"]]
  BY DEF Awaits
<1>3. (\A t \in Slots \ {s} : request'[t] = request[t]) /\ request'[s] = [request[s] EXCEPT !.at = "writing"]
  BY <1>1, <1>2
<1> QED
  BY <1>1, <1>3 DEF SameBut, Requests, RequestsOf

\* A request that is answered.
LEMMA AnswersFields ==
  ASSUME Types, NEW s \in Slots, NEW reply, Answers(s, reply)
  PROVE  /\ SameBut(s) /\ request'[s].val = request[s].val
         /\ request'[s].at = "answered" /\ request'[s].reply = reply
<1>1. request \in [Slots -> Requests] /\ request[s] \in Requests
  BY DEF Types, TypeOK
<1>2. request' = [request EXCEPT ![s] = [request[s] EXCEPT !.at = "answered", !.reply = reply]]
  BY DEF Answers
<1>3. /\ \A t \in Slots \ {s} : request'[t] = request[t]
      /\ request'[s] = [request[s] EXCEPT !.at = "answered", !.reply = reply]
  BY <1>1, <1>2
<1> QED
  BY <1>1, <1>3 DEF SameBut, Requests, RequestsOf

\* A list is answered with what the memory holds.
LEMMA ListAllFields ==
  ASSUME Types, NEW s \in Slots, ListAll(s)
  PROVE  /\ SameBut(s) /\ request[s].at = "sent" /\ Done(s)' /\ request[s].op \notin Writes
         /\ request[s].op = "providers" => request'[s].val = registry
         /\ request[s].op = "profiles" => request'[s].val = llm_profiles
<1>1. request \in [Slots -> Requests] /\ request[s] \in Requests
  BY DEF Types, TypeOK
<1>2. PICK val :
        /\ request' = [request EXCEPT ![s] = [request[s] EXCEPT !.at = "answered", !.reply = "ok", !.val = val]]
        /\ \/ request[s].op = "providers" /\ val = registry
           \/ request[s].op = "profiles" /\ val = llm_profiles
        /\ request[s].at = "sent"
  BY DEF ListAll, Handled
<1>3. /\ \A t \in Slots \ {s} : request'[t] = request[t]
      /\ request'[s] = [request[s] EXCEPT !.at = "answered", !.reply = "ok", !.val = val]
  BY <1>1, <1>2
<1> QED
  BY <1>1, <1>2, <1>3 DEF SameBut, Done, Requests, RequestsOf, Writes

\* A slot that has had its answer waits for nothing.
LEMMA IdleFields ==
  ASSUME Types, NEW s \in Slots, NEW r, request' = [request EXCEPT ![s] = r]
  PROVE  request'[s] = r /\ \A t \in Slots \ {s} : request'[t] = request[t]
BY DEF Types, TypeOK

\* A request that joins those in flight.
LEMMA JoinedFields ==
  ASSUME Types, NEW s \in Slots, NEW r, Ask(s, r)
  PROVE  /\ request'[s] = r
         /\ \A t \in Slots \ {s} :
              /\ request'[t].op = request[t].op /\ request'[t].id = request[t].id
              /\ request'[t].val = request[t].val
              /\ request'[t].at = request[t].at /\ request'[t].reply = request[t].reply
              /\ request'[t].alone => request[t].alone
              /\ r.op \in Writes /\ Writing(t) /\ r.id = request[t].id => ~request'[t].alone
              /\ Busy(t) /\ ~Writing(t) /\ r.op \in Writes => r.id \in request'[t].touched
              /\ request[t].touched \subseteq request'[t].touched
              /\ request'[t].touched \subseteq
                   request[t].touched \cup (IF r.op \in Writes THEN {r.id} ELSE {})
<1>1. request' = Joined(s, r)
  BY DEF Ask
<1>2. request'[s] = r
  BY <1>1 DEF Joined
<1>3. ASSUME NEW t \in Slots \ {s}
      PROVE  /\ request'[t].op = request[t].op /\ request'[t].id = request[t].id
             /\ request'[t].val = request[t].val
             /\ request'[t].at = request[t].at /\ request'[t].reply = request[t].reply
             /\ request'[t].alone => request[t].alone
             /\ r.op \in Writes /\ Writing(t) /\ r.id = request[t].id => ~request'[t].alone
             /\ Busy(t) /\ ~Writing(t) /\ r.op \in Writes => r.id \in request'[t].touched
             /\ request[t].touched \subseteq request'[t].touched
             /\ request'[t].touched \subseteq
                  request[t].touched \cup (IF r.op \in Writes THEN {r.id} ELSE {})
  <2> DEFINE q == request[t]
  <2>1. q \in Requests
    BY DEF Types, TypeOK
  <2>2. CASE ~Busy(t) \/ r.op \notin Writes
    <3>1. request'[t] = request[t]
      BY <1>1, <2>2 DEF Joined
    <3> QED
      BY <2>2, <3>1 DEF Writing
  <2>3. CASE Busy(t) /\ r.op \in Writes /\ Writing(t)
    <3>1. request'[t] = [q EXCEPT !.alone = q.alone /\ r.id # q.id]
      BY <1>1, <2>3 DEF Joined
    <3> QED
      BY <2>1, <2>3, <3>1 DEF Requests, RequestsOf
  <2>4. CASE Busy(t) /\ r.op \in Writes /\ ~Writing(t)
    <3>1. request'[t] = [q EXCEPT !.touched = q.touched \cup {r.id}]
      BY <1>1, <2>4 DEF Joined
    <3> QED
      BY <2>1, <2>4, <3>1 DEF Requests, RequestsOf
  <2> QED
    BY <2>2, <2>3, <2>4
<1> QED
  BY <1>2, <1>3

\* What the death of the sidecar makes of a request.
LEMMA LostFields ==
  ASSUME Types, NEW arrived, request' = Lost(arrived), NEW s \in Slots
  PROVE  \/ request'[s] = request[s] /\ (s \in arrived \/ ~Busy(s))
         \/ /\ Busy(s) /\ request'[s].at = "answered" /\ request'[s].reply = "failed"
            /\ request'[s].op = request[s].op /\ request'[s].id = request[s].id
            /\ request'[s].alone = request[s].alone /\ request'[s].touched = request[s].touched
<1>1. request[s] \in Requests
  BY DEF Types, TypeOK
<1>2. request'[s] = IF Busy(s) /\ s \notin arrived
                    THEN [request[s] EXCEPT !.at = "answered", !.reply = "failed"]
                    ELSE request[s]
  BY DEF Lost
<1> QED
  BY <1>1, <1>2 DEF Requests, RequestsOf

-----------------------------------------------------------------------------
(* What the memory, the tables, the answers and the lists have of an id. *)

Absent(x) == IF x \in Providers THEN 0 ELSE None
InMemory(x) == IF x \in Providers THEN IF x \in registry THEN 1 ELSE 0 ELSE llm_profiles[x]
InTable(x) == IF x \in Providers THEN IF x \in rows THEN 1 ELSE 0 ELSE profileRows[x]
InAnswers(x) == IF x \in Providers THEN IF x \in told THEN 1 ELSE 0 ELSE toldProfiles[x]
InList(x) == IF x \in Providers THEN shown[x] ELSE shownProfiles[x]

\* What a write is to make of its id.
Wanted(s) ==
  IF request[s].op = "add" THEN 1 ELSE IF request[s].op = "drop" THEN 0 ELSE request[s].val

\* The memory has been read from the tables since the sidecar was started.
Loaded(x) == IF x \in Providers THEN RegistryIsLoaded ELSE ProfilesAreLoaded

\* A handler that awaits the database has written the memory, of its own id only; one
\* that has refused has left it as it was.
LEMMA HandleEffects ==
  ASSUME Types, NEW s \in Slots, Handle(s), request[s].op \in Writes
  PROVE  /\ request[s].at = "sent" /\ child = "serving"
         /\ UNCHANGED <<sidecarVars, database, window, answers, ids>>
         /\ \/ Answers(s, "refused") /\ UNCHANGED memory
            \/ /\ Awaits(s)
               /\ \A x \in Ids : InMemory(x)' = IF x = request[s].id THEN Wanted(s) ELSE InMemory(x)
<1> DEFINE r == request[s]
<1>1. r \in Requests /\ OthersTyped
  BY TypesSplit DEF Types, TypeOK
<1>2. Providers \cap Profiles = {} /\ Ids = Providers \cup Profiles
  BY SettingsAssumption DEF Ids
<1>3. ~ListAll(s)
  BY DEF ListAll, Handled, Writes
<1>4. CASE AddProvider(s)
  <2>1. r.op = "add" /\ r.id \in Providers /\ registry' = registry \cup {r.id} /\ llm_profiles' = llm_profiles
    BY <1>1, <1>4, RequestFields DEF AddProvider, Handled
  <2>2. \A x \in Ids : InMemory(x)' = IF x = r.id THEN Wanted(s) ELSE InMemory(x)
    BY <1>2, <2>1 DEF InMemory, Wanted
  <2> QED
    BY <1>4, <2>2 DEF AddProvider, Handled
<1>5. CASE DeleteProvider(s)
  <2>1. r.op = "drop" /\ r.id \in Providers /\ llm_profiles' = llm_profiles
    BY <1>1, <1>5, RequestFields DEF DeleteProvider, Handled
  <2>2. CASE Answers(s, "refused") /\ UNCHANGED registry
    BY <1>5, <2>2 DEF DeleteProvider, Handled, memory
  <2>3. CASE Awaits(s) /\ registry' = registry \ {r.id}
    <3>1. \A x \in Ids : InMemory(x)' = IF x = r.id THEN Wanted(s) ELSE InMemory(x)
      BY <1>2, <2>1, <2>3 DEF InMemory, Wanted
    <3> QED
      BY <1>5, <2>3, <3>1 DEF DeleteProvider, Handled
  <2> QED
    BY <1>5, <2>2, <2>3 DEF DeleteProvider
<1>6. CASE SaveProfile(s) \/ DeleteProfile(s)
  <2>1. /\ r.op \in {"save", "forget"} /\ r.id \in Profiles /\ registry' = registry
        /\ llm_profiles' = [llm_profiles EXCEPT ![r.id] = r.val]
    BY <1>1, <1>6, RequestFields DEF SaveProfile, DeleteProfile, Handled
  <2>2. llm_profiles \in [Profiles -> Providers \cup {None}]
    BY <1>1 DEF OthersTyped, Table
  <2>3. \A x \in Ids : InMemory(x)' = IF x = r.id THEN Wanted(s) ELSE InMemory(x)
    BY <1>2, <2>1, <2>2 DEF InMemory, Wanted
  <2> QED
    BY <1>6, <2>3 DEF SaveProfile, DeleteProfile, Handled
<1> QED
  BY <1>3, <1>4, <1>5, <1>6 DEF Handle

\* A commit writes the tables, of its own id only.
LEMMA CommitEffects ==
  ASSUME Types, NEW s \in Slots, Commit(s)
  PROVE  /\ request[s].op \in Writes /\ request[s].at = "writing"
         /\ UNCHANGED <<sidecarVars, memory, window, answers, ids>> /\ Answers(s, "ok")
         /\ \A x \in Ids : InTable(x)' = IF x = request[s].id THEN Wanted(s) ELSE InTable(x)
<1> DEFINE r == request[s]
<1>1. r \in Requests /\ Sound(r) /\ OthersTyped
  BY SoundRequests, TypesSplit DEF Types, TypeOK
<1>2. Providers \cap Profiles = {} /\ Ids = Providers \cup Profiles
  BY SettingsAssumption DEF Ids
<1>3. r.op \in Writes /\ r.at = "writing"
  BY <1>1 DEF Commit, Sound
<1>4. \A x \in Ids : InTable(x)' = IF x = r.id THEN Wanted(s) ELSE InTable(x)
  <2>1. CASE r.op \in {"add", "drop"}
    <3>1. /\ r.id \in Providers /\ profileRows' = profileRows
          /\ rows' = IF r.op = "add" THEN rows \cup {r.id} ELSE rows \ {r.id}
      BY <1>1, <2>1, RequestFields DEF Commit
    <3> QED
      BY <1>2, <2>1, <3>1 DEF InTable, Wanted
  <2>2. CASE r.op \in {"save", "forget"}
    <3>1. /\ r.id \in Profiles /\ rows' = rows
          /\ profileRows' = [profileRows EXCEPT ![r.id] = r.val]
          /\ profileRows \in [Profiles -> Providers \cup {None}]
      BY <1>1, <2>2, RequestFields DEF Commit, OthersTyped, Table
    <3> QED
      BY <1>2, <2>2, <3>1 DEF InTable, Wanted
  <2> QED
    BY <1>3, <2>1, <2>2 DEF Writes
<1> QED
  BY <1>3, <1>4 DEF Commit

\* A good answer to a write tells what was wanted, and leaves what is listed of other
\* ids as it was.
LEMMA ReceiveEffects ==
  ASSUME Types, NEW s \in Slots, ReceiveOk(s), request[s].op \in Writes
  PROVE  /\ Done(s) /\ app = "open" /\ UNCHANGED <<sidecarVars, memory, database, ids>>
         /\ doubt' = IF request[s].alone THEN doubt \ {request[s].id} ELSE doubt \cup {request[s].id}
         /\ stale' = IF request[s].alone THEN stale ELSE stale \cup {request[s].id}
         /\ \A x \in Ids : InAnswers(x)' = IF x = request[s].id THEN Wanted(s) ELSE InAnswers(x)
         /\ \A x \in Ids \ {request[s].id} : InList(x)' = InList(x)
         /\ \A x \in Ids : x = request[s].id =>
              /\ request[s].op = "save" => InList(x)' = InList(x)
              /\ request[s].op \in {"drop", "forget"} => InList(x)' = Wanted(s)
              /\ request[s].op = "add" /\ InList(x) = 0 => InList(x)' = 1
<1> DEFINE r == request[s]
<1>1. r \in Requests /\ OthersTyped
  BY TypesSplit DEF Types, TypeOK
<1>2. Providers \cap Profiles = {} /\ Ids = Providers \cup Profiles
  BY SettingsAssumption DEF Ids
<1>3. /\ shown \in [Providers -> Nat] /\ shownProfiles \in [Profiles -> Providers \cup {None}]
      /\ toldProfiles \in [Profiles -> Providers \cup {None}]
  BY <1>1 DEF OthersTyped, Table
<1>4. /\ Done(s) /\ app = "open" /\ UNCHANGED <<sidecarVars, memory, database, ids>>
      /\ doubt' = IF r.alone THEN doubt \ {r.id} ELSE doubt \cup {r.id}
      /\ stale' = IF r.alone THEN stale ELSE stale \cup {r.id}
  BY DEF ReceiveOk, Learn, Done, Writes
<1>5. CASE r.op = "add"
  <2>1. /\ r.id \in Providers /\ told' = told \cup {r.id} /\ toldProfiles' = toldProfiles
        /\ shown' = [shown EXCEPT ![r.id] = @ + 1] /\ shownProfiles' = shownProfiles
    BY <1>1, <1>5, RequestFields DEF ReceiveOk, Learn, ListsAfter
  <2>2. \A x \in Ids : InAnswers(x)' = IF x = r.id THEN Wanted(s) ELSE InAnswers(x)
    BY <1>2, <1>3, <1>5, <2>1 DEF InAnswers, Wanted
  <2>3. \A x \in Ids \ {r.id} : InList(x)' = InList(x)
    BY <1>2, <1>3, <2>1 DEF InList
  <2>4. \A x \in Ids : x = r.id => (InList(x) = 0 => InList(x)' = 1)
    BY <1>2, <1>3, <1>5, <2>1 DEF InList, Wanted
  <2>5. \A x \in Ids : x = r.id =>
          /\ r.op = "save" => InList(x)' = InList(x)
          /\ r.op \in {"drop", "forget"} => InList(x)' = Wanted(s)
          /\ r.op = "add" /\ InList(x) = 0 => InList(x)' = 1
    BY <1>5, <2>4
  <2> QED
    BY <1>4, <2>2, <2>3, <2>5
<1>6. CASE r.op = "drop"
  <2>1. /\ r.id \in Providers /\ told' = told \ {r.id} /\ toldProfiles' = toldProfiles
        /\ shown' = [shown EXCEPT ![r.id] = 0] /\ shownProfiles' = shownProfiles
    BY <1>1, <1>6, RequestFields DEF ReceiveOk, Learn, ListsAfter
  <2>2. \A x \in Ids : InAnswers(x)' = IF x = r.id THEN Wanted(s) ELSE InAnswers(x)
    BY <1>2, <1>3, <1>6, <2>1 DEF InAnswers, Wanted
  <2>3. \A x \in Ids \ {r.id} : InList(x)' = InList(x)
    BY <1>2, <1>3, <2>1 DEF InList
  <2>4. \A x \in Ids : x = r.id => InList(x)' = Wanted(s)
    BY <1>2, <1>3, <1>6, <2>1 DEF InList, Wanted
  <2>5. \A x \in Ids : x = r.id =>
          /\ r.op = "save" => InList(x)' = InList(x)
          /\ r.op \in {"drop", "forget"} => InList(x)' = Wanted(s)
          /\ r.op = "add" /\ InList(x) = 0 => InList(x)' = 1
    BY <1>6, <2>4
  <2> QED
    BY <1>4, <2>2, <2>3, <2>5
<1>7. CASE r.op = "save"
  <2>1. /\ r.id \in Profiles /\ told' = told /\ toldProfiles' = [toldProfiles EXCEPT ![r.id] = r.val]
        /\ shown' = shown /\ shownProfiles' = shownProfiles
    BY <1>1, <1>7, RequestFields DEF ReceiveOk, Learn, ListsAfter
  <2>2. \A x \in Ids : InAnswers(x)' = IF x = r.id THEN Wanted(s) ELSE InAnswers(x)
    BY <1>2, <1>3, <1>7, <2>1 DEF InAnswers, Wanted
  <2>3. \A x \in Ids \ {r.id} : InList(x)' = InList(x)
    BY <1>2, <1>3, <2>1 DEF InList
  <2>4. \A x \in Ids : x = r.id => InList(x)' = InList(x)
    BY <1>2, <1>3, <1>7, <2>1 DEF InList, Wanted
  <2>5. \A x \in Ids : x = r.id =>
          /\ r.op = "save" => InList(x)' = InList(x)
          /\ r.op \in {"drop", "forget"} => InList(x)' = Wanted(s)
          /\ r.op = "add" /\ InList(x) = 0 => InList(x)' = 1
    BY <1>7, <2>4
  <2> QED
    BY <1>4, <2>2, <2>3, <2>5
<1>8. CASE r.op = "forget"
  <2>1. /\ r.id \in Profiles /\ told' = told /\ toldProfiles' = [toldProfiles EXCEPT ![r.id] = r.val]
        /\ shown' = shown /\ shownProfiles' = [shownProfiles EXCEPT ![r.id] = None] /\ r.val = None
    BY <1>1, <1>8, RequestFields DEF ReceiveOk, Learn, ListsAfter
  <2>2. \A x \in Ids : InAnswers(x)' = IF x = r.id THEN Wanted(s) ELSE InAnswers(x)
    BY <1>2, <1>3, <1>8, <2>1 DEF InAnswers, Wanted
  <2>3. \A x \in Ids \ {r.id} : InList(x)' = InList(x)
    BY <1>2, <1>3, <2>1 DEF InList
  <2>4. \A x \in Ids : x = r.id => InList(x)' = Wanted(s)
    BY <1>2, <1>3, <1>8, <2>1 DEF InList, Wanted
  <2>5. \A x \in Ids : x = r.id =>
          /\ r.op = "save" => InList(x)' = InList(x)
          /\ r.op \in {"drop", "forget"} => InList(x)' = Wanted(s)
          /\ r.op = "add" /\ InList(x) = 0 => InList(x)' = 1
    BY <1>8, <2>4
  <2> QED
    BY <1>4, <2>2, <2>3, <2>5
<1> QED
  BY <1>5, <1>6, <1>7, <1>8 DEF Writes

-----------------------------------------------------------------------------
(* What the answers tell. *)

\* A sidecar that serves is there for every write, and every answer is one of three.
FlightInv ==
  \A s \in Slots :
    /\ request[s].at = "writing" => child = "serving"
    /\ request[s].at = "answered" => request[s].reply # "none"

\* What a window that was closed waited for is in doubt.
ClosedInv == app # "open" => Pending \subseteq doubt

\* A write that is alone shares its id with no other.
AloneInv ==
  \A s, t \in Slots :
    s # t /\ Writing(s) /\ Writing(t) /\ request[s].id = request[t].id => ~request[s].alone

\* A write that is alone, once handled, is in the memory; once done, in the tables too,
\* and in the memory of every later sidecar.
DoneInv ==
  \A s \in Slots, x \in Ids :
    Writing(s) /\ request[s].alone /\ request[s].id = x =>
      /\ request[s].at = "writing" => InMemory(x) = Wanted(s)
      /\ Done(s) => InTable(x) = Wanted(s) /\ (Loaded(x) => InMemory(x) = Wanted(s))

\* Without doubt and without a write under way the answers are right.
AgreeInv ==
  \A x \in Ids \ doubt :
    ~Underway(x) =>
      InAnswers(x) = InTable(x) /\ (Loaded(x) => InAnswers(x) = InMemory(x))

AnswersInv == FlightInv /\ ClosedInv /\ AloneInv /\ DoneInv /\ AgreeInv

\* A request that a step leaves as it was, but that it may no longer be alone.
Calm(s) ==
  /\ request'[s].op = request[s].op /\ request'[s].id = request[s].id
  /\ request'[s].val = request[s].val
  /\ request'[s].at = request[s].at /\ request'[s].reply = request[s].reply
  /\ request'[s].alone => request[s].alone

\* A step that takes up no write.
NoNewWrite ==
  \A s \in Slots :
    Writing(s)' =>
      /\ Writing(s) /\ request'[s].id = request[s].id
      /\ request'[s].alone => request[s].alone

\* The sidecar's memory is not read from the tables by this step.
NothingLoaded ==
  (RegistryIsLoaded' => RegistryIsLoaded) /\ (ProfilesAreLoaded' => ProfilesAreLoaded)

\* A step that takes up no write keeps apart those that are alone.
LEMMA AloneStands ==
  ASSUME AloneInv, NoNewWrite
  PROVE  AloneInv' /\ Pending' \subseteq Pending
<1>1. AloneInv'
  BY DEF AloneInv, NoNewWrite
<1>2. Pending' \subseteq Pending
  BY DEF NoNewWrite, Pending, Written
<1> QED
  BY <1>1, <1>2

\* What the answers tell stands while nothing is written and no more is settled.
LEMMA AgreeStands ==
  ASSUME AgreeInv, UNCHANGED <<memory, database, told, toldProfiles>>, NothingLoaded,
         \A x \in Ids \ doubt' : x \notin doubt /\ (Underway(x) => Underway(x)')
  PROVE  AgreeInv'
<1>1. ASSUME NEW x \in Ids
      PROVE  /\ InAnswers(x)' = InAnswers(x) /\ InTable(x)' = InTable(x) /\ InMemory(x)' = InMemory(x)
             /\ Loaded(x)' => Loaded(x)
  BY DEF InAnswers, InTable, InMemory, Loaded, NothingLoaded, memory, database
<1> QED
  BY <1>1 DEF AgreeInv

\* What a write has done stands while nothing is written and no write moves on.
LEMMA DoneStands ==
  ASSUME DoneInv, UNCHANGED <<memory, database>>, NothingLoaded,
         \A s \in Slots : Calm(s) \/ ~(Writing(s)' /\ (request'[s].at = "writing" \/ Done(s)'))
  PROVE  DoneInv'
<1>1. ASSUME NEW x \in Ids
      PROVE  /\ InTable(x)' = InTable(x) /\ InMemory(x)' = InMemory(x)
             /\ Loaded(x)' => Loaded(x)
  BY DEF InTable, InMemory, Loaded, NothingLoaded, memory, database
<1> SUFFICES ASSUME NEW s \in Slots, NEW x \in Ids,
                    Writing(s)', request'[s].alone, request'[s].id = x,
                    request'[s].at = "writing" \/ Done(s)'
             PROVE  /\ request'[s].at = "writing" => InMemory(x)' = Wanted(s)'
                    /\ Done(s)' => InTable(x)' = Wanted(s)' /\ (Loaded(x)' => InMemory(x)' = Wanted(s)')
  BY DEF DoneInv
<1>2. Calm(s)
  OBVIOUS
<1>3. /\ Writing(s) /\ request[s].alone /\ request[s].id = x /\ Wanted(s)' = Wanted(s)
      /\ Done(s)' <=> Done(s)
      /\ request'[s].at = request[s].at
  BY <1>2 DEF Calm, Writing, Busy, Wanted, Done
<1> QED
  BY <1>1, <1>3 DEF DoneInv

\* A request that is sent has changed nothing yet.
LEMMA AskAnswers ==
  ASSUME Types, AnswersInv, NEW s \in Slots, NEW r, Ask(s, r), r.at = "sent",
         r.op \in Writes => r.alone = ~InFlight(r.id)
  PROVE  AnswersInv'
<1>1. /\ ~Busy(s) /\ app = "open" /\ request'[s] = r
      /\ UNCHANGED <<sidecarVars, memory, database, window, answers>>
  BY JoinedFields DEF Ask
<1>2. \A t \in Slots \ {s} :
        Calm(t) /\ (r.op \in Writes /\ Writing(t) /\ r.id = request[t].id => ~request'[t].alone)
  BY JoinedFields DEF Calm
<1>3. UNCHANGED <<child, app, told, toldProfiles, doubt>>
  BY <1>1 DEF sidecarVars, childVars, bridgeVars, answers
<1>4. NothingLoaded
  BY <1>3 DEF NothingLoaded, RegistryIsLoaded, ProfilesAreLoaded
<1>5. \A t \in Slots \ {s} :
        /\ Writing(t)' <=> Writing(t)
        /\ Effective(t)' <=> Effective(t)
        /\ request'[t].id = request[t].id
  BY <1>2 DEF Calm, Writing, Busy, Effective
<1>6. ~Writing(s) /\ ~Effective(s) /\ ~Effective(s)'
  BY <1>1 DEF Writing, Effective
<1>7. FlightInv'
  BY <1>1, <1>2, <1>3 DEF AnswersInv, FlightInv, Calm
<1>8. AloneInv'
  <2> SUFFICES ASSUME NEW t \in Slots, NEW u \in Slots, t # u, Writing(t)', Writing(u)',
                      request'[t].id = request'[u].id
               PROVE  ~request'[t].alone
    BY DEF AloneInv
  <2>1. CASE t # s /\ u # s
    BY <1>2, <1>5, <2>1 DEF AnswersInv, AloneInv, Calm
  <2>2. CASE t = s
    <3>1. Writing(u) /\ request[u].id = r.id /\ r.op \in Writes
      BY <1>1, <1>5, <2>2 DEF Writing
    <3>2. InFlight(r.id)
      BY <3>1 DEF InFlight
    <3> QED
      BY <1>1, <2>2, <3>1, <3>2
  <2>3. CASE u = s
    <3>1. Writing(t) /\ request[t].id = r.id /\ r.op \in Writes
      BY <1>1, <1>5, <2>3 DEF Writing
    <3> QED
      BY <1>2, <2>3, <3>1
  <2> QED
    BY <2>1, <2>2, <2>3
<1>9. DoneInv'
  <2>1. ~(request'[s].at = "writing" \/ Done(s)')
    BY <1>1 DEF Done
  <2> QED
    BY <1>1, <1>2, <1>4, <2>1, DoneStands DEF AnswersInv
<1>10. AgreeInv'
  <2>1. \A x : Underway(x) => Underway(x)'
    BY <1>5, <1>6 DEF Underway
  <2> QED
    BY <1>1, <1>3, <1>4, <2>1, AgreeStands DEF AnswersInv
<1> QED
  BY <1>1, <1>3, <1>7, <1>8, <1>9, <1>10 DEF AnswersInv, ClosedInv

\* An answer that nothing was done for, or that leaves open what was.
LEMMA AnswerAnswers ==
  ASSUME Types, AnswersInv, NEW s \in Slots, SameBut(s), Busy(s),
         UNCHANGED <<app, child, memory, database, told, toldProfiles, doubt>>,
         request'[s].at = "answered", request'[s].reply # "none",
         request[s].op \in Writes =>
           request'[s].reply = "failed" \/ (request'[s].reply = "refused" /\ ~Effective(s))
  PROVE  AnswersInv'
<1>1. NothingLoaded
  BY DEF NothingLoaded, RegistryIsLoaded, ProfilesAreLoaded
<1>2. \A t \in Slots \ {s} : Calm(t) /\ (Effective(t)' <=> Effective(t))
  BY DEF SameBut, Calm, Effective, Writing, Busy
<1>3. \A t \in Slots :
        /\ request'[t].id = request[t].id /\ request'[t].alone = request[t].alone
        /\ Writing(t)' <=> Writing(t)
  BY DEF SameBut, Writing, Busy
<1>4. FlightInv'
  BY <1>2 DEF AnswersInv, FlightInv, Calm
<1>5. AloneInv' /\ Pending' \subseteq Pending
  BY <1>3, AloneStands DEF AnswersInv, NoNewWrite
<1>6. DoneInv'
  <2>1. ~(Writing(s)' /\ (request'[s].at = "writing" \/ Done(s)'))
    BY DEF SameBut, Writing, Done
  <2> QED
    BY <1>1, <1>2, <2>1, DoneStands DEF AnswersInv
<1>7. AgreeInv'
  <2>1. Effective(s) => Effective(s)'
    BY DEF SameBut, Effective, Writing, Busy
  <2>2. \A x : Underway(x) => Underway(x)'
    BY <1>2, <1>3, <2>1 DEF Underway
  <2> QED
    BY <1>1, <2>2, AgreeStands DEF AnswersInv
<1> QED
  BY <1>4, <1>5, <1>6, <1>7 DEF AnswersInv, ClosedInv

\* The memory is written, the tables are not: the write is under way.
LEMMA HandleAnswers ==
  ASSUME Types, AnswersInv, NEW s \in Slots, Handle(s)
  PROVE  AnswersInv'
<1> DEFINE r == request[s]
<1>1. CASE r.op \notin Writes
  <2>1. ListAll(s)
    BY <1>1 DEF Handle, AddProvider, DeleteProvider, SaveProfile, DeleteProfile, Handled, Writes
  <2>2. SameBut(s) /\ request[s].at = "sent" /\ Done(s)'
    BY <2>1, ListAllFields
  <2> QED
    BY <1>1, <2>1, <2>2, AnswerAnswers
       DEF ListAll, Busy, Done, sidecarVars, bridgeVars, childVars, answers
<1>2. CASE r.op \in Writes
  <2>1. /\ r.at = "sent" /\ child = "serving"
        /\ UNCHANGED <<app, child, database, told, toldProfiles, doubt>>
    BY <1>2, HandleEffects DEF sidecarVars, bridgeVars, childVars, answers
  <2>2. Writing(s) /\ ~Effective(s)
    BY <1>2, <2>1 DEF Writing, Busy, Effective
  <2>3. CASE Answers(s, "refused") /\ UNCHANGED memory
    <3>1. SameBut(s) /\ request'[s].at = "answered" /\ request'[s].reply = "refused"
      BY <2>3, AnswersFields
    <3> QED
      BY <1>2, <2>1, <2>2, <2>3, <3>1, AnswerAnswers DEF Writing
  <2>4. CASE /\ Awaits(s)
             /\ \A x \in Ids : InMemory(x)' = IF x = r.id THEN Wanted(s) ELSE InMemory(x)
    <3>1. /\ SameBut(s) /\ request'[s].val = r.val /\ request'[s].at = "writing"
          /\ request'[s].reply = r.reply
      BY <2>4, AwaitsFields
    <3>2. Wanted(s)' = Wanted(s) /\ Writing(s)' /\ Effective(s)'
      BY <2>2, <3>1 DEF SameBut, Wanted, Writing, Busy, Effective
    <3>3. \A t \in Slots \ {s} : Calm(t) /\ (Effective(t)' <=> Effective(t))
      BY <3>1 DEF SameBut, Calm, Effective, Writing, Busy
    <3>4. \A t \in Slots :
            /\ request'[t].id = request[t].id /\ request'[t].alone = request[t].alone
            /\ Writing(t)' <=> Writing(t)
      BY <2>2, <3>1, <3>2 DEF SameBut, Writing, Busy
    <3>5. FlightInv'
      BY <2>1, <3>1, <3>3 DEF AnswersInv, FlightInv, Calm
    <3>6. AloneInv' /\ Pending' \subseteq Pending
      BY <3>4, AloneStands DEF AnswersInv, NoNewWrite
    <3>7. \A x \in Ids : InTable(x)' = InTable(x) /\ InAnswers(x)' = InAnswers(x) /\ (Loaded(x)' <=> Loaded(x))
      BY <2>1 DEF InTable, InAnswers, Loaded, RegistryIsLoaded, ProfilesAreLoaded, database
    <3>8. DoneInv'
      <4> SUFFICES ASSUME NEW t \in Slots, NEW x \in Ids,
                          Writing(t)', request'[t].alone, request'[t].id = x
                   PROVE  /\ request'[t].at = "writing" => InMemory(x)' = Wanted(t)'
                          /\ Done(t)' => /\ InTable(x)' = Wanted(t)'
                                         /\ Loaded(x)' => InMemory(x)' = Wanted(t)'
        BY DEF DoneInv
      <4>1. CASE t = s
        <5>1. ~Done(t)' /\ x = r.id
          BY <3>1, <4>1 DEF Done, SameBut
        <5> QED
          BY <2>4, <3>2, <4>1, <5>1
      <4>2. CASE t # s
        <5>1. Writing(t) /\ request[t].alone /\ request[t].id = x
          BY <3>4
        <5>2. x # r.id
          BY <2>2, <4>2, <5>1 DEF AnswersInv, AloneInv
        <5>3. Wanted(t)' = Wanted(t) /\ (Done(t)' <=> Done(t)) /\ request'[t].at = request[t].at
          BY <3>3, <4>2 DEF Calm, Wanted, Done
        <5>4. InMemory(x)' = InMemory(x)
          BY <2>4, <5>2
        <5> QED
          BY <3>7, <5>1, <5>3, <5>4 DEF AnswersInv, DoneInv
      <4> QED
        BY <4>1, <4>2
    <3>9. AgreeInv'
      <4> SUFFICES ASSUME NEW x \in Ids \ doubt', ~Underway(x)'
                   PROVE  InAnswers(x)' = InTable(x)' /\ (Loaded(x)' => InAnswers(x)' = InMemory(x)')
        BY DEF AgreeInv
      <4>1. x # r.id
        BY <3>2, <3>4 DEF Underway
      <4>2. ~Underway(x)
        BY <2>2, <3>3, <3>4 DEF Underway
      <4>3. InMemory(x)' = InMemory(x)
        BY <2>4, <4>1
      <4> QED
        BY <2>1, <3>7, <4>2, <4>3 DEF AnswersInv, AgreeInv
    <3> QED
      BY <2>1, <3>5, <3>6, <3>8, <3>9 DEF AnswersInv, ClosedInv
  <2> QED
    BY <1>2, <2>3, <2>4, HandleEffects
<1> QED
  BY <1>1, <1>2

\* The tables follow the memory.
LEMMA CommitAnswers ==
  ASSUME Types, AnswersInv, NEW s \in Slots, Commit(s)
  PROVE  AnswersInv'
<1> DEFINE r == request[s]
<1>1. /\ r.op \in Writes /\ r.at = "writing" /\ Answers(s, "ok")
      /\ UNCHANGED <<app, child, memory, told, toldProfiles, doubt>>
      /\ \A x \in Ids : InTable(x)' = IF x = r.id THEN Wanted(s) ELSE InTable(x)
  BY CommitEffects DEF sidecarVars, bridgeVars, childVars, answers
<1>2. Writing(s) /\ Effective(s)
  BY <1>1 DEF Writing, Busy, Effective
<1>3. /\ SameBut(s) /\ request'[s].val = r.val
      /\ request'[s].at = "answered" /\ request'[s].reply = "ok"
  BY <1>1, AnswersFields
<1>4. Wanted(s)' = Wanted(s) /\ Writing(s)' /\ Effective(s)'
  BY <1>2, <1>3 DEF SameBut, Wanted, Writing, Busy, Effective
<1>5. \A t \in Slots \ {s} : Calm(t) /\ (Effective(t)' <=> Effective(t))
  BY <1>3 DEF SameBut, Calm, Effective, Writing, Busy
<1>6. \A t \in Slots :
        /\ request'[t].id = request[t].id /\ request'[t].alone = request[t].alone
        /\ Writing(t)' <=> Writing(t)
  BY <1>2, <1>3, <1>4 DEF SameBut, Writing, Busy
<1>7. FlightInv'
  BY <1>1, <1>3, <1>5 DEF AnswersInv, FlightInv, Calm
<1>8. AloneInv' /\ Pending' \subseteq Pending
  BY <1>6, AloneStands DEF AnswersInv, NoNewWrite
<1>9. \A x \in Ids : InMemory(x)' = InMemory(x) /\ InAnswers(x)' = InAnswers(x) /\ (Loaded(x)' <=> Loaded(x))
  BY <1>1 DEF InMemory, InAnswers, Loaded, RegistryIsLoaded, ProfilesAreLoaded, memory
<1>10. DoneInv'
  <2> SUFFICES ASSUME NEW t \in Slots, NEW x \in Ids,
                      Writing(t)', request'[t].alone, request'[t].id = x
               PROVE  /\ request'[t].at = "writing" => InMemory(x)' = Wanted(t)'
                      /\ Done(t)' => /\ InTable(x)' = Wanted(t)'
                                     /\ Loaded(x)' => InMemory(x)' = Wanted(t)'
    BY DEF DoneInv
  <2>1. Writing(t) /\ request[t].alone /\ request[t].id = x
    BY <1>6
  <2>2. CASE t = s
    <3>1. InMemory(x) = Wanted(s)
      BY <1>1, <2>1, <2>2 DEF AnswersInv, DoneInv
    <3>2. InTable(x)' = Wanted(s)
      BY <1>1, <2>1, <2>2
    <3> QED
      BY <1>4, <1>9, <2>2, <3>1, <3>2
  <2>3. CASE t # s
    <3>1. x # r.id
      BY <1>2, <2>1, <2>3 DEF AnswersInv, AloneInv
    <3>2. Wanted(t)' = Wanted(t) /\ (Done(t)' <=> Done(t)) /\ request'[t].at = request[t].at
      BY <1>5, <2>3 DEF Calm, Wanted, Done
    <3>3. InTable(x)' = InTable(x)
      BY <1>1, <3>1
    <3> QED
      BY <1>9, <2>1, <3>2, <3>3 DEF AnswersInv, DoneInv
  <2> QED
    BY <2>2, <2>3
<1>11. AgreeInv'
  <2> SUFFICES ASSUME NEW x \in Ids \ doubt', ~Underway(x)'
               PROVE  InAnswers(x)' = InTable(x)' /\ (Loaded(x)' => InAnswers(x)' = InMemory(x)')
    BY DEF AgreeInv
  <2>1. x # r.id
    BY <1>4, <1>6 DEF Underway
  <2>2. ~Underway(x)
    BY <1>4, <1>5, <1>6 DEF Underway
  <2>3. InTable(x)' = InTable(x)
    BY <1>1, <2>1
  <2> QED
    BY <1>1, <1>9, <2>2, <2>3 DEF AnswersInv, AgreeInv
<1> QED
  BY <1>1, <1>7, <1>8, <1>10, <1>11 DEF AnswersInv, ClosedInv

\* A slot that is through with its request.
LEMMA ReleaseStands ==
  ASSUME Types, AnswersInv, NEW s \in Slots, \A t \in Slots \ {s} : request'[t] = request[t],
         ~Writing(s)', request'[s].at \in {"idle", "sent"}, UNCHANGED <<child, memory, database>>
  PROVE  /\ FlightInv' /\ AloneInv' /\ DoneInv' /\ Pending' \subseteq Pending
         /\ NothingLoaded
         /\ \A t \in Slots \ {s} : Effective(t)' <=> Effective(t)
<1>1. NothingLoaded
  BY DEF NothingLoaded, RegistryIsLoaded, ProfilesAreLoaded
<1>2. FlightInv'
  BY DEF AnswersInv, FlightInv
<1>3. NoNewWrite
  BY DEF NoNewWrite, Writing, Busy
<1>4. \A t \in Slots \ {s} : Calm(t) /\ (Effective(t)' <=> Effective(t))
  BY DEF Calm, Effective, Writing, Busy
<1>5. DoneInv'
  BY <1>1, <1>4, DoneStands DEF AnswersInv
<1> QED
  BY <1>1, <1>2, <1>3, <1>4, <1>5, AloneStands DEF AnswersInv

\* The request that follows a good answer.
LEMMA NextRequest ==
  ASSUME Types, NEW s \in Slots, ReceiveOk(s)
  PROVE  /\ \A t \in Slots \ {s} : request'[t] = request[t]
         /\ ~Writing(s)' /\ request'[s].at \in {"idle", "sent"}
         /\ request'[s].at = "sent" => Written(Slots \ {s}) \subseteq request'[s].touched
         /\ request[s].op = "save" =>
              /\ request'[s].op = "profiles" /\ request'[s].at = "sent"
              /\ request'[s].touched = Written(Slots \ {s})
<1>1. CASE request[s].op # "save"
  <2>1. request' = [request EXCEPT ![s] = Idle]
    BY <1>1 DEF ReceiveOk
  <2>2. request'[s] = Idle /\ \A t \in Slots \ {s} : request'[t] = request[t]
    BY <2>1, IdleFields
  <2> QED
    BY <1>1, <2>2 DEF Writing, Busy, Idle
<1>2. CASE request[s].op = "save"
  <2>1. request' = [request EXCEPT ![s] = List("profiles", Slots \ {s})]
    BY <1>2 DEF ReceiveOk
  <2>2. /\ request'[s] = List("profiles", Slots \ {s})
        /\ \A t \in Slots \ {s} : request'[t] = request[t]
    BY <2>1, IdleFields
  <2>3. /\ request'[s].op = "profiles" /\ request'[s].at = "sent"
        /\ request'[s].touched = Written(Slots \ {s})
    BY <2>2 DEF List, Idle
  <2> QED
    BY <2>2, <2>3 DEF Writing, Writes
<1> QED
  BY <1>1, <1>2

\* A good answer to a write that was alone settles its id; one to another write leaves it
\* in doubt.
LEMMA OkAnswers ==
  ASSUME Types, AnswersInv, NEW s \in Slots, ReceiveOk(s)
  PROVE  AnswersInv'
<1> DEFINE r == request[s]
<1>1. /\ app = "open" /\ app' = "open" /\ Done(s) /\ UNCHANGED <<child, memory, database>>
  BY DEF ReceiveOk, Done, sidecarVars, bridgeVars, childVars
<1>2. /\ \A t \in Slots \ {s} : request'[t] = request[t]
      /\ ~Writing(s)' /\ request'[s].at \in {"idle", "sent"}
  BY NextRequest
<1>3. /\ FlightInv' /\ AloneInv' /\ DoneInv' /\ NothingLoaded
      /\ \A t \in Slots \ {s} : Effective(t)' <=> Effective(t)
  BY <1>1, <1>2, ReleaseStands
<1>4. \A x : Underway(x) /\ (r.op \in Writes => x # r.id) => Underway(x)'
  BY <1>2, <1>3 DEF Underway, Effective, Writing
<1>5. AgreeInv'
  <2>1. CASE r.op \notin Writes
    <3>1. UNCHANGED <<told, toldProfiles, doubt>>
      BY <2>1 DEF ReceiveOk, Learn, Writes
    <3> QED
      BY <1>1, <1>3, <1>4, <2>1, <3>1, AgreeStands DEF AnswersInv
  <2>2. CASE r.op \in Writes
    <3>1. /\ doubt' = IF r.alone THEN doubt \ {r.id} ELSE doubt \cup {r.id}
          /\ \A x \in Ids : InAnswers(x)' = IF x = r.id THEN Wanted(s) ELSE InAnswers(x)
      BY <2>2, ReceiveEffects
    <3>2. \A x \in Ids : InTable(x)' = InTable(x) /\ InMemory(x)' = InMemory(x) /\ (Loaded(x)' <=> Loaded(x))
      BY <1>1 DEF InTable, InMemory, Loaded, RegistryIsLoaded, ProfilesAreLoaded, memory, database
    <3> SUFFICES ASSUME NEW x \in Ids \ doubt', ~Underway(x)'
                 PROVE  InAnswers(x)' = InTable(x)' /\ (Loaded(x)' => InAnswers(x)' = InMemory(x)')
      BY DEF AgreeInv
    <3>3. CASE x = r.id
      <4>1. r.alone /\ Writing(s)
        BY <1>1, <2>2, <3>1, <3>3 DEF Writing, Busy, Done
      <4>2. InTable(x) = Wanted(s) /\ (Loaded(x) => InMemory(x) = Wanted(s))
        BY <1>1, <3>3, <4>1 DEF AnswersInv, DoneInv
      <4> QED
        BY <3>1, <3>2, <3>3, <4>2
    <3>4. CASE x # r.id
      <4>1. x \notin doubt /\ ~Underway(x)
        BY <1>4, <3>1, <3>4
      <4> QED
        BY <3>1, <3>2, <3>4, <4>1 DEF AnswersInv, AgreeInv
    <3> QED
      BY <3>3, <3>4
  <2> QED
    BY <2>1, <2>2
<1> QED
  BY <1>1, <1>3, <1>5 DEF AnswersInv, ClosedInv

\* A bad one leaves in doubt what may have been done.
LEMMA ErrorAnswers ==
  ASSUME Types, AnswersInv, NEW s \in Slots, ReceiveError(s)
  PROVE  AnswersInv'
<1> DEFINE r == request[s]
<1>1. /\ app = "open" /\ app' = "open" /\ UNCHANGED <<child, memory, database, told, toldProfiles>>
      /\ r.at = "answered" /\ r.reply # "ok"
      /\ doubt' = doubt \cup (IF r.op \in Writes /\ r.reply = "failed" THEN {r.id} ELSE {})
  BY DEF ReceiveError, sidecarVars, bridgeVars, childVars
<1>2. /\ \A t \in Slots \ {s} : request'[t] = request[t]
      /\ ~Writing(s)' /\ request'[s].at \in {"idle", "sent"}
  <2>1. request' = [request EXCEPT ![s] = Idle]
    BY DEF ReceiveError
  <2>2. request'[s] = Idle /\ \A t \in Slots \ {s} : request'[t] = request[t]
    BY <2>1, IdleFields
  <2> QED
    BY <2>2 DEF Writing, Busy, Idle
<1>3. /\ FlightInv' /\ AloneInv' /\ DoneInv' /\ NothingLoaded
      /\ \A t \in Slots \ {s} : Effective(t)' <=> Effective(t)
  BY <1>1, <1>2, ReleaseStands
<1>4. r.reply \in {"none", "ok", "refused", "failed"}
  BY DEF Types, TypeOK, Requests, RequestsOf
<1>5. Effective(s) => r.id \in doubt'
  BY <1>1, <1>4 DEF AnswersInv, FlightInv, Effective, Writing
<1>6. \A x \in Ids \ doubt' : x \notin doubt /\ (Underway(x) => Underway(x)')
  BY <1>1, <1>2, <1>3, <1>5 DEF Underway
<1>7. AgreeInv'
  BY <1>1, <1>3, <1>6, AgreeStands DEF AnswersInv
<1> QED
  BY <1>1, <1>3, <1>7 DEF AnswersInv, ClosedInv

\* A start reads the tables: the memory is again what they hold.
LEMMA LoadAnswers ==
  ASSUME Types, LinkInv, AnswersInv, LoadProviders \/ LoadProfiles
  PROVE  AnswersInv'
<1>1. /\ UNCHANGED <<app, database, told, toldProfiles, doubt, request>>
      /\ child \in {"migrated", "providers"} /\ child' \in {"providers", "loaded"}
  BY DEF LoadProviders, LoadProfiles, ReadProviders, ReadProfiles, bridgeVars, childVars, answers
<1>2. \A x \in Ids : InTable(x)' = InTable(x) /\ InAnswers(x)' = InAnswers(x)
  BY <1>1 DEF InTable, InAnswers, database
<1>3. ASSUME NEW x \in Ids, Loaded(x)' PROVE InMemory(x)' = InTable(x)
  <2>1. CASE LoadProviders
    BY <1>3, <2>1 DEF LoadProviders, ReadProviders, Loaded, ProfilesAreLoaded, InMemory, InTable
  <2>2. CASE LoadProfiles
    BY <2>2 DEF LoadProfiles, ReadProfiles, LinkInv, LoadInv, InMemory, InTable
  <2> QED
    BY <2>1, <2>2
<1>4. /\ \A s \in Slots : (Writing(s)' <=> Writing(s)) /\ (Effective(s)' <=> Effective(s)) /\ (Done(s)' <=> Done(s))
      /\ \A s \in Slots : Wanted(s)' = Wanted(s)
      /\ Pending' = Pending
  BY <1>1 DEF Writing, Busy, Effective, Done, Wanted, Pending, Written
<1>5. \A s \in Slots : request[s].at # "writing"
  BY <1>1 DEF AnswersInv, FlightInv
<1>6. FlightInv' /\ AloneInv' /\ ClosedInv'
  BY <1>1, <1>4, <1>5 DEF AnswersInv, FlightInv, AloneInv, ClosedInv
<1>7. DoneInv'
  BY <1>1, <1>2, <1>3, <1>4, <1>5 DEF AnswersInv, DoneInv
<1>8. \A x : Underway(x)' <=> Underway(x)
  BY <1>1, <1>4 DEF Underway
<1>9. AgreeInv'
  BY <1>1, <1>2, <1>3, <1>8 DEF AnswersInv, AgreeInv
<1> QED
  BY <1>6, <1>7, <1>9 DEF AnswersInv

\* A request that is refused by nobody listening, and a statement that fails, leave open
\* what was done.
LEMMA FailureAnswers ==
  ASSUME Types, AnswersInv, NEW s \in Slots, Refuse(s) \/ CommitFails(s)
  PROVE  AnswersInv'
<1>1. /\ Answers(s, "failed") /\ Busy(s)
      /\ UNCHANGED <<app, child, memory, database, told, toldProfiles, doubt>>
  BY DEF Refuse, CommitFails, Answers, Busy, sidecarVars, bridgeVars, childVars, answers
<1>2. SameBut(s) /\ request'[s].at = "answered" /\ request'[s].reply = "failed"
  BY <1>1, AnswersFields
<1> QED
  BY <1>1, <1>2, AnswerAnswers

\* A step after which no slot waits, with all that it may have done in doubt.
LEMMA IdleAnswers ==
  ASSUME AnswersInv, request' = [s \in Slots |-> Idle], NothingLoaded,
         UNCHANGED <<memory, database, told, toldProfiles>>,
         doubt \subseteq doubt', Pending \subseteq doubt'
  PROVE  AnswersInv'
<1>1. \A s \in Slots : request'[s].at = "idle"
  BY DEF Idle
<1>2. \A s \in Slots : ~Busy(s)' /\ ~Writing(s)'
  BY <1>1 DEF Busy, Writing
<1>3. Pending' = {}
  BY <1>2 DEF Pending, Written
<1>4. FlightInv' /\ ClosedInv' /\ AloneInv' /\ DoneInv'
  BY <1>1, <1>2, <1>3 DEF FlightInv, ClosedInv, AloneInv, DoneInv
<1>5. AgreeInv'
  <2>1. \A x : Underway(x) => x \in doubt'
    BY WhatIsPending DEF Underway, Effective
  <2> QED
    BY <2>1, AgreeStands DEF AnswersInv
<1> QED
  BY <1>4, <1>5 DEF AnswersInv

\* A step that changes no request and loads nothing.
LEMMA AnswersStay ==
  ASSUME AnswersInv, NothingLoaded, UNCHANGED <<memory, database, told, toldProfiles, request>>,
         child = "serving" => child' = "serving",
         doubt \subseteq doubt', app' # "open" => app # "open" \/ Pending \subseteq doubt'
  PROVE  AnswersInv'
<1>1. /\ \A s \in Slots : /\ Writing(s)' <=> Writing(s)
                          /\ Effective(s)' <=> Effective(s)
                          /\ request'[s] = request[s]
      /\ Pending' = Pending
  BY DEF Writing, Busy, Effective, Pending, Written
<1>2. FlightInv' /\ ClosedInv' /\ AloneInv'
  BY <1>1 DEF AnswersInv, FlightInv, ClosedInv, AloneInv
<1>3. DoneInv'
  BY <1>1, DoneStands DEF AnswersInv, Calm
<1>4. AgreeInv'
  <2>1. \A x : Underway(x)' <=> Underway(x)
    BY <1>1 DEF Underway
  <2> QED
    BY <2>1, AgreeStands DEF AnswersInv
<1> QED
  BY <1>2, <1>3, <1>4 DEF AnswersInv

\* The sidecar that is left finishes what it was asked; whatever that does is in doubt.
LEMMA ExitAnswers ==
  ASSUME AnswersInv, Exits
  PROVE  AnswersInv'
<1>1. /\ UNCHANGED <<child, memory, database, told, toldProfiles>>
      /\ Pending \subseteq doubt' /\ doubt \subseteq doubt' /\ NothingLoaded
  BY DEF Exits, AppExits, childVars, NothingLoaded, RegistryIsLoaded, ProfilesAreLoaded
<1>2. \A s \in Slots :
        request'[s] = request[s] \/ (request'[s].at = "idle" /\ ~Writing(s)')
  BY DEF Exits, Writing, Busy, Idle
<1>3. FlightInv'
  BY <1>1, <1>2 DEF AnswersInv, FlightInv
<1>4. NoNewWrite
  BY <1>2 DEF NoNewWrite, Writing, Busy
<1>5. AloneInv' /\ Pending' \subseteq Pending
  BY <1>4, AloneStands DEF AnswersInv
<1>6. \A s \in Slots : Calm(s) \/ ~Writing(s)'
  BY <1>2 DEF Calm
<1>7. DoneInv'
  BY <1>1, <1>6, DoneStands DEF AnswersInv
<1>8. AgreeInv'
  <2>1. \A x : Underway(x) => x \in doubt'
    BY <1>1, WhatIsPending DEF Underway, Effective
  <2> QED
    BY <1>1, <2>1, AgreeStands DEF AnswersInv
<1> QED
  BY <1>1, <1>3, <1>5, <1>7, <1>8 DEF AnswersInv, ClosedInv

\* What dies with the sidecar is left open, with the window or, without one, in doubt.
LEMMA DeathAnswers ==
  ASSUME Types, AnswersInv, Dies
  PROVE  AnswersInv'
<1>1. /\ child' = "dead" /\ NothingLoaded
      /\ UNCHANGED <<app, memory, database, told, toldProfiles, doubt>>
  BY DEF Dies, ChildFails, bridgeVars, answers, NothingLoaded, RegistryIsLoaded, ProfilesAreLoaded
<1>2. CASE app # "open"
  BY <1>1, <1>2, IdleAnswers DEF Dies, AnswersInv, ClosedInv
<1>3. CASE app = "open"
  <2>1. PICK arrived \in SUBSET {s \in Slots : request[s].at = "answered"} : request' = Lost(arrived)
    BY <1>3 DEF Dies
  <2>2. \A s \in Slots :
          \/ request'[s] = request[s] /\ (request[s].at = "answered" \/ ~Busy(s))
          \/ /\ Busy(s) /\ request'[s].at = "answered" /\ request'[s].reply = "failed"
             /\ request'[s].op = request[s].op /\ request'[s].id = request[s].id
             /\ request'[s].alone = request[s].alone
    BY <2>1, LostFields
  <2>3. FlightInv'
    BY <2>2 DEF AnswersInv, FlightInv, Busy
  <2>4. NoNewWrite
    BY <2>2 DEF NoNewWrite, Writing, Busy
  <2>5. \A s \in Slots : Calm(s) \/ ~(Writing(s)' /\ (request'[s].at = "writing" \/ Done(s)'))
    BY <2>2 DEF Calm, Done
  <2>6. \A x : Underway(x) => Underway(x)'
    <3>1. \A s \in Slots : Effective(s) => Effective(s)' /\ request'[s].id = request[s].id
      BY <2>2 DEF Effective, Writing, Busy
    <3> QED
      BY <3>1 DEF Underway
  <2>7. AloneInv' /\ DoneInv' /\ AgreeInv'
    BY <1>1, <2>4, <2>5, <2>6, AloneStands, DoneStands, AgreeStands DEF AnswersInv
  <2> QED
    BY <1>1, <1>3, <2>3, <2>7 DEF AnswersInv, ClosedInv
<1> QED
  BY <1>2, <1>3

\* The steps of the application and of the sidecar under it.
LEMMA ProcessAnswers ==
  ASSUME Types, AnswersInv, Start \/ Boots \/ Reads \/ Dies \/ Closes \/ Exits \/ Strays
  PROVE  AnswersInv'
<1> USE DEF NothingLoaded, RegistryIsLoaded, ProfilesAreLoaded
<1>1. CASE Start
  BY <1>1, IdleAnswers DEF Start, Launch, answers, AnswersInv, ClosedInv
<1>2. CASE Boots
  BY <1>2, AnswersStay DEF Boots, Migrate, SetVersion, EmitHandshake, Serve, settingsVars, answers, bridgeVars
<1>3. CASE Reads
  BY <1>3, AnswersStay
     DEF Reads, ReadHandshake, ClientFails, SpawnFails, settingsVars, answers, childVars
<1>4. CASE Closes
  BY <1>4, IdleAnswers DEF Closes, AppCloses, Shutdown
<1>5. CASE Strays
  <2>1. UNCHANGED <<app, child>>
    BY <1>5 DEF Strays, StraySteps, StrayMigrates, StrayEnds, bridgeVars, childVars
  <2> QED
    BY <1>5, <2>1, AnswersStay DEF Strays, settingsVars, answers
<1> QED
  BY <1>1, <1>2, <1>3, <1>4, <1>5, DeathAnswers, ExitAnswers

\* Every request of the panels is one of these.
LEMMA AsksAnswers ==
  ASSUME Types, AnswersInv, NEW s \in Slots, AskNew(s) \/ AskOther(s)
  PROVE  AnswersInv'
<1>1. PICK r : Ask(s, r) /\ r.at = "sent" /\ (r.op \in Writes => r.alone = ~InFlight(r.id))
  <2>1. \A op, id, val : LET r == Write(op, id, val) IN
          r.at = "sent" /\ (r.op \in Writes => r.alone = ~InFlight(r.id))
    BY DEF Write, Idle
  <2>2. \A op \in {"providers", "profiles"} : LET r == List(op, Slots) IN
          r.at = "sent" /\ (r.op \in Writes => r.alone = ~InFlight(r.id))
    BY DEF List, Idle, Writes
  <2> QED
    BY <2>1, <2>2 DEF AskNew, AskOther
<1> QED
  BY <1>1, AskAnswers

LEMMA InitAnswers == Init => AnswersInv
<1> SUFFICES ASSUME Init PROVE AnswersInv
  OBVIOUS
<1>1. \A s \in Slots : request[s].at = "idle"
  BY DEF Init, Idle
<1>2. \A s \in Slots : ~Busy(s) /\ ~Writing(s)
  BY <1>1 DEF Busy, Writing
<1>3. FlightInv /\ ClosedInv /\ AloneInv /\ DoneInv
  BY <1>1, <1>2 DEF FlightInv, ClosedInv, Pending, Written, AloneInv, DoneInv
<1>4. AgreeInv
  BY SettingsAssumption DEF Init, SidecarInit, AgreeInv, InAnswers, InTable, Loaded,
                            RegistryIsLoaded, ProfilesAreLoaded, Ids
<1> QED
  BY <1>3, <1>4 DEF AnswersInv

LEMMA StepAnswers ==
  ASSUME Types, LinkInv, AnswersInv, [Next]_vars
  PROVE  AnswersInv'
<1>1. CASE UNCHANGED vars
  BY <1>1, AnswersStay DEF vars, settingsVars, sidecarVars, childVars, bridgeVars, answers,
                           NothingLoaded, RegistryIsLoaded, ProfilesAreLoaded
<1>2. ASSUME NEW s \in Slots, AskNew(s) \/ AskOther(s) \/ Answered(s) \/ Served(s)
      PROVE  AnswersInv'
  BY <1>2, AsksAnswers, FailureAnswers, OkAnswers, ErrorAnswers, HandleAnswers, CommitAnswers
     DEF Answered, Served
<1> QED
  BY <1>1, <1>2, LoadAnswers, ProcessAnswers DEF Next

\* Without doubt and with nothing pending, answers, tables and memory are one.
LEMMA AnswersTell ==
  ASSUME AnswersInv
  PROVE  AnswersHold
<1>1. \A x \in Ids \ (doubt \cup Pending) :
        InAnswers(x) = InTable(x) /\ (Loaded(x) => InAnswers(x) = InMemory(x))
  BY WhatIsPending DEF AnswersInv, AgreeInv, Underway, Effective
<1>2. Ids = Providers \cup Profiles /\ Providers \cap Profiles = {}
  BY SettingsAssumption DEF Ids
<1>3. ASSUME NEW p \in Providers \ (doubt \cup Pending)
      PROVE  /\ p \in told <=> p \in rows
             /\ RegistryIsLoaded => (p \in told <=> p \in registry)
  BY <1>1, <1>2 DEF InAnswers, InTable, InMemory, Loaded
<1>4. ASSUME NEW f \in Profiles \ (doubt \cup Pending)
      PROVE  /\ toldProfiles[f] = profileRows[f]
             /\ ProfilesAreLoaded => toldProfiles[f] = llm_profiles[f]
  BY <1>1, <1>2 DEF InAnswers, InTable, InMemory, Loaded
<1> QED
  BY <1>3, <1>4 DEF AnswersHold

-----------------------------------------------------------------------------
(* What the window lists. *)

\* The list an id is in, and what the answer to a list request has of it.
OpOf(x) == IF x \in Providers THEN "providers" ELSE "profiles"
InReply(x, s) ==
  IF x \in Providers THEN IF x \in request[s].val THEN 1 ELSE 0 ELSE request[s].val[x]

\* The sidecar answers the window.
Up == app = "open" /\ child = "serving"

\* There is nothing of an id that was not given yet.
Blank(x) ==
  /\ InMemory(x) = Absent(x) /\ InTable(x) = Absent(x) /\ InList(x) = Absent(x)
  /\ \A s \in Slots : request[s].op = OpOf(x) /\ Done(s) => InReply(x, s) = Absent(x)

GivenInv == Pending \subseteq given /\ \A x \in Ids \ given : Blank(x)

\* Until the sidecar serves, a window that is new knows nothing and has had no good answer.
FreshInv ==
  /\ app = "spawning" => \A s \in Slots : ~Busy(s)
  /\ app = "spawning" \/ (app = "open" /\ child \notin {"serving", "dead"}) =>
       stale = Ids /\ \A s \in Slots : ~Done(s)

\* A list that is on its way has noted every write that may cross it.
TouchedInv == \A s \in Slots : Busy(s) /\ ~Writing(s) => Pending \subseteq request[s].touched

\* A list that was answered is still right but for what it has noted.
ListedInv ==
  \A s \in Slots, x \in Ids :
    request[s].op = OpOf(x) /\ Done(s) /\ x \notin request[s].touched => InReply(x, s) = InMemory(x)

\* A list of the profiles is on its way that will have x.
ToCome(x) ==
  \E t \in Slots :
    /\ request[t].op = "profiles" /\ x \notin request[t].touched
    /\ request[t].at = "sent" \/ Done(t)

\* An id that is not stale is listed as the memory has it, but for one that a write is
\* changing and a profile that is new and will come with the next list.
ShownInv ==
  \A x \in Ids \ stale :
    ~Underway(x) => InList(x) = InMemory(x) \/ (x \in Profiles /\ InList(x) = Absent(x) /\ ToCome(x))

\* What is being created is not listed.
NewInv ==
  \A s \in Slots, x \in Ids \ stale :
    /\ Writing(s) /\ request[s].op \in {"add", "save"} /\ request[s].alone /\ request[s].id = x
    => InList(x) = Absent(x)

UpInv == Up => ListedInv /\ ShownInv /\ NewInv

ListsInv == GivenInv /\ FreshInv /\ TouchedInv /\ UpInv

\* A step that lists nothing new and takes up no write.
LEMMA TouchedStands ==
  ASSUME TouchedInv, Pending' \subseteq Pending,
         \A s \in Slots : Busy(s)' /\ ~Writing(s)' =>
           Busy(s) /\ ~Writing(s) /\ request[s].touched \subseteq request'[s].touched
  PROVE  TouchedInv'
BY DEF TouchedInv

\* A sidecar begins to serve a window that has just been opened.
LEMMA UpBegins ==
  ASSUME FreshInv, ~Up, UNCHANGED <<stale, request>>,
         Up' => app = "spawning" \/ (app = "open" /\ child \notin {"serving", "dead"})
  PROVE  UpInv'
<1> SUFFICES ASSUME Up' PROVE ListedInv' /\ ShownInv' /\ NewInv'
  BY DEF UpInv
<1>1. stale' = Ids /\ \A s \in Slots : ~Done(s)'
  BY DEF FreshInv, Done
<1> QED
  BY <1>1 DEF ListedInv, ShownInv, NewInv, Ids

\* What a window that is closed or a sidecar that does not serve leaves of the invariant.
LEMMA NotUp ==
  ASSUME ~Up'
  PROVE  UpInv'
BY DEF UpInv

\* A step of a request that has not become a good answer to a list.
LEMMA OneMoves ==
  ASSUME Types, ListsInv, NEW s \in Slots, SameBut(s), Busy(s), Busy(s)',
         UNCHANGED <<app, child, window, ids>>,
         child = "serving" \/ request'[s].reply # "ok",
         request[s].op \in Writes \/ (~Up /\ request'[s].reply # "ok"),
         Effective(s) => Effective(s)',
         \A x \in Ids : /\ \/ InMemory(x)' = InMemory(x)
                           \/ Writing(s) /\ request[s].id = x /\ Effective(s)'
                        /\ \/ InTable(x)' = InTable(x)
                           \/ Writing(s) /\ request[s].id = x
  PROVE  ListsInv'
<1>1. \A t \in Slots \ {s} : request'[t] = request[t]
  BY DEF SameBut
<1>2. \A t \in Slots :
        /\ request'[t].op = request[t].op /\ request'[t].id = request[t].id
        /\ request'[t].alone = request[t].alone /\ request'[t].touched = request[t].touched
        /\ Busy(t)' <=> Busy(t)
        /\ Writing(t)' <=> Writing(t)
  BY <1>1 DEF SameBut, Busy, Writing
<1>3. Pending' = Pending
  BY <1>2 DEF Pending, Written
<1>4. \A t \in Slots : Effective(t) => Effective(t)'
  BY <1>1 DEF Effective, Writing, Busy
<1>5. \A x \in Ids : InList(x)' = InList(x)
  BY DEF InList, window
<1>6. \A x \in Ids, t \in Slots :
        request'[t].op = OpOf(x) /\ Done(t)' =>
          Done(t) /\ t # s /\ InReply(x, t)' = InReply(x, t)
  <2> SUFFICES ASSUME NEW x \in Ids, NEW t \in Slots, request'[t].op = OpOf(x), Done(t)'
               PROVE  Done(t) /\ t # s /\ InReply(x, t)' = InReply(x, t)
    OBVIOUS
  <2>1. t # s
    BY <1>2 DEF OpOf, Done, Writes
  <2> QED
    BY <1>1, <2>1 DEF Done, InReply
<1>7. TouchedInv'
  BY <1>2, <1>3, TouchedStands DEF ListsInv
<1>8. GivenInv'
  <2>1. \A x \in Ids \ given : InMemory(x)' = InMemory(x) /\ InTable(x)' = InTable(x)
    BY WhatIsPending DEF ListsInv, GivenInv
  <2>2. \A x \in Ids \ given : Blank(x)'
    BY <1>2, <1>5, <1>6, <2>1 DEF ListsInv, GivenInv, Blank, Absent
  <2> QED
    BY <1>3, <2>2 DEF ListsInv, GivenInv, ids
<1>9. FreshInv'
  <2>1. app # "spawning"
    BY DEF ListsInv, FreshInv
  <2>2. child # "serving" => \A t \in Slots : Done(t)' => Done(t)
    BY <1>1 DEF Done
  <2> QED
    BY <2>1, <2>2 DEF ListsInv, FreshInv, window
<1>10. UpInv'
  <2> SUFFICES ASSUME Up' PROVE ListedInv' /\ ShownInv' /\ NewInv'
    BY DEF UpInv
  <2>1. Up /\ ListedInv /\ ShownInv /\ NewInv /\ Writing(s)
    BY DEF Up, ListsInv, UpInv, Writing
  <2>2. \A x \in Ids : InMemory(x)' = InMemory(x) \/ (request[s].id = x /\ Effective(s)')
    OBVIOUS
  <2>3. ListedInv'
    <3> SUFFICES ASSUME NEW t \in Slots, NEW x \in Ids, request'[t].op = OpOf(x), Done(t)',
                        x \notin request'[t].touched
                 PROVE  InReply(x, t)' = InMemory(x)'
      BY DEF ListedInv
    <3>1. Done(t) /\ InReply(x, t)' = InReply(x, t) /\ request[t].op = OpOf(x) /\ x \notin request[t].touched
      BY <1>2, <1>6
    <3>2. Busy(t) /\ ~Writing(t)
      BY <3>1 DEF Done, Busy, Writing, OpOf, Writes
    <3>3. x # request[s].id
      BY <2>1, <3>1, <3>2, WhatIsPending DEF ListsInv, TouchedInv
    <3> QED
      BY <2>1, <2>2, <3>1, <3>3 DEF ListedInv
  <2>4. ShownInv'
    <3> SUFFICES ASSUME NEW x \in Ids \ stale, ~Underway(x)'
                 PROVE  \/ InList(x)' = InMemory(x)'
                        \/ x \in Profiles /\ InList(x)' = Absent(x) /\ ToCome(x)'
      BY DEF ShownInv, window, Absent
    <3>1. ~Underway(x)
      BY <1>2, <1>4 DEF Underway
    <3>2. InMemory(x)' = InMemory(x)
      BY <1>2, <2>2 DEF Underway
    <3>3. ToCome(x) => ToCome(x)'
      <4> SUFFICES ASSUME NEW t \in Slots, request[t].op = "profiles", x \notin request[t].touched,
                          request[t].at = "sent" \/ Done(t)
                   PROVE  ToCome(x)'
        BY DEF ToCome
      <4>1. t # s
        BY <2>1 DEF Writing, Writes
      <4> QED
        BY <1>1, <4>1 DEF ToCome, Done
    <3> QED
      BY <1>5, <2>1, <3>1, <3>2, <3>3 DEF ShownInv
  <2>5. NewInv'
    BY <1>2, <1>5, <2>1 DEF NewInv, window, Absent
  <2> QED
    BY <2>3, <2>4, <2>5
<1> QED
  BY <1>7, <1>8, <1>9, <1>10 DEF ListsInv

\* A list is answered with the memory as it is.
LEMMA ListLists ==
  ASSUME Types, ListsInv, NEW s \in Slots, ListAll(s)
  PROVE  ListsInv'
<1>1. /\ SameBut(s) /\ request[s].at = "sent" /\ Done(s)' /\ request[s].op \notin Writes
      /\ request[s].op = "providers" => request'[s].val = registry
      /\ request[s].op = "profiles" => request'[s].val = llm_profiles
      /\ UNCHANGED <<app, child, memory, database, window, ids>> /\ child = "serving"
  BY ListAllFields DEF ListAll, Handled, sidecarVars, bridgeVars, childVars
<1>2. \A t \in Slots \ {s} : request'[t] = request[t]
  BY <1>1 DEF SameBut
<1>3. \A t \in Slots :
        /\ request'[t].op = request[t].op /\ request'[t].id = request[t].id
        /\ request'[t].alone = request[t].alone /\ request'[t].touched = request[t].touched
        /\ Busy(t)' <=> Busy(t)
        /\ Writing(t)' <=> Writing(t)
        /\ Effective(t)' <=> Effective(t)
  BY <1>1, <1>2 DEF SameBut, Busy, Writing, Effective, Done
<1>4. Pending' = Pending
  BY <1>3 DEF Pending, Written
<1>5. \A x \in Ids : InList(x)' = InList(x) /\ InMemory(x)' = InMemory(x) /\ InTable(x)' = InTable(x)
  BY <1>1 DEF InList, InMemory, InTable, window, memory, database
<1>6. ASSUME NEW x \in Ids, NEW t \in Slots, request'[t].op = OpOf(x), Done(t)'
      PROVE  \/ t # s /\ Done(t) /\ request[t].op = OpOf(x) /\ InReply(x, t)' = InReply(x, t)
             \/ t = s /\ InReply(x, t)' = InMemory(x)
  <2>1. CASE t = s
    BY <1>1, <1>6, <2>1 DEF SameBut, OpOf, InReply, InMemory
  <2>2. CASE t # s
    BY <1>2, <1>6, <2>2 DEF Done, InReply
  <2> QED
    BY <2>1, <2>2
<1>7. TouchedInv'
  BY <1>3, <1>4, TouchedStands DEF ListsInv
<1>8. GivenInv'
  <2>1. \A x \in Ids \ given : Blank(x)'
    BY <1>5, <1>6 DEF ListsInv, GivenInv, Blank, Absent
  <2> QED
    BY <1>1, <1>4, <2>1 DEF ListsInv, GivenInv, ids
<1>9. FreshInv'
  BY <1>1 DEF ListsInv, FreshInv, Busy
<1>10. UpInv'
  <2> SUFFICES ASSUME Up' PROVE ListedInv' /\ ShownInv' /\ NewInv'
    BY DEF UpInv
  <2>1. Up /\ ListedInv /\ ShownInv /\ NewInv
    BY <1>1 DEF Up, ListsInv, UpInv
  <2>2. ListedInv'
    BY <1>3, <1>5, <1>6, <2>1 DEF ListedInv
  <2>3. ShownInv'
    <3>1. \A x : Underway(x)' <=> Underway(x)
      BY <1>3 DEF Underway
    <3>2. \A x : ToCome(x) => ToCome(x)'
      BY <1>1, <1>2, <1>3 DEF ToCome, Done
    <3> QED
      BY <1>1, <1>5, <2>1, <3>1, <3>2 DEF ShownInv, window, Absent
  <2>4. NewInv'
    BY <1>1, <1>3, <1>5, <2>1 DEF NewInv, window, Absent
  <2> QED
    BY <2>2, <2>3, <2>4
<1> QED
  BY <1>7, <1>8, <1>9, <1>10 DEF ListsInv

\* A handler writes the memory for a write that is noted.
LEMMA HandleLists ==
  ASSUME Types, ListsInv, NEW s \in Slots, Handle(s)
  PROVE  ListsInv'
<1> DEFINE r == request[s]
<1>1. CASE r.op \notin Writes
  <2>1. ListAll(s)
    BY <1>1 DEF Handle, AddProvider, DeleteProvider, SaveProfile, DeleteProfile, Handled, Writes
  <2> QED
    BY <2>1, ListLists
<1>2. CASE r.op \in Writes
  <2>1. /\ r.at = "sent" /\ child = "serving"
        /\ UNCHANGED <<app, child, database, window, ids>>
    BY <1>2, HandleEffects DEF sidecarVars, bridgeVars, childVars
  <2>2. Writing(s) /\ Busy(s) /\ ~Effective(s)
    BY <1>2, <2>1 DEF Writing, Busy, Effective
  <2>3. \A x \in Ids : InTable(x)' = InTable(x)
    BY <2>1 DEF InTable, database
  <2>4. CASE Answers(s, "refused") /\ UNCHANGED memory
    <3>1. SameBut(s) /\ request'[s].at = "answered" /\ request'[s].reply = "refused"
      BY <2>4, AnswersFields
    <3>2. \A x \in Ids : InMemory(x)' = InMemory(x)
      BY <2>4 DEF InMemory, memory
    <3> QED
      BY <1>2, <2>1, <2>2, <2>3, <3>1, <3>2, OneMoves DEF Busy
  <2>5. CASE /\ Awaits(s)
             /\ \A x \in Ids : InMemory(x)' = IF x = r.id THEN Wanted(s) ELSE InMemory(x)
    <3>1. SameBut(s) /\ request'[s].at = "writing" /\ request'[s].reply = r.reply
      BY <2>5, AwaitsFields
    <3>2. Effective(s)' /\ Busy(s)'
      BY <1>2, <3>1 DEF SameBut, Effective, Writing, Busy
    <3> QED
      BY <1>2, <2>1, <2>2, <2>3, <2>5, <3>1, <3>2, OneMoves
  <2> QED
    BY <1>2, <2>4, <2>5, HandleEffects
<1> QED
  BY <1>1, <1>2

\* A commit changes the tables only, under a write that stays under way.
LEMMA CommitLists ==
  ASSUME Types, ListsInv, NEW s \in Slots, Commit(s)
  PROVE  ListsInv'
<1> DEFINE r == request[s]
<1>1. /\ r.op \in Writes /\ r.at = "writing" /\ Answers(s, "ok") /\ child = "serving"
      /\ UNCHANGED <<app, child, memory, window, ids>>
      /\ \A x \in Ids : InTable(x)' = IF x = r.id THEN Wanted(s) ELSE InTable(x)
  BY CommitEffects DEF Commit, sidecarVars, bridgeVars, childVars
<1>2. SameBut(s) /\ request'[s].at = "answered" /\ request'[s].reply = "ok"
  BY <1>1, AnswersFields
<1>3. Writing(s) /\ Busy(s) /\ Busy(s)' /\ Effective(s)'
  BY <1>1, <1>2 DEF SameBut, Writing, Busy, Effective
<1>4. \A x \in Ids : InMemory(x)' = InMemory(x)
  BY <1>1 DEF InMemory, memory
<1> QED
  BY <1>1, <1>2, <1>3, <1>4, OneMoves

\* A failure leaves the memory as it is, and its write under way.
LEMMA FailureLists ==
  ASSUME Types, ListsInv, NEW s \in Slots, Refuse(s) \/ CommitFails(s)
  PROVE  ListsInv'
<1> DEFINE r == request[s]
<1>1. /\ Answers(s, "failed") /\ Busy(s)
      /\ UNCHANGED <<app, child, memory, database, window, ids>>
  BY DEF Refuse, CommitFails, Answers, Busy, sidecarVars, bridgeVars, childVars
<1>2. SameBut(s) /\ request'[s].at = "answered" /\ request'[s].reply = "failed"
  BY <1>1, AnswersFields
<1>3. Busy(s)' /\ (Effective(s) => Effective(s)')
  BY <1>2 DEF SameBut, Writing, Busy, Effective
<1>4. r.op \in Writes \/ ~Up
  BY DEF Refuse, CommitFails, Up, Types, WritingInv
<1>5. \A x \in Ids : InMemory(x)' = InMemory(x) /\ InTable(x)' = InTable(x)
  BY <1>1 DEF InMemory, InTable, memory, database
<1> QED
  BY <1>1, <1>2, <1>3, <1>4, <1>5, OneMoves

\* A request that is sent: a list notes the writes under way, and what is created is new.
LEMMA AskLists ==
  ASSUME Types, ListsInv, NEW s \in Slots, NEW r, Ask(s, r), r.at = "sent", given \subseteq given',
         r.op \in Writes =>
           /\ r.id \in Ids
           /\ \/ r.id \in given' \ given
              \/ r.op \in {"drop", "forget"} /\ InList(r.id) # Absent(r.id),
         r.op \notin Writes => r.touched = Pending
  PROVE  ListsInv'
<1>1. /\ ~Busy(s) /\ app = "open" /\ status = "Ready" /\ request'[s] = r
      /\ UNCHANGED <<app, child, memory, database, window>>
  BY JoinedFields DEF Ask, sidecarVars, bridgeVars, childVars
<1>2. \A t \in Slots \ {s} :
        /\ request'[t].op = request[t].op /\ request'[t].id = request[t].id
        /\ request'[t].val = request[t].val
        /\ request'[t].at = request[t].at /\ request'[t].reply = request[t].reply
        /\ request'[t].alone => request[t].alone
        /\ Busy(t) /\ ~Writing(t) /\ r.op \in Writes => r.id \in request'[t].touched
        /\ request[t].touched \subseteq request'[t].touched
        /\ request'[t].touched \subseteq
             request[t].touched \cup (IF r.op \in Writes THEN {r.id} ELSE {})
  BY JoinedFields
<1>3. \A t \in Slots \ {s} :
        /\ Busy(t)' <=> Busy(t)
        /\ Writing(t)' <=> Writing(t)
        /\ Effective(t)' <=> Effective(t)
        /\ Done(t)' <=> Done(t)
        /\ \A x \in Ids : InReply(x, t)' = InReply(x, t)
  BY <1>2 DEF Busy, Writing, Effective, Done, InReply
<1>4. ~Writing(s) /\ ~Effective(s) /\ ~Done(s)' /\ ~Done(s) /\ ~Effective(s)'
  BY <1>1 DEF Busy, Writing, Effective, Done
<1>5. Pending' \subseteq Pending \cup (IF r.op \in Writes THEN {r.id} ELSE {})
  BY <1>1, <1>2, <1>3 DEF Pending, Written, Writing
<1>6. \A x \in Ids : InList(x)' = InList(x) /\ InMemory(x)' = InMemory(x) /\ InTable(x)' = InTable(x)
  BY <1>1 DEF InList, InMemory, InTable, window, memory, database
<1>7. r.op \in Writes => r.id \in given'
  BY DEF ListsInv, GivenInv, Blank
<1>8. TouchedInv'
  <2> SUFFICES ASSUME NEW t \in Slots, Busy(t)', ~Writing(t)'
               PROVE  Pending' \subseteq request'[t].touched
    BY DEF TouchedInv
  <2>1. CASE t = s
    BY <1>1, <1>5, <2>1 DEF Writing, Busy
  <2>2. CASE t # s
    <3>1. Busy(t) /\ ~Writing(t) /\ Pending \subseteq request[t].touched
      BY <1>3, <2>2 DEF ListsInv, TouchedInv
    <3> QED
      BY <1>2, <1>5, <2>2, <3>1
  <2> QED
    BY <2>1, <2>2
<1>9. GivenInv'
  <2>1. \A x \in Ids \ given' : Blank(x)'
    BY <1>2, <1>3, <1>4, <1>6 DEF ListsInv, GivenInv, Blank, Absent
  <2> QED
    BY <1>5, <1>7, <2>1 DEF ListsInv, GivenInv
<1>10. FreshInv'
  BY <1>1, <1>3, <1>4 DEF ListsInv, FreshInv, window
<1>11. UpInv'
  <2> SUFFICES ASSUME Up' PROVE ListedInv' /\ ShownInv' /\ NewInv'
    BY DEF UpInv
  <2>1. Up /\ ListedInv /\ ShownInv /\ NewInv
    BY <1>1 DEF Up, ListsInv, UpInv
  <2>2. ListedInv'
    <3> SUFFICES ASSUME NEW t \in Slots, NEW x \in Ids, request'[t].op = OpOf(x), Done(t)',
                        x \notin request'[t].touched
                 PROVE  InReply(x, t)' = InMemory(x)'
      BY DEF ListedInv
    <3>1. t # s
      BY <1>4
    <3>2. request[t].op = OpOf(x) /\ Done(t) /\ x \notin request[t].touched
      BY <1>2, <1>3, <3>1
    <3> QED
      BY <1>3, <1>6, <2>1, <3>1, <3>2 DEF ListedInv
  <2>3. ShownInv'
    <3> SUFFICES ASSUME NEW x \in Ids \ stale, ~Underway(x)'
                 PROVE  \/ InList(x)' = InMemory(x)'
                        \/ x \in Profiles /\ InList(x)' = Absent(x) /\ ToCome(x)'
      BY <1>1 DEF ShownInv, window, Absent
    <3>1. ~Underway(x)
      BY <1>2, <1>3, <1>4 DEF Underway
    <3>2. CASE r.op \in Writes /\ r.id = x
      <4>1. x \notin given => InList(x) = InMemory(x)
        BY DEF ListsInv, GivenInv, Blank
      <4>2. x \in given => InList(x) # Absent(x)
        BY <3>2
      <4> QED
        BY <1>6, <2>1, <3>1, <4>1, <4>2 DEF ShownInv
    <3>3. CASE ~(r.op \in Writes /\ r.id = x)
      <4>1. ToCome(x) => ToCome(x)'
        <5> SUFFICES ASSUME NEW t \in Slots, request[t].op = "profiles", x \notin request[t].touched,
                            request[t].at = "sent" \/ Done(t)
                     PROVE  ToCome(x)'
          BY DEF ToCome
        <5>1. t # s
          BY <1>1 DEF Busy, Done
        <5>2. x \notin request'[t].touched
          BY <1>2, <3>3, <5>1
        <5> QED
          BY <1>2, <1>3, <5>1, <5>2 DEF ToCome
      <4> QED
        BY <1>6, <2>1, <3>1, <4>1 DEF ShownInv
    <3> QED
      BY <3>2, <3>3
  <2>4. NewInv'
    <3> SUFFICES ASSUME NEW t \in Slots, NEW x \in Ids \ stale, Writing(t)',
                        request'[t].op \in {"add", "save"}, request'[t].alone, request'[t].id = x
                 PROVE  InList(x) = Absent(x)
      BY <1>1, <1>6 DEF NewInv, window, Absent
    <3>1. CASE t = s
      <4>1. x \in given' \ given
        BY <1>1, <3>1 DEF Writes
      <4> QED
        BY <4>1 DEF ListsInv, GivenInv, Blank
    <3>2. CASE t # s
      BY <1>2, <1>3, <2>1, <3>2 DEF NewInv
    <3> QED
      BY <3>1, <3>2
  <2> QED
    BY <2>2, <2>3, <2>4
<1> QED
  BY <1>8, <1>9, <1>10, <1>11 DEF ListsInv

\* What the panels ask for: new ids are created, listed ones deleted.
LEMMA AsksLists ==
  ASSUME Types, ListsInv, NEW s \in Slots, AskNew(s) \/ AskOther(s)
  PROVE  ListsInv'
<1>1. Providers \cap Profiles = {} /\ Ids = Providers \cup Profiles
  BY SettingsAssumption DEF Ids
<1>2. \A op, id, val : LET r == Write(op, id, val) IN r.at = "sent" /\ r.op = op /\ r.id = id
  BY DEF Write, Idle
<1>3. \A op \in {"providers", "profiles"} : LET r == List(op, Slots) IN
        r.at = "sent" /\ r.op \notin Writes /\ r.touched = Pending
  BY DEF List, Idle, Writes, Pending
<1>4. CASE AskNew(s)
  <2>1. \A of : New(of) \subseteq of \ given
    BY DEF New
  <2>2. PICK op, id, val :
          /\ op \in {"add", "save"} /\ id \in Ids \ given
          /\ Ask(s, Write(op, id, val)) /\ given' = given \cup {id}
    BY <1>1, <1>4, <2>1 DEF AskNew
  <2> DEFINE r == Write(op, id, val)
  <2>3. r.at = "sent" /\ r.op = op /\ r.id = id
    BY <1>2
  <2>4. r.op \in Writes
    BY <2>2, <2>3 DEF Writes
  <2> HIDE DEF r
  <2> QED
    BY <2>2, <2>3, <2>4, AskLists DEF r
<1>5. CASE AskOther(s)
  <2>1. CASE \E op \in {"providers", "profiles"} : Ask(s, List(op, Slots))
    BY <1>3, <1>5, <2>1, AskLists DEF AskOther
  <2>2. CASE \E p \in Providers : shown[p] > 0 /\ Ask(s, Write("drop", p, None))
    <3>1. PICK p \in Providers : shown[p] > 0 /\ Ask(s, Write("drop", p, None))
      BY <2>2
    <3>2. InList(p) # Absent(p) /\ p \in Ids
      BY <1>1, <3>1 DEF InList, Absent
    <3> DEFINE r == Write("drop", p, None)
    <3>3. r.at = "sent" /\ r.op = "drop" /\ r.id = p
      BY <1>2
    <3> HIDE DEF r
    <3>4. Ask(s, r) /\ given' = given
      BY <1>5, <3>1 DEF AskOther, r
    <3> QED
      BY <3>2, <3>3, <3>4, AskLists DEF Writes
  <2>3. CASE \E f \in Profiles : shownProfiles[f] # None /\ Ask(s, Write("forget", f, None))
    <3>1. PICK f \in Profiles : shownProfiles[f] # None /\ Ask(s, Write("forget", f, None))
      BY <2>3
    <3>2. InList(f) # Absent(f) /\ f \in Ids
      BY <1>1, <3>1 DEF InList, Absent
    <3> DEFINE r == Write("forget", f, None)
    <3>3. r.at = "sent" /\ r.op = "forget" /\ r.id = f
      BY <1>2
    <3> HIDE DEF r
    <3>4. Ask(s, r) /\ given' = given
      BY <1>5, <3>1 DEF AskOther, r
    <3> QED
      BY <3>2, <3>3, <3>4, AskLists DEF Writes
  <2> QED
    BY <1>5, <2>1, <2>2, <2>3 DEF AskOther
<1> QED
  BY <1>4, <1>5

\* A slot that is through with its request: what is in flight besides is as it was.
LEMMA ReleaseLists ==
  ASSUME ListsInv, NEW s \in Slots, \A t \in Slots \ {s} : request'[t] = request[t],
         ~Writing(s)', request'[s].at \in {"idle", "sent"},
         request'[s].at = "sent" => Written(Slots \ {s}) \subseteq request'[s].touched
  PROVE  /\ Pending' \subseteq Written(Slots \ {s}) /\ Pending' \subseteq Pending
         /\ TouchedInv' /\ ~Done(s)'
         /\ \A t \in Slots \ {s} :
              /\ Busy(t)' <=> Busy(t)
              /\ Writing(t)' <=> Writing(t)
              /\ Effective(t)' <=> Effective(t)
              /\ Done(t)' <=> Done(t)
              /\ \A x \in Ids : InReply(x, t)' = InReply(x, t)
<1>1. \A t \in Slots \ {s} :
        /\ Busy(t)' <=> Busy(t)
        /\ Writing(t)' <=> Writing(t)
        /\ Effective(t)' <=> Effective(t)
        /\ Done(t)' <=> Done(t)
        /\ \A x \in Ids : InReply(x, t)' = InReply(x, t)
  BY DEF Busy, Writing, Effective, Done, InReply
<1>2. Pending' \subseteq Written(Slots \ {s})
  BY <1>1 DEF Pending, Written
<1>3. Written(Slots \ {s}) \subseteq Pending
  BY DEF Pending, Written
<1>4. TouchedInv'
  <2> SUFFICES ASSUME NEW t \in Slots, Busy(t)', ~Writing(t)'
               PROVE  Pending' \subseteq request'[t].touched
    BY DEF TouchedInv
  <2>1. CASE t = s
    BY <1>2, <2>1 DEF Busy
  <2>2. CASE t # s
    BY <1>1, <1>2, <1>3, <2>2 DEF ListsInv, TouchedInv
  <2> QED
    BY <2>1, <2>2
<1> QED
  BY <1>1, <1>2, <1>3, <1>4 DEF Done

\* A good answer to a write.
LEMMA OkWriteLists ==
  ASSUME Types, AnswersInv, ListsInv, NEW s \in Slots, ReceiveOk(s), request[s].op \in Writes
  PROVE  ListsInv'
<1> DEFINE r == request[s]
<1>1. /\ Done(s) /\ app = "open" /\ UNCHANGED <<app, child, memory, database, given>>
      /\ stale' = IF r.alone THEN stale ELSE stale \cup {r.id}
      /\ \A x \in Ids \ {r.id} : InList(x)' = InList(x)
      /\ \A x \in Ids : x = r.id =>
           /\ r.op = "save" => InList(x)' = InList(x)
           /\ r.op \in {"drop", "forget"} => InList(x)' = Wanted(s)
           /\ r.op = "add" /\ InList(x) = 0 => InList(x)' = 1
  BY ReceiveEffects DEF sidecarVars, bridgeVars, childVars, ids
<1>2. \A t \in Slots \ {s} : request'[t] = request[t]
  BY NextRequest
<1>3. /\ Pending' \subseteq Written(Slots \ {s}) /\ Pending' \subseteq Pending
      /\ TouchedInv' /\ ~Done(s)'
      /\ \A t \in Slots \ {s} :
           /\ Busy(t)' <=> Busy(t)
           /\ Writing(t)' <=> Writing(t)
           /\ Effective(t)' <=> Effective(t)
           /\ Done(t)' <=> Done(t)
           /\ \A x \in Ids : InReply(x, t)' = InReply(x, t)
  BY NextRequest, ReleaseLists
<1>4. Writing(s) /\ Busy(s) /\ ~Writing(s)'
  BY <1>1, NextRequest DEF Writing, Busy, Done
<1>5. \A x \in Ids : InMemory(x)' = InMemory(x) /\ InTable(x)' = InTable(x)
  BY <1>1 DEF InMemory, InTable, memory, database
<1>6. r.id \in given /\ r.id \in Ids
  BY <1>4, WhatIsPending, SoundRequests, RequestFields DEF ListsInv, GivenInv, Sound
<1>7. GivenInv'
  <2>1. \A x \in Ids \ given : Blank(x)'
    BY <1>1, <1>2, <1>3, <1>5, <1>6 DEF ListsInv, GivenInv, Blank, Absent
  <2> QED
    BY <1>1, <1>3, <2>1 DEF ListsInv, GivenInv
<1>8. FreshInv'
  BY <1>1 DEF ListsInv, FreshInv
<1>9. UpInv'
  <2> SUFFICES ASSUME Up' PROVE ListedInv' /\ ShownInv' /\ NewInv'
    BY DEF UpInv
  <2>1. Up /\ ListedInv /\ ShownInv /\ NewInv
    BY <1>1 DEF Up, ListsInv, UpInv
  <2>2. ListedInv'
    BY <1>2, <1>3, <1>5, <2>1 DEF ListedInv
  <2>3. ShownInv'
    <3> SUFFICES ASSUME NEW x \in Ids \ stale', ~Underway(x)'
                 PROVE  \/ InList(x)' = InMemory(x)
                        \/ x \in Profiles /\ InList(x)' = Absent(x) /\ ToCome(x)'
      BY <1>5 DEF ShownInv, Absent
    <3>1. CASE x = r.id
      <4>1. r.alone /\ x \notin stale
        BY <1>1, <3>1
      <4>2. InMemory(x) = Wanted(s)
        BY <1>1, <1>4, <2>1, <3>1, <4>1
           DEF AnswersInv, DoneInv, Loaded, RegistryIsLoaded, ProfilesAreLoaded, Up
      <4>3. CASE r.op \in {"drop", "forget"}
        BY <1>1, <3>1, <4>2, <4>3
      <4>4. CASE r.op = "add"
        <5>1. x \in Providers /\ InList(x) = Absent(x)
          BY <1>4, <2>1, <3>1, <4>1, <4>4, SoundRequests, RequestFields DEF NewInv, Sound
        <5> QED
          BY <1>1, <3>1, <4>2, <4>4, <5>1 DEF Absent, Wanted
      <4>5. CASE r.op = "save"
        <5>1. x \in Profiles /\ InList(x) = Absent(x)
          BY <1>4, <2>1, <3>1, <4>1, <4>5, SoundRequests, RequestFields DEF NewInv, Sound
        <5>2. x \notin Written(Slots \ {s})
          BY <1>4, <3>1, <4>1 DEF Written, AnswersInv, AloneInv
        <5>3. ToCome(x)'
          BY <4>5, <5>2, NextRequest DEF ToCome
        <5> QED
          BY <1>1, <3>1, <4>5, <5>1, <5>3
      <4> QED
        BY <4>3, <4>4, <4>5 DEF Writes
    <3>2. CASE x # r.id
      <4>1. x \notin stale
        BY <1>1, <3>2
      <4>2. ~Underway(x)
        BY <1>2, <1>3, <3>2 DEF Underway
      <4>3. ToCome(x) => ToCome(x)'
        <5> SUFFICES ASSUME NEW t \in Slots, request[t].op = "profiles", x \notin request[t].touched,
                            request[t].at = "sent" \/ Done(t)
                     PROVE  ToCome(x)'
          BY DEF ToCome
        <5>1. t # s
          BY DEF Writes
        <5> QED
          BY <1>2, <1>3, <5>1 DEF ToCome
      <4> QED
        BY <1>1, <2>1, <3>2, <4>1, <4>2, <4>3 DEF ShownInv
    <3> QED
      BY <3>1, <3>2
  <2>4. NewInv'
    <3> SUFFICES ASSUME NEW t \in Slots, NEW x \in Ids \ stale', Writing(t)',
                        request'[t].op \in {"add", "save"}, request'[t].alone, request'[t].id = x
                 PROVE  InList(x)' = Absent(x)
      BY DEF NewInv, Absent
    <3>1. t # s
      BY <1>4
    <3>2. Writing(t) /\ request[t] = request'[t] /\ x \notin stale
      BY <1>1, <1>2, <1>3, <3>1
    <3>3. x # r.id
      BY <1>4, <3>1, <3>2 DEF AnswersInv, AloneInv
    <3> QED
      BY <1>1, <2>1, <3>2, <3>3 DEF NewInv
  <2> QED
    BY <2>2, <2>3, <2>4
<1> QED
  BY <1>3, <1>7, <1>8, <1>9 DEF ListsInv

\* What the answer to a list makes of the lists.
LEMMA ReplyEffects ==
  ASSUME Types, NEW s \in Slots, ReceiveOk(s), request[s].op \notin Writes
  PROVE  /\ Done(s) /\ app = "open" /\ UNCHANGED <<app, child, memory, database, given>>
         /\ \A x \in Ids :
              \/ /\ request[s].op = OpOf(x) /\ InList(x)' = InReply(x, s)
                 /\ x \in stale' <=> x \in request[s].touched
              \/ /\ request[s].op # OpOf(x) /\ InList(x)' = InList(x)
                 /\ x \in stale' <=> x \in stale
<1> DEFINE r == request[s]
<1>1. Providers \cap Profiles = {} /\ Ids = Providers \cup Profiles
  BY SettingsAssumption DEF Ids
<1>2. Done(s) /\ app = "open" /\ UNCHANGED <<app, child, memory, database, given>>
  BY DEF ReceiveOk, Done, sidecarVars, bridgeVars, childVars, ids
<1>3. r.op \in {"providers", "profiles"}
  <2>1. Sound(r) /\ r.op \in {"none", "providers", "profiles"} \cup Writes
    BY SoundRequests, RequestFields DEF Sound
  <2> QED
    BY <1>2, <2>1 DEF Done, Sound
<1>4. CASE r.op = "providers"
  <2>1. /\ shown' = [p \in Providers |-> IF p \in r.val THEN 1 ELSE 0]
        /\ shownProfiles' = shownProfiles
        /\ stale' = (stale \ Providers) \cup (r.touched \cap Providers)
    BY <1>4 DEF ReceiveOk, ListsAfter, Learn
  <2>2. ASSUME NEW x \in Providers
        PROVE  r.op = OpOf(x) /\ InList(x)' = InReply(x, s) /\ (x \in stale' <=> x \in r.touched)
    BY <1>4, <2>1 DEF OpOf, InList, InReply
  <2>3. ASSUME NEW x \in Profiles
        PROVE  r.op # OpOf(x) /\ InList(x)' = InList(x) /\ (x \in stale' <=> x \in stale)
    BY <1>1, <1>4, <2>1 DEF OpOf, InList
  <2> QED
    BY <1>1, <1>2, <2>2, <2>3
<1>5. CASE r.op = "profiles"
  <2>1. /\ shown' = shown /\ shownProfiles' = r.val
        /\ stale' = (stale \ Profiles) \cup (r.touched \cap Profiles)
    BY <1>5 DEF ReceiveOk, ListsAfter, Learn
  <2>2. ASSUME NEW x \in Profiles
        PROVE  r.op = OpOf(x) /\ InList(x)' = InReply(x, s) /\ (x \in stale' <=> x \in r.touched)
    BY <1>1, <1>5, <2>1 DEF OpOf, InList, InReply
  <2>3. ASSUME NEW x \in Providers
        PROVE  r.op # OpOf(x) /\ InList(x)' = InList(x) /\ (x \in stale' <=> x \in stale)
    BY <1>1, <1>5, <2>1 DEF OpOf, InList
  <2> QED
    BY <1>1, <1>2, <2>2, <2>3
<1> QED
  BY <1>3, <1>4, <1>5

\* A good answer to a list.
LEMMA OkReplyLists ==
  ASSUME Types, ListsInv, NEW s \in Slots, ReceiveOk(s), request[s].op \notin Writes
  PROVE  ListsInv'
<1> DEFINE r == request[s]
<1>1. /\ Done(s) /\ app = "open" /\ UNCHANGED <<app, child, memory, database, given>>
      /\ \A x \in Ids :
           \/ r.op = OpOf(x) /\ InList(x)' = InReply(x, s) /\ (x \in stale' <=> x \in r.touched)
           \/ r.op # OpOf(x) /\ InList(x)' = InList(x) /\ (x \in stale' <=> x \in stale)
  BY ReplyEffects
<1>2. \A t \in Slots \ {s} : request'[t] = request[t]
  BY NextRequest
<1>3. /\ Pending' \subseteq Pending /\ TouchedInv' /\ ~Done(s)'
      /\ \A t \in Slots \ {s} :
           /\ Busy(t)' <=> Busy(t)
           /\ Writing(t)' <=> Writing(t)
           /\ Effective(t)' <=> Effective(t)
           /\ Done(t)' <=> Done(t)
           /\ \A x \in Ids : InReply(x, t)' = InReply(x, t)
  BY NextRequest, ReleaseLists
<1>4. Busy(s) /\ ~Writing(s) /\ ~Writing(s)' /\ ~Effective(s)
  BY <1>1, NextRequest DEF Writing, Busy, Done, Effective
<1>5. \A x \in Ids : InMemory(x)' = InMemory(x) /\ InTable(x)' = InTable(x)
  BY <1>1 DEF InMemory, InTable, memory, database
<1>6. GivenInv'
  <2>1. ASSUME NEW x \in Ids \ given PROVE Blank(x)'
    <3>1. Blank(x)
      BY DEF ListsInv, GivenInv
    <3>2. InList(x)' = Absent(x)
      BY <1>1, <3>1 DEF Blank
    <3> QED
      BY <1>2, <1>3, <1>5, <3>1, <3>2 DEF Blank, Absent
  <2> QED
    BY <1>1, <1>3, <2>1 DEF ListsInv, GivenInv
<1>7. FreshInv'
  BY <1>1 DEF ListsInv, FreshInv
<1>8. UpInv'
  <2> SUFFICES ASSUME Up' PROVE ListedInv' /\ ShownInv' /\ NewInv'
    BY DEF UpInv
  <2>1. Up /\ ListedInv /\ ShownInv /\ NewInv
    BY <1>1 DEF Up, ListsInv, UpInv
  <2>2. ListedInv'
    BY <1>2, <1>3, <1>5, <2>1 DEF ListedInv
  <2>3. ShownInv'
    <3> SUFFICES ASSUME NEW x \in Ids \ stale', ~Underway(x)'
                 PROVE  \/ InList(x)' = InMemory(x)
                        \/ x \in Profiles /\ InList(x)' = Absent(x) /\ ToCome(x)'
      BY <1>5 DEF ShownInv, Absent
    <3>1. CASE r.op = OpOf(x)
      BY <1>1, <2>1, <3>1 DEF ListedInv
    <3>2. CASE r.op # OpOf(x)
      <4>1. ~Underway(x)
        BY <1>2, <1>3, <1>4 DEF Underway
      <4>2. x \in Profiles /\ ToCome(x) => ToCome(x)'
        <5> SUFFICES ASSUME x \in Profiles, NEW t \in Slots, request[t].op = "profiles",
                            x \notin request[t].touched, request[t].at = "sent" \/ Done(t)
                     PROVE  ToCome(x)'
          BY DEF ToCome
        <5>1. t # s
          BY <3>2, SettingsAssumption DEF OpOf
        <5> QED
          BY <1>2, <1>3, <5>1 DEF ToCome
      <4> QED
        BY <1>1, <2>1, <3>2, <4>1, <4>2 DEF ShownInv
    <3> QED
      BY <3>1, <3>2
  <2>4. NewInv'
    <3> SUFFICES ASSUME NEW t \in Slots, NEW x \in Ids \ stale', Writing(t)',
                        request'[t].op \in {"add", "save"}, request'[t].alone, request'[t].id = x
                 PROVE  InList(x)' = Absent(x)
      BY DEF NewInv, Absent
    <3>1. t # s
      BY <1>4
    <3>2. Writing(t) /\ request[t] = request'[t]
      BY <1>2, <1>3, <3>1
    <3>3. r.op # OpOf(x)
      BY <1>1, <1>4, <3>2, WhatIsPending DEF ListsInv, TouchedInv
    <3> QED
      BY <1>1, <2>1, <3>2, <3>3 DEF NewInv
  <2> QED
    BY <2>2, <2>3, <2>4
<1> QED
  BY <1>3, <1>6, <1>7, <1>8 DEF ListsInv

\* Any other answer leaves the lists, and makes stale what may have been done.
LEMMA ErrorLists ==
  ASSUME Types, AnswersInv, ListsInv, NEW s \in Slots, ReceiveError(s)
  PROVE  ListsInv'
<1> DEFINE r == request[s]
<1>1. /\ app = "open" /\ r.at = "answered" /\ r.reply # "ok"
      /\ UNCHANGED <<app, child, memory, database, shown, shownProfiles, given>>
      /\ stale' = stale \cup (IF r.op \in Writes /\ r.reply = "failed" THEN {r.id} ELSE {})
      /\ request' = [request EXCEPT ![s] = Idle]
  BY DEF ReceiveError, sidecarVars, bridgeVars, childVars, ids
<1>2. request'[s] = Idle /\ \A t \in Slots \ {s} : request'[t] = request[t]
  BY <1>1, IdleFields
<1>3. ~Writing(s)' /\ request'[s].at = "idle"
  BY <1>2 DEF Writing, Busy, Idle
<1>4. /\ Pending' \subseteq Pending /\ TouchedInv' /\ ~Done(s)'
      /\ \A t \in Slots \ {s} :
           /\ Busy(t)' <=> Busy(t)
           /\ Writing(t)' <=> Writing(t)
           /\ Effective(t)' <=> Effective(t)
           /\ Done(t)' <=> Done(t)
           /\ \A x \in Ids : InReply(x, t)' = InReply(x, t)
  BY <1>2, <1>3, ReleaseLists
<1>5. \A x \in Ids : InMemory(x)' = InMemory(x) /\ InTable(x)' = InTable(x) /\ InList(x)' = InList(x)
  BY <1>1 DEF InMemory, InTable, InList, memory, database
<1>6. Effective(s) => r.id \in stale'
  <2>1. r.reply \in {"ok", "refused", "failed"}
    BY <1>1 DEF Types, TypeOK, Requests, RequestsOf, AnswersInv, FlightInv
  <2> QED
    BY <1>1, <2>1 DEF Effective, Writing
<1>7. GivenInv'
  <2>1. \A x \in Ids \ given : Blank(x)'
    BY <1>2, <1>4, <1>5 DEF ListsInv, GivenInv, Blank, Absent
  <2> QED
    BY <1>1, <1>4, <2>1 DEF ListsInv, GivenInv
<1>8. FreshInv'
  <2>1. r.op \in Writes => r.id \in Ids
    BY SoundRequests, RequestFields DEF Sound
  <2> QED
    BY <1>1, <1>4, <2>1 DEF ListsInv, FreshInv
<1>9. UpInv'
  <2> SUFFICES ASSUME Up' PROVE ListedInv' /\ ShownInv' /\ NewInv'
    BY DEF UpInv
  <2>1. Up /\ ListedInv /\ ShownInv /\ NewInv
    BY <1>1 DEF Up, ListsInv, UpInv
  <2>2. ListedInv'
    BY <1>2, <1>4, <1>5, <2>1 DEF ListedInv
  <2>3. ShownInv'
    <3>1. \A x \in Ids \ stale' : Underway(x) => Underway(x)'
      BY <1>2, <1>4, <1>6 DEF Underway
    <3>2. \A x : ToCome(x) => ToCome(x)'
      BY <1>1, <1>2, <1>4 DEF ToCome, Done
    <3> QED
      BY <1>1, <1>5, <2>1, <3>1, <3>2 DEF ShownInv, Absent
  <2>4. NewInv'
    BY <1>1, <1>2, <1>3, <1>4, <1>5, <2>1 DEF NewInv, Absent
  <2> QED
    BY <2>2, <2>3, <2>4
<1> QED
  BY <1>4, <1>7, <1>8, <1>9 DEF ListsInv

\* A step of the process that leaves every request as it was, or ends it without a good
\* answer; what it makes of the lists and the memory was there before.
LEMMA LeavesLists ==
  ASSUME ListsInv, given' = given, FreshInv', UpInv',
         \A s \in Slots :
           \/ request'[s] = request[s]
           \/ ~Busy(s)'
           \/ /\ Busy(s) /\ ~Done(s)' /\ request'[s].op = request[s].op
              /\ request'[s].id = request[s].id /\ request'[s].touched = request[s].touched,
         \A x \in Ids :
           /\ InMemory(x)' \in {InMemory(x), InTable(x)} /\ InTable(x)' = InTable(x)
           /\ InList(x)' \in {InList(x), Absent(x)}
  PROVE  ListsInv'
<1>1. \A s \in Slots :
        /\ Writing(s)' => Writing(s) /\ request'[s].id = request[s].id
        /\ Busy(s)' /\ ~Writing(s)' => Busy(s) /\ ~Writing(s) /\ request'[s].touched = request[s].touched
        /\ Done(s)' => request'[s] = request[s] /\ Done(s)
  BY DEF Writing, Busy, Done
<1>2. Pending' \subseteq Pending
  BY <1>1 DEF Pending, Written
<1>3. TouchedInv'
  BY <1>1, <1>2, TouchedStands DEF ListsInv
<1>4. GivenInv'
  <2>1. ASSUME NEW x \in Ids \ given PROVE Blank(x)'
    <3>1. Blank(x)
      BY DEF ListsInv, GivenInv
    <3>2. InMemory(x)' = Absent(x) /\ InTable(x)' = Absent(x) /\ InList(x)' = Absent(x)
      BY <3>1 DEF Blank
    <3>3. \A s \in Slots : request'[s].op = OpOf(x) /\ Done(s)' => InReply(x, s)' = Absent(x)
      BY <1>1, <3>1 DEF Blank, InReply
    <3> QED
      BY <3>2, <3>3 DEF Blank, Absent
  <2> QED
    BY <1>2, <2>1 DEF ListsInv, GivenInv
<1> QED
  BY <1>3, <1>4 DEF ListsInv

\* A step that leaves memory and tables.
LEMMA NothingChanged ==
  ASSUME UNCHANGED <<memory, database>>
  PROVE  \A x \in Ids : InMemory(x)' = InMemory(x) /\ InTable(x)' = InTable(x)
BY DEF InMemory, InTable, memory, database

\* A start reads the tables, before there is anybody to answer.
LEMMA LoadLists ==
  ASSUME ListsInv, LoadProviders \/ LoadProfiles
  PROVE  ListsInv'
<1>1. /\ UNCHANGED <<app, database, window, request, given>>
      /\ child \in {"migrated", "providers"} /\ child' \in {"providers", "loaded"}
  BY DEF LoadProviders, LoadProfiles, ReadProviders, ReadProfiles, bridgeVars, ids
<1>2. \A x \in Ids : /\ InMemory(x)' \in {InMemory(x), InTable(x)}
                     /\ InTable(x)' = InTable(x) /\ InList(x)' = InList(x)
  <2>1. \A x \in Ids : InTable(x)' = InTable(x) /\ InList(x)' = InList(x)
    BY <1>1 DEF InTable, InList, database, window
  <2>2. CASE LoadProviders
    BY <2>1, <2>2 DEF LoadProviders, InMemory, InTable
  <2>3. CASE LoadProfiles
    BY <2>1, <2>3 DEF LoadProfiles, InMemory, InTable
  <2> QED
    BY <2>1, <2>2, <2>3
<1>3. FreshInv'
  BY <1>1 DEF ListsInv, FreshInv, window, Busy, Done
<1>4. UpInv'
  BY <1>1, NotUp DEF Up
<1> QED
  BY <1>1, <1>2, <1>3, <1>4, LeavesLists

\* The steps of the application and of the sidecar under it.
LEMMA ProcessLists ==
  ASSUME Types, ListsInv, Start \/ Boots \/ Reads \/ Dies \/ Closes \/ Exits
  PROVE  ListsInv'
<1>1. CASE Start
  <2>1. /\ app' = "spawning" /\ stale' = Ids /\ UNCHANGED <<memory, database, given>>
        /\ request' = [s \in Slots |-> Idle]
        /\ shown' = [p \in Providers |-> 0] /\ shownProfiles' = [f \in Profiles |-> None]
    BY <1>1 DEF Start, Launch, NoLists, ids
  <2>2. \A s \in Slots : ~Busy(s)' /\ ~Done(s)'
    BY <2>1 DEF Busy, Done, Idle
  <2>3. \A x \in Ids : InList(x)' = Absent(x)
    BY <2>1 DEF InList, Absent, Ids
  <2>4. FreshInv' /\ UpInv'
    BY <2>1, <2>2, NotUp DEF FreshInv, Up, Ids
  <2> QED
    BY <2>1, <2>2, <2>3, <2>4, LeavesLists, NothingChanged
<1>2. CASE Boots \/ Reads
  <2>1. UNCHANGED <<memory, database, window, given, request>>
    BY <1>2 DEF Boots, Reads, settingsVars, ids
  <2>2. /\ ~Up
        /\ \/ app' = app /\ child \notin {"serving", "dead"}
           \/ app = "spawning" /\ app' = "open" /\ child' = child
    BY <1>2 DEF Boots, Reads, Migrate, SetVersion, EmitHandshake, Serve, ReadHandshake,
                ClientFails, SpawnFails, bridgeVars, childVars, Up
  <2>3. FreshInv'
    BY <2>1, <2>2 DEF ListsInv, FreshInv, window, Busy, Done
  <2>4. UpInv'
    BY <2>1, <2>2, UpBegins DEF ListsInv, Up, window
  <2>5. \A x \in Ids : InList(x)' = InList(x)
    BY <2>1 DEF InList, window
  <2> QED
    BY <2>1, <2>3, <2>4, <2>5, LeavesLists, NothingChanged
<1>3. CASE Dies
  <2>1. child' = "dead" /\ UNCHANGED <<app, memory, database, window, given>>
    BY <1>3 DEF Dies, ChildFails, bridgeVars, ids
  <2>2. \A x \in Ids : InList(x)' = InList(x)
    BY <2>1 DEF InList, window
  <2>3. CASE app = "open"
    <3>1. PICK arrived \in SUBSET {s \in Slots : request[s].at = "answered"} : request' = Lost(arrived)
      BY <1>3, <2>3 DEF Dies
    <3>2. \A s \in Slots :
            \/ request'[s] = request[s]
            \/ /\ Busy(s) /\ ~Done(s)' /\ request'[s].op = request[s].op
               /\ request'[s].id = request[s].id /\ request'[s].touched = request[s].touched
      BY <3>1, LostFields DEF Done
    <3>3. FreshInv' /\ UpInv'
      BY <2>1, <2>3, NotUp DEF FreshInv, Up
    <3> QED
      BY <2>1, <2>2, <3>2, <3>3, LeavesLists, NothingChanged
  <2>4. CASE app # "open"
    <3>1. \A s \in Slots : ~Busy(s)' /\ ~Done(s)'
      BY <1>3, <2>4 DEF Dies, Busy, Done, Idle
    <3>2. FreshInv' /\ UpInv'
      BY <2>1, <2>4, <3>1, NotUp DEF ListsInv, FreshInv, Up, window
    <3> QED
      BY <2>1, <2>2, <3>1, <3>2, LeavesLists, NothingChanged
  <2> QED
    BY <2>3, <2>4
<1>4. CASE Closes \/ Exits
  <2>1. /\ app' = "closed" /\ stale' = Ids /\ UNCHANGED <<memory, database, given>>
        /\ shown' = [p \in Providers |-> 0] /\ shownProfiles' = [f \in Profiles |-> None]
    BY <1>4 DEF Closes, AppCloses, Exits, AppExits, NoLists, ids
  <2>2. \A s \in Slots : request'[s] = request[s] \/ ~Busy(s)'
    BY <1>4 DEF Closes, Exits, Busy, Idle
  <2>3. \A x \in Ids : InList(x)' = Absent(x)
    BY <2>1 DEF InList, Absent, Ids
  <2>4. FreshInv' /\ UpInv'
    BY <2>1, NotUp DEF FreshInv, Up
  <2> QED
    BY <2>1, <2>2, <2>3, <2>4, LeavesLists, NothingChanged
<1> QED
  BY <1>1, <1>2, <1>3, <1>4

LEMMA InitLists == Init => ListsInv
<1> SUFFICES ASSUME Init PROVE ListsInv
  OBVIOUS
<1>1. \A s \in Slots : ~Busy(s) /\ ~Writing(s) /\ ~Done(s)
  BY DEF Init, Idle, Busy, Writing, Done
<1>2. app = "closed" /\ child = "none"
  BY DEF Init, SidecarInit
<1>3. FreshInv /\ TouchedInv /\ UpInv
  BY <1>1, <1>2 DEF FreshInv, TouchedInv, UpInv, Up
<1>4. GivenInv
  <2>1. \A x \in Ids : Blank(x)
    BY <1>1 DEF Init, Blank, InMemory, InTable, InList, Absent, Ids
  <2> QED
    BY <1>1, <2>1 DEF GivenInv, Pending, Written
<1> QED
  BY <1>3, <1>4 DEF ListsInv

LEMMA StepLists ==
  ASSUME Types, AnswersInv, ListsInv, [Next]_vars
  PROVE  ListsInv'
<1>1. CASE Strays \/ UNCHANGED vars
  <2>1. UNCHANGED <<app, child, memory, database, window, given, request>>
    BY <1>1 DEF Strays, StraySteps, StrayMigrates, StrayEnds,
                vars, settingsVars, sidecarVars, childVars, bridgeVars, ids
  <2>2. \A x \in Ids : InList(x)' = InList(x) /\ InMemory(x)' = InMemory(x)
    BY <2>1, NothingChanged DEF InList, window
  <2>3. FreshInv'
    BY <2>1 DEF ListsInv, FreshInv, window, Busy, Done
  <2>4. UpInv'
    <3>1. Up' <=> Up
      BY <2>1 DEF Up
    <3>2. ListedInv => ListedInv'
      BY <2>1, <2>2 DEF ListedInv, Done, InReply
    <3>3. ShownInv => ShownInv'
      BY <2>1, <2>2 DEF ShownInv, ToCome, Underway, Effective, Writing, Busy, Done, Absent, window
    <3>4. NewInv => NewInv'
      BY <2>1, <2>2 DEF NewInv, Writing, Busy, Absent, window
    <3> QED
      BY <3>1, <3>2, <3>3, <3>4 DEF ListsInv, UpInv
  <2> QED
    BY <2>1, <2>2, <2>3, <2>4, LeavesLists, NothingChanged
<1>2. ASSUME NEW s \in Slots, AskNew(s) \/ AskOther(s) \/ Answered(s) \/ Served(s)
      PROVE  ListsInv'
  BY <1>2, AsksLists, FailureLists, OkWriteLists, OkReplyLists, ErrorLists, HandleLists, CommitLists
     DEF Answered, Served
<1> QED
  BY <1>1, <1>2, LoadLists, ProcessLists DEF Next

\* When the window waits for nothing, what is not stale is listed as the memory has it.
LEMMA ListsTell ==
  ASSUME ListsInv
  PROVE  ListsAgree
<1> SUFFICES ASSUME Up, \A s \in Slots : ~Busy(s)
             PROVE  /\ \A p \in Providers \ stale : shown[p] = (IF p \in registry THEN 1 ELSE 0)
                    /\ \A f \in Profiles \ stale : shownProfiles[f] = llm_profiles[f]
  BY DEF ListsAgree, Up
<1>1. \A x \in Ids \ stale : InList(x) = InMemory(x)
  BY DEF ListsInv, UpInv, ShownInv, Underway, Effective, ToCome, Writing, Busy, Done
<1>2. Ids = Providers \cup Profiles /\ Providers \cap Profiles = {}
  BY SettingsAssumption DEF Ids
<1> QED
  BY <1>1, <1>2 DEF InList, InMemory

-----------------------------------------------------------------------------

Inv == SidecarInv /\ Types /\ LinkInv /\ AnswersInv /\ ListsInv

LEMMA Invariance == Spec => []Inv
<1>1. Init => Inv
  BY SidecarStarts, InitTypes, InitLinks, InitAnswers, InitLists DEF Init, Inv
<1>2. Inv /\ [Next]_vars => Inv'
  BY NextMovesSidecar, SidecarStep, StepTypes, StepLinks, StepAnswers, StepLists DEF Inv
<1> QED
  BY <1>1, <1>2, PTL DEF Spec

\* Every variable keeps its type.
THEOREM TypeCorrect == Spec => []TypeOK
<1>1. Inv => TypeOK
  BY DEF Inv, Types
<1> QED
  BY <1>1, Invariance, PTL

\* A sidecar that no bridge keeps is the child of a launch whose application ended
\* without a drop or got no client for it; no window gives up one that is starting.
THEOREM StraysExplained == Spec => []StraysAreExplained
<1>1. Inv => StraysAreExplained
  BY DEF Inv, SidecarInv
<1> QED
  BY <1>1, Invariance, PTL

\* A start that follows a crash anywhere in an earlier one does not fail for it.
THEOREM StartsAgain == Spec => []FailsOnlyByFault
<1>1. Inv => FailsOnlyByFault
  BY DEF Inv, SidecarInv
<1> QED
  BY <1>1, Invariance, PTL

\* No order of handlers, commits, failures and starts leaves a profile without the
\* provider it was given.
THEOREM ProfilesKeepProviders == Spec => []ProfilesAreLinked
<1>1. Inv => ProfilesAreLinked
  BY DEF Inv, LinkInv
<1> QED
  BY <1>1, Invariance, PTL

\* What the answers said of a provider or a profile is what the tables hold, and what the
\* memory of every later sidecar does, whatever crashed, closed or committed in between;
\* only an id whose last write failed, was lost or ran beside another is in doubt.
THEOREM AnswersStand == Spec => []AnswersHold
<1>1. Inv => AnswersHold
  BY AnswersTell DEF Inv
<1> QED
  BY <1>1, Invariance, PTL

\* A window that waits for nothing lists what the sidecar's memory holds, in any order of
\* answers: only what changed while a list was on its way may be wrong.
THEOREM ListsStand == Spec => []ListsAgree
<1>1. Inv => ListsAgree
  BY ListsTell DEF Inv
<1> QED
  BY <1>1, Invariance, PTL

=============================================================================
