--------------------------- MODULE ProjectService ---------------------------
(***************************************************************************)
(* The stateful core of the BuildSmart backend: one project, its stored    *)
(* design versions, its pending chat proposal and its conversation, and    *)
(* the HTTP handlers that change them.                                     *)
(*                                                                         *)
(* FastAPI runs every handler (plain `def`) in a thread pool, so up to     *)
(* InFlight requests are between their first and their last repository     *)
(* call at the same time.  A step of this module is ONE repository call    *)
(* with the computation around it (a handler that reads the project and    *)
(* then a list that only grows reads both in one step); a handler keeps    *)
(* the copy of the project it read (`base`) until it writes.  What happens *)
(* inside a repository call (load, truncate, dump) is module JsonFileStore.*)
(*                                                                         *)
(* A request is its own process and never reused: the identities a handler *)
(* draws with uuid4 (proposal, preference, the design it computes) are the *)
(* request's.  The id of a design version is its position in `versions`.   *)
(***************************************************************************)
EXTENDS Integers, Sequences, FiniteSets

CONSTANTS
  Requests,     \* the requests clients may send
  None,         \* "no request": no author, no design, no proposal
  InFlight,     \* handlers running at once (1: one client at a time)
  MaxWet,       \* wet rooms a project may ask for (bound)
  MaxCrashes,   \* process crashes (bound)
  Endpoints     \* the endpoints clients use in this instance

ASSUME NoneAssumption == None \notin Requests
ASSUME InFlightAssumption == InFlight \in Nat \ {0}
ASSUME MaxWetAssumption == MaxWet \in Nat
ASSUME MaxCrashesAssumption == MaxCrashes \in Nat

Operations == {"patch", "activate", "chat", "confirm", "cancel", "design", "edit", "parse",
               "review"}

ASSUME EndpointsAssumption == Endpoints \subseteq Operations

Unstated == -1                     \* TaggedInt.value is None
Keep     == -2                     \* a diff field left at None
Counts   == {Unstated} \cup 0 .. MaxWet
Authors  == Requests \cup {None}

VARIABLES
  project,       \* the record of the project in projects.json
  versions,      \* its records in design_versions.json, oldest first
  proposal,      \* its record in chat_proposals.json
  conversation,  \* its messages in conversations.json
  pc,            \* where each request's handler stands
  call,          \* which endpoint it called, and the proposal it named
  change,        \* the diff or rollback the handler is executing
  base,          \* the copy of the project the handler read
  crashes        \* crashes so far

stored == <<project, versions, proposal, conversation>>
local  == <<pc, call, change, base>>
vars   == <<project, versions, proposal, conversation, pc, call, change, base, crashes>>

-----------------------------------------------------------------------------
(* Data.  A list of wet-room kinds is its length and the request that wrote *)
(* it; a preference is its id and the request that last wrote it.           *)

LogFields == {"wet_rooms", "wet_room_kinds", "wet_room_questions", "preferences.add",
              "preferences.update", "preferences.remove", "active_design_version_id"}

LogEntries == [field : LogFields, value : Int \cup Authors, by : Requests]

Preferences == UNION {[S -> Requests] : S \in SUBSET Requests}

Projects == [parsed : BOOLEAN, wet : Counts, rows : 0 .. MaxWet, rowsBy : Authors,
             questions : BOOLEAN, unsupported : BOOLEAN, prefs : Preferences,
             log : Seq(LogEntries), active : Nat, design : Authors]

Versions == [supersedes : Nat, design : Requests]

Changes == [wet : Counts \cup {Keep}, rows : {Keep} \cup 0 .. MaxWet, rowsBy : Authors,
            prefOp : {"none", "add", "update", "remove"}, pref : Authors, version : Nat]

Proposals == [id : Authors, change : Changes, consumed : BOOLEAN]

Messages == [by : Requests, offer : BOOLEAN]

Running  == {"persist", "generate", "mirror", "activate", "consume", "apply", "cancel",
             "offer", "reply", "draw", "parse", "review", "answer"}
Ended    == {"done", "refused", "failed", "lost"}

NoPreferences == [p \in {} |-> p]

NewProject == [parsed |-> FALSE, wet |-> Unstated, rows |-> 0, rowsBy |-> None,
               questions |-> FALSE, unsupported |-> FALSE, prefs |-> NoPreferences,
               log |-> <<>>, active |-> 0, design |-> None]

NoChange == [wet |-> Keep, rows |-> Keep, rowsBy |-> None, prefOp |-> "none", pref |-> None,
             version |-> 0]

(* A diff of the wet-room fields, of one preference; a change of version.   *)
WetDiff(w, n, by)    == [NoChange EXCEPT !.wet = w, !.rows = n, !.rowsBy = by]
PreferenceDiff(o, p) == [NoChange EXCEPT !.prefOp = o, !.pref = p]
ToVersion(v)         == [NoChange EXCEPT !.version = v]

NoProposal == [id |-> None, change |-> NoChange, consumed |-> TRUE]

TypeOK ==
  /\ project \in Projects
  /\ versions \in Seq(Versions)
  /\ proposal \in Proposals
  /\ conversation \subseteq Messages
  /\ pc \in [Requests -> {"idle"} \cup Running \cup Ended]
  /\ call \in [Requests -> [op : Operations \cup {"none"}, proposal : Authors]]
  /\ change \in [Requests -> Changes]
  /\ base \in [Requests -> Projects]
  /\ crashes \in 0 .. MaxCrashes

(* Right after POST /projects: a described project nobody has parsed.       *)
Init ==
  /\ project = NewProject
  /\ versions = <<>>
  /\ proposal = NoProposal
  /\ conversation = {}
  /\ pc = [r \in Requests |-> "idle"]
  /\ call = [r \in Requests |-> [op |-> "none", proposal |-> None]]
  /\ change = [r \in Requests |-> NoChange]
  /\ base = [r \in Requests |-> NewProject]
  /\ crashes = 0

-----------------------------------------------------------------------------
(* What a diff does to a project (app/projects/update.py).                  *)

(* Mutant: a field left out of the diff overwrites the stored one.          *)
Overwritten(new, old) == new

Updated(new, old) == IF new = Keep THEN old ELSE new

ValidDiff(p, d) ==
  LET count == Updated(d.wet, p.wet)
  IN  /\ d.rows # Keep /\ count # Unstated => d.rows <= count
      /\ d.prefOp \in {"update", "remove"} => d.pref \in DOMAIN p.prefs

ChangesWet(p, d)      == d.wet \notin {Keep, p.wet}
ChangesRows(p, d)     == d.rows # Keep /\ <<d.rows, d.rowsBy>> # <<p.rows, p.rowsBy>>
AnswersQuestion(p, d) == d.rows # Keep /\ p.questions

Regenerates(p, d) == ChangesWet(p, d) \/ ChangesRows(p, d) \/ AnswersQuestion(p, d)

When(condition, entry) == IF condition THEN <<entry>> ELSE <<>>

Entry(field, value, r) == [field |-> field, value |-> value, by |-> r]

(* Mutant: answering the questions is not recorded.                         *)
SilentAnswer(p, d, r) ==
  When(ChangesWet(p, d), Entry("wet_rooms", d.wet, r))
    \o When(ChangesRows(p, d), Entry("wet_room_kinds", d.rows, r))

RequirementEntries(p, d, r) ==
  When(ChangesWet(p, d), Entry("wet_rooms", d.wet, r))
    \o When(ChangesRows(p, d), Entry("wet_room_kinds", d.rows, r))
    \o When(AnswersQuestion(p, d), Entry("wet_room_questions", 0, r))

(* Mutant: removing a preference is not recorded.                           *)
SilentRemoval(d, r) ==
  When(d.prefOp = "add", Entry("preferences.add", r, r))
    \o When(d.prefOp = "update", Entry("preferences.update", d.pref, r))

PreferenceEntries(d, r) ==
  When(d.prefOp = "add", Entry("preferences.add", r, r))
    \o When(d.prefOp = "update", Entry("preferences.update", d.pref, r))
    \o When(d.prefOp = "remove", Entry("preferences.remove", d.pref, r))

WithPreference(prefs, p, r) == [q \in DOMAIN prefs \cup {p} |-> IF q = p THEN r ELSE prefs[q]]
WithoutPreference(prefs, p) == [q \in DOMAIN prefs \ {p} |-> prefs[q]]

ApplyDiff(p, d, r) ==
  [p EXCEPT
    !.wet       = Updated(d.wet, @),
    !.rows      = Updated(d.rows, @),
    !.rowsBy    = IF d.rows = Keep THEN @ ELSE d.rowsBy,
    !.questions = @ /\ d.rows = Keep,
    !.prefs     = CASE d.prefOp = "add"    -> WithPreference(@, r, r)
                    [] d.prefOp = "update" -> WithPreference(@, d.pref, r)
                    [] d.prefOp = "remove" -> WithoutPreference(@, d.pref)
                    [] OTHER               -> @,
    !.log       = @ \o RequirementEntries(p, d, r) \o PreferenceEntries(d, r)]

(* Mutant: the pointer moves, the flat fields stay.                         *)
ShowPointerOnly(p, v, d) == [p EXCEPT !.active = v]

(* The mirrored copy of a version's design in the project's flat fields.    *)
Show(p, v, d) == [p EXCEPT !.active = v, !.design = d]

RollBack(p, v, d, r) ==
  Show([p EXCEPT !.log = Append(@, Entry("active_design_version_id", v, r))], v, d)

-----------------------------------------------------------------------------
(* Steps of a handler.                                                      *)

CanEnter(r, op) ==
  /\ op \in Endpoints
  /\ pc[r] = "idle"
  /\ Cardinality({s \in Requests : pc[s] \in Running}) < InFlight

(* The handler of r reaches its next repository call holding d and p.       *)
Holds(r, at, d, p) ==
  /\ pc' = [pc EXCEPT ![r] = at]
  /\ change' = [change EXCEPT ![r] = d]
  /\ base' = [base EXCEPT ![r] = p]

Ends(r, how) == Holds(r, how, NoChange, NewProject)

Enters(r, op, p) == call' = [call EXCEPT ![r] = [op |-> op, proposal |-> p]]

(***************************************************************************)
(* apply_project_update: read and validate; persist the change; then, when *)
(* it affects the design, generate, store a version, mirror it.  `rejected`*)
(* is what a ValueError of the validation becomes: 422 for PATCH, an       *)
(* uncaught 500 for a confirmation.                                        *)
(***************************************************************************)
ValidateLate(r, d, rejected) ==      \* mutant: an invalid diff is stored, then rejected
  /\ IF ValidDiff(project, d)
       THEN Holds(r, "persist", d, project) /\ UNCHANGED project
       ELSE Ends(r, rejected) /\ project' = ApplyDiff(project, d, r)
  /\ UNCHANGED <<versions, proposal, conversation>>

ReadForUpdate(r, d, rejected) ==
  /\ IF ValidDiff(project, d) THEN Holds(r, "persist", d, project) ELSE Ends(r, rejected)
  /\ UNCHANGED stored

ReadForRollback(r, v) ==
  /\ IF v \in 1 .. Len(versions)
       THEN Holds(r, "activate", ToVersion(v), project)
       ELSE Ends(r, "refused")
  /\ UNCHANGED stored

(* Where a handler goes when its mutation is over: a confirmation still has *)
(* its reply to append, a Settings call returns.                            *)
Return(r) == IF call[r].op = "confirm" THEN Ends(r, "reply") ELSE Ends(r, "done")

Persist(r) ==
  LET updated == ApplyDiff(base[r], change[r], r)
  IN  /\ pc[r] = "persist"
      /\ project' = updated
      /\ IF Regenerates(base[r], change[r])
           THEN Holds(r, "generate", NoChange, updated)
           ELSE Return(r)
      /\ UNCHANGED <<versions, proposal, conversation, call, crashes>>

(* Mutant: the newest version is superseded, not the active one.            *)
NewVersionOfNewest(p, r) == [supersedes |-> Len(versions), design |-> r]

NewVersion(p, r) == [supersedes |-> p.active, design |-> r]

(* Mutant: the version is made and shown, and never stored.                 *)
StoreNothing(r) ==
  /\ pc[r] = "generate"
  /\ Holds(r, "mirror", ToVersion(Len(versions) + 1), base[r])
  /\ UNCHANGED <<stored, call, crashes>>

StoreVersion(r) ==
  /\ pc[r] = "generate"
  /\ versions' = Append(versions, NewVersion(base[r], r))
  /\ Holds(r, "mirror", ToVersion(Len(versions) + 1), base[r])
  /\ UNCHANGED <<project, proposal, conversation, call, crashes>>

(* The solver or the architect model has no design for these requirements:  *)
(* Settings answers with the error, a confirmation with a reply.            *)
GenerationFails(r) ==
  /\ pc[r] = "generate"
  /\ IF call[r].op = "confirm" THEN Ends(r, "reply") ELSE Ends(r, "failed")
  /\ UNCHANGED <<stored, call, crashes>>

Mirror(r) ==
  /\ pc[r] = "mirror"
  /\ project' = Show(base[r], change[r].version, r)
  /\ Return(r)
  /\ UNCHANGED <<versions, proposal, conversation, call, crashes>>

Activate(r) ==
  /\ pc[r] = "activate"
  /\ project' = LET v == change[r].version IN RollBack(base[r], v, versions[v].design, r)
  /\ Return(r)
  /\ UNCHANGED <<versions, proposal, conversation, call, crashes>>

-----------------------------------------------------------------------------
(* Settings: PATCH /projects/{id} and POST .../design-versions/{v}/activate *)

(* One diff changes the wet rooms or one preference; rows sent again as     *)
(* they are stored keep their author.                                       *)
SettingsDiffs(r) ==
  {WetDiff(w, Keep, None) : w \in Counts}
    \cup {WetDiff(w, n, IF n = 0 THEN None ELSE r) : w \in Counts \cup {Keep}, n \in 0 .. MaxWet}
    \cup {WetDiff(Keep, project.rows, project.rowsBy), PreferenceDiff("add", None)}
    \cup {PreferenceDiff(o, p) : o \in {"update", "remove"}, p \in Requests}

Patch(r) ==
  /\ CanEnter(r, "patch")
  /\ Enters(r, "patch", None)
  /\ \E d \in SettingsDiffs(r) : ReadForUpdate(r, d, "refused")
  /\ UNCHANGED crashes

ActivateVersion(r) ==
  /\ CanEnter(r, "activate")
  /\ Enters(r, "activate", None)
  /\ \E v \in 1 .. Len(versions) + 1 : ReadForRollback(r, v)   \* the last one is unknown
  /\ UNCHANGED crashes

-----------------------------------------------------------------------------
(* Chat (app/chat/router.py, proposals.py, proposal_builder.py).            *)

(* Everything build_proposal can offer for project p with n versions stored *)
(* (a value the project already has is not offered).                        *)
Offers(r, p, n) ==
  {WetDiff(w, Keep, None) : w \in Counts \ {p.wet}}
    \cup {WetDiff(Keep, IF p.rows > w THEN p.rows ELSE w, r) : w \in {p.wet} \cap 1 .. MaxWet}
    \cup {PreferenceDiff("add", None)}
    \cup {PreferenceDiff(o, q) : o \in {"update", "remove"}, q \in DOMAIN p.prefs}
    \cup {ToVersion(v) : v \in 1 .. n \ {p.active}}

(* A message the assistant answers without a proposal ends in one append.   *)
SendMessage(r) ==
  /\ CanEnter(r, "chat")
  /\ Enters(r, "chat", None)
  /\ \/ \E d \in Offers(r, project, Len(versions)) : Holds(r, "offer", d, NewProject)
     \/ Ends(r, "reply")
     \/ Ends(r, "refused")            \* 502: the language model is unavailable
  /\ UNCHANGED <<stored, crashes>>

SaveProposal(r) ==
  /\ pc[r] = "offer"
  /\ proposal' = [id |-> r, change |-> change[r], consumed |-> FALSE]
  /\ Holds(r, "reply", change[r], NewProject)
  /\ UNCHANGED <<project, versions, conversation, call, crashes>>

Reply(r) ==
  /\ pc[r] = "reply"
  /\ conversation' = conversation \cup {[by |-> r, offer |-> change[r] # NoChange]}
  /\ Ends(r, "done")
  /\ UNCHANGED <<project, versions, proposal, call, crashes>>

(* Mutant: whether the proposal was consumed is not looked at.              *)
PendingById(p) == proposal.id = p

Pending(p) == proposal.id = p /\ ~proposal.consumed

Offered == {m.by : m \in {n \in conversation : n.offer}}

(* get_pending_for_project, or 409 PROPOSAL_STALE.                          *)
LookUp(r, p, next) ==
  /\ IF Pending(p) THEN Holds(r, next, proposal.change, NewProject) ELSE Ends(r, "refused")
  /\ UNCHANGED stored

(* Mutant: executed first, consumed never.                                  *)
ConfirmUnconsumed(r) ==
  /\ CanEnter(r, "confirm")
  /\ \E p \in Offered : Enters(r, "confirm", p) /\ LookUp(r, p, "apply")
  /\ UNCHANGED crashes

ConfirmProposal(r) ==
  /\ CanEnter(r, "confirm")
  /\ \E p \in Offered : Enters(r, "confirm", p) /\ LookUp(r, p, "consume")
  /\ UNCHANGED crashes

CancelProposal(r) ==
  /\ CanEnter(r, "cancel")
  /\ \E p \in Offered : Enters(r, "cancel", p) /\ LookUp(r, p, "cancel")
  /\ UNCHANGED crashes

Consumed(q, p) == IF q.id = p THEN [q EXCEPT !.consumed = TRUE] ELSE q

MarkConsumed(r) ==
  /\ pc[r] \in {"consume", "cancel"}
  /\ proposal' = Consumed(proposal, call[r].proposal)
  /\ IF pc[r] = "cancel" THEN Ends(r, "reply") ELSE Holds(r, "apply", change[r], NewProject)
  /\ UNCHANGED <<project, versions, conversation, call, crashes>>

Execute(r) ==
  /\ pc[r] = "apply"
  /\ IF change[r].version # 0
       THEN ReadForRollback(r, change[r].version)
       ELSE ReadForUpdate(r, change[r], "failed")
  /\ UNCHANGED <<call, crashes>>

-----------------------------------------------------------------------------
(* POST /design and POST /design/spatial-edit: the design fields only.      *)

GenerateDesign(r) ==
  /\ CanEnter(r, "design")
  /\ Enters(r, "design", None)
  /\ \/ project.parsed /\ Holds(r, "draw", NoChange, NewProject)
     \/ Ends(r, "refused")            \* not parsed, or no design for it
  /\ UNCHANGED <<stored, crashes>>

EditDesign(r) ==
  /\ CanEnter(r, "edit")
  /\ Enters(r, "edit", None)
  /\ \/ project.design # None /\ Holds(r, "draw", NoChange, NewProject)
     \/ Ends(r, "refused")            \* no design, or the move is rejected
  /\ UNCHANGED <<stored, crashes>>

SetDesignModel(r) ==
  /\ pc[r] = "draw"
  /\ project' = [project EXCEPT !.design = r]
  /\ Ends(r, "done")
  /\ UNCHANGED <<versions, proposal, conversation, call, crashes>>

-----------------------------------------------------------------------------
(* POST /requirements (the parser) and PUT /review (the person).            *)

SetParsed(p, w, n, by, questions, unsupported) ==
  [p EXCEPT !.parsed = TRUE, !.wet = w, !.rows = n, !.rowsBy = by,
            !.questions = questions, !.unsupported = unsupported]

(* reconcile_wet_rooms: what is stored for a brief that counts w wet rooms  *)
(* (`requested` when it says so, else inferred) and describes n of them.    *)
Reconciled(w, requested, n) ==
  LET count == IF n > 0 /\ (w = Unstated \/ (~requested /\ n > w)) THEN n ELSE w
  IN  [wet |-> count,
       rows |-> IF count # Unstated /\ n > count THEN count ELSE n,
       ambiguous |-> count # Unstated /\ n > count]

ParseRequirements(r) ==
  /\ CanEnter(r, "parse")
  /\ Enters(r, "parse", None)
  /\ \/ Holds(r, "parse", NoChange, NewProject)
     \/ Ends(r, "failed")             \* the language model is unavailable: 500
  /\ UNCHANGED <<stored, crashes>>

SaveParsed(r) ==
  /\ pc[r] = "parse"
  /\ \E w \in Counts, n \in 0 .. MaxWet, requested, questions, other \in BOOLEAN :
       LET wet == Reconciled(w, requested, n)
       IN  project' = SetParsed(project, wet.wet, wet.rows, IF wet.rows = 0 THEN None ELSE r,
                                questions, other \/ wet.ambiguous)
  /\ Ends(r, "done")
  /\ UNCHANGED <<versions, proposal, conversation, call, crashes>>

(* Mutant: a smaller count leaves the stored rows.                          *)
ReviewedCountOnly(p, d) == [d EXCEPT !.wet = Updated(d.wet, p.wet)]

(* What a review body d makes of the wet rooms of p: the count the person   *)
(* gives or the one that was read; the rows the person gives, or the stored *)
(* ones up to a smaller count, or (Keep) whatever is stored when it saves.  *)
Reviewed(p, d) ==
  LET count == Updated(d.wet, p.wet)
  IN  IF d.rows = Keep /\ count # Unstated /\ p.rows > count
        THEN [d EXCEPT !.wet = count, !.rows = count,
                       !.rowsBy = IF count = 0 THEN None ELSE p.rowsBy]
        ELSE [d EXCEPT !.wet = count]

RowsFit(d) == d.rows # Keep /\ d.wet # Unstated => d.rows <= d.wet

(* Rows the person supplies answer the questions; a smaller count does not. *)
Review(r) ==
  /\ CanEnter(r, "review")
  /\ Enters(r, "review", None)
  /\ \E w \in {Keep} \cup 0 .. MaxWet, n \in {Keep} \cup 0 .. MaxWet :
       LET body    == WetDiff(w, n, IF n > 0 THEN r ELSE None)
           outcome == Reviewed(project, body)
       IN  IF project.parsed /\ RowsFit(outcome)
             THEN Holds(r, IF n = Keep THEN "review" ELSE "answer", outcome, NewProject)
             ELSE Ends(r, "refused")
  /\ UNCHANGED <<stored, crashes>>

(* set_parsed_requirements is called without unsupported_requests, which    *)
(* stores the default: none.                                                *)
SaveReview(r) ==
  LET d == change[r]
  IN  /\ pc[r] \in {"review", "answer"}
      /\ project' = SetParsed(project, d.wet,
                              Updated(d.rows, project.rows),
                              IF d.rows = Keep THEN project.rowsBy ELSE d.rowsBy,
                              project.questions /\ pc[r] = "review", FALSE)
      /\ Ends(r, "done")
      /\ UNCHANGED <<versions, proposal, conversation, call, crashes>>

-----------------------------------------------------------------------------
(* The process dies: every handler is gone, the files stay.                 *)
Crash ==
  /\ crashes < MaxCrashes
  /\ \E r \in Requests : pc[r] \in Running
  /\ crashes' = crashes + 1
  /\ pc' = [r \in Requests |-> IF pc[r] \in Running THEN "lost" ELSE pc[r]]
  /\ change' = [r \in Requests |-> NoChange]
  /\ base' = [r \in Requests |-> NewProject]
  /\ UNCHANGED <<stored, call>>

(* Every request of the instance was served.                                *)
Served == (\A r \in Requests : pc[r] \in Ended) /\ UNCHANGED vars

Update(r)    == Persist(r) \/ StoreVersion(r) \/ GenerationFails(r) \/ Mirror(r) \/ Activate(r)
Settings(r)  == Patch(r) \/ ActivateVersion(r)
Chat(r)      == SendMessage(r) \/ SaveProposal(r) \/ Reply(r) \/ ConfirmProposal(r)
                \/ CancelProposal(r) \/ MarkConsumed(r) \/ Execute(r)
Design(r)    == GenerateDesign(r) \/ EditDesign(r) \/ SetDesignModel(r)
Requirements(r) == ParseRequirements(r) \/ SaveParsed(r) \/ Review(r) \/ SaveReview(r)

Handle(r) == Update(r) \/ Settings(r) \/ Chat(r) \/ Design(r) \/ Requirements(r)

Next == (\E r \in Requests : Handle(r)) \/ Crash \/ Served

Spec == Init /\ [][Next]_vars

(* A handler that runs gets to its end: the thread pool starves nobody.     *)
FairSpec == Spec /\ \A r \in Requests : WF_vars(Handle(r))

-----------------------------------------------------------------------------
(* Properties.                                                              *)

DesignOf(v) == IF v = 0 THEN None ELSE versions[v].design

(* apply_project_update stores the version before it points the project at  *)
(* it: whatever handlers interleave and wherever the process dies, the      *)
(* active version can be read back, and every version supersedes an older   *)
(* one (so the history has no cycle).                                       *)
HistoryIsSound ==
  /\ project.active \in 0 .. Len(versions)
  /\ \A i \in 1 .. Len(versions) : versions[i].supersedes < i

(* The flat design fields and the active pointer are written together: the  *)
(* design shown is the active version's, or one that POST /design or a      *)
(* spatial edit put there directly.  POST /design is an exception in spite  *)
(* of what the model's comment says, see EveryGenerationIsAVersion.         *)
Mirrors(p) ==
  \/ p.design = DesignOf(p.active)
  \/ p.design # None /\ call[p.design].op \in {"design", "edit"}

MirrorsUnlessDirect == Mirrors(project)

(* "Every NEW design generation from now on both appends a DesignVersion    *)
(* AND mirrors it into the flat fields" (app/projects/models.py): a design  *)
(* shown that a generation made, not a spatial edit, is that of a version.  *)
EveryGenerationIsAVersion ==
  project.design # None /\ call[project.design].op # "edit" =>
    \E i \in 1 .. Len(versions) : versions[i].design = project.design

(* What request r left behind: an entry of the audit trail or a version.    *)
Traces(r) ==
  \/ \E i \in 1 .. Len(project.log) : project.log[i].by = r
  \/ \E i \in 1 .. Len(versions) : versions[i].design = r

Confirms(r, p) == call[r].op = "confirm" /\ call[r].proposal = p

(* The proposal is consumed before it is executed: a change that a          *)
(* confirmation made is never left with its proposal still pending, so      *)
(* after a crash nobody can confirm it again.                               *)
ConsumedBeforeApplied ==
  \A r \in Requests, p \in Requests : Confirms(r, p) /\ Traces(r) => ~Pending(p)

(* The proposal a message offers can be confirmed or cancelled at most once *)
(* ("can't apply it twice", app/chat/router.py).                            *)
AppliedOnce ==
  \A r, s \in Requests, p \in Requests :
    r # s /\ Confirms(r, p) /\ Confirms(s, p) => ~(Traces(r) /\ Traces(s))

(* Where the audit trail mentions preference p.                             *)
About(log, p) ==
  {i \in 1 .. Len(log) : log[i].field \in {"preferences.add", "preferences.update", "preferences.remove"}
                           /\ log[i].value = p}

(* The last entry about p is r's, and does not remove it.                   *)
LeftBy(log, p, r) ==
  \E i \in About(log, p) : /\ \A j \in About(log, p) : j <= i
                           /\ log[i].field # "preferences.remove" /\ log[i].by = r

(* Preferences are written through update.py only, and the audit trail is   *)
(* stored with them: replaying the trail gives the preferences, also when   *)
(* concurrent writers overwrite each other.                                 *)
Explained(q) ==
  \A p, r \in Requests : (p \in DOMAIN q.prefs /\ q.prefs[p] = r) <=> LeftBy(q.log, p, r)

LogExplainsPreferences == Explained(project)

(* A request that was answered with a refusal changed nothing: no entry, no *)
(* version, no preference, no design, no proposal is its.                   *)
RefusedLeavesNoTrace ==
  \A r \in Requests : pc[r] = "refused" =>
    /\ ~Traces(r)
    /\ project.design # r /\ project.rowsBy # r /\ proposal.id # r

(* The parser and the review keep the rows within the count; only a change  *)
(* of the count through update.py can leave more rows than wet rooms.       *)
MoreRowsThanCount == project.wet # Unstated /\ project.rows > project.wet

RowsExceedOnlyByCountEdit ==
  MoreRowsThanCount =>
    \E i \in 1 .. Len(project.log) :
      project.log[i].field = "wet_rooms" /\ project.log[i].value = project.wet

(* "Never longer than `wet_rooms`" (app/projects/models.py): no list of     *)
(* wet-room kinds is longer than the stated number of wet rooms.            *)
RowsWithinCount == ~MoreRowsThanCount

(* "Kept on the project so the REVIEW screen can show them back instead of  *)
(* the system dropping them silently" (app/projects/models.py): requests    *)
(* that could not be honoured stand until the brief is parsed again.        *)
UnsupportedStandsUntilParsed ==
  [][project.unsupported /\ ~project'.unsupported => \E r \in Requests : SaveParsed(r)]_vars

(* Served alone, every stored version answers a change that the audit trail *)
(* of the project still shows ("append-only", app/projects/models.py).             *)
VersionsAreExplained ==
  \A i \in 1 .. Len(versions) :
    \E j \in 1 .. Len(project.log) : project.log[j].by = versions[i].design

(* A client served alone sees an append-only history: no step of a handler  *)
(* drops an audit entry or a version, moves the shown design without being  *)
(* asked to, or stores a version that skips the active one.                 *)
History == INSTANCE ProjectHistory WITH
  Designs      <- Requests,
  requirements <- [wet |-> project.wet, rows |-> project.rows, rowsBy |-> project.rowsBy,
                   questions |-> project.questions, unsupported |-> project.unsupported,
                   parsed |-> project.parsed, prefs |-> project.prefs],
  log          <- project.log,
  active       <- project.active,
  design       <- project.design

KeepsHistory == History!Spec
=============================================================================
