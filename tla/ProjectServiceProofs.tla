------------------------ MODULE ProjectServiceProofs ------------------------
(***************************************************************************)
(* What holds of ProjectService for any number of requests, any number of  *)
(* handlers at once, any bound on the wet rooms and any number of crashes: *)
(* the types, that the design history is sound, that the design shown is   *)
(* the one the active version names, that the audit trail explains the     *)
(* preferences, that a refused request left nothing behind, and that a     *)
(* confirmed change is never there while its proposal is still pending.    *)
(***************************************************************************)
EXTENDS ProjectService, TLAPS

States == {"idle"} \cup Running \cup Ended

Growing == /\ Len(versions) <= Len(versions')
           /\ \A i \in 1 .. Len(versions) : versions'[i] = versions[i]

(* What the handler of r may rely on at its next repository call.           *)
Carries(r) ==
  /\ pc[r] = "idle" => call[r].op = "none"
  /\ pc[r] = "draw" => call[r].op \in {"design", "edit"}
  /\ pc[r] = "persist" => ValidDiff(base[r], change[r])
  /\ pc[r] \in {"review", "answer"} => change[r].wet # Keep
  /\ pc[r] \in {"mirror", "activate"} => change[r].version \in 1 .. Len(versions)
  /\ pc[r] = "mirror" => versions[change[r].version].design = r
  /\ base[r].active \in 0 .. Len(versions)

HInv == TypeOK /\ HistoryIsSound /\ \A r \in Requests : Carries(r)

LocalTypeOK ==
  /\ pc \in [Requests -> States]
  /\ call \in [Requests -> [op : Operations \cup {"none"}, proposal : Authors]]
  /\ change \in [Requests -> Changes]
  /\ base \in [Requests -> Projects]

-----------------------------------------------------------------------------
(* Data.                                                                    *)
LEMMA CountsArePlain ==
  /\ Unstated \in Counts /\ Keep \notin Counts /\ 0 \in 0 .. MaxWet
  /\ 0 .. MaxWet \subseteq Counts /\ \A n \in 0 .. MaxWet : n # Keep /\ n # Unstated
BY MaxWetAssumption DEF Counts, Unstated, Keep

LEMMA PreferencesType ==
  ASSUME NEW f
  PROVE  f \in Preferences <=> DOMAIN f \subseteq Requests /\ f \in [DOMAIN f -> Requests]
BY DEF Preferences

LEMMA WithPreferenceType ==
  ASSUME NEW f \in Preferences, NEW p \in Requests, NEW r \in Requests
  PROVE  WithPreference(f, p, r) \in Preferences
<1> DEFINE g == WithPreference(f, p, r)
<1>1. DOMAIN f \subseteq Requests /\ f \in [DOMAIN f -> Requests]
  BY PreferencesType
<1>2. DOMAIN g = DOMAIN f \cup {p}
  BY DEF WithPreference
<1>3. g \in [DOMAIN f \cup {p} -> Requests]
  BY <1>1 DEF WithPreference
<1> QED
  BY <1>1, <1>2, <1>3, PreferencesType

LEMMA WithoutPreferenceType ==
  ASSUME NEW f \in Preferences, NEW p
  PROVE  WithoutPreference(f, p) \in Preferences
<1> DEFINE g == WithoutPreference(f, p)
<1>1. DOMAIN f \subseteq Requests /\ f \in [DOMAIN f -> Requests]
  BY PreferencesType
<1>2. DOMAIN g = DOMAIN f \ {p}
  BY DEF WithoutPreference
<1>3. g \in [DOMAIN f \ {p} -> Requests]
  BY <1>1 DEF WithoutPreference
<1> QED
  BY <1>1, <1>2, <1>3, PreferencesType

LEMMA NewTypes == NoChange \in Changes /\ NewProject \in Projects /\ NoProposal \in Proposals
<1>1. NoPreferences \in Preferences
  BY PreferencesType DEF NoPreferences
<1>2. <<>> \in Seq(LogEntries)
  OBVIOUS
<1>3. NoChange \in Changes
  BY DEF NoChange, Changes, Authors
<1> QED
  BY <1>1, <1>2, <1>3, CountsArePlain
  DEF NewProject, Projects, NoProposal, Proposals, Authors

LEMMA WhenType ==
  ASSUME NEW c \in BOOLEAN, NEW e \in LogEntries
  PROVE  When(c, e) \in Seq(LogEntries)
BY DEF When

LEMMA LogType ==
  ASSUME NEW p \in Projects, NEW d \in Changes, NEW r \in Requests
  PROVE  /\ RequirementEntries(p, d, r) \in Seq(LogEntries)
         /\ PreferenceEntries(d, r) \in Seq(LogEntries)
<1>1. \A f \in LogFields, v \in Int \cup Authors, c \in BOOLEAN :
        When(c, Entry(f, v, r)) \in Seq(LogEntries)
  BY WhenType DEF Entry, LogEntries
<1>2. d.wet \in Int \cup Authors /\ d.rows \in Int \cup Authors /\ d.pref \in Int \cup Authors
      /\ 0 \in Int \cup Authors /\ r \in Int \cup Authors
  BY MaxWetAssumption DEF Changes, Counts, Keep, Unstated, Authors
<1>3. /\ ChangesWet(p, d) \in BOOLEAN /\ ChangesRows(p, d) \in BOOLEAN
      /\ AnswersQuestion(p, d) \in BOOLEAN
  BY DEF ChangesWet, ChangesRows, AnswersQuestion
<1>4. RequirementEntries(p, d, r) \in Seq(LogEntries)
  <2>1. /\ When(ChangesWet(p, d), Entry("wet_rooms", d.wet, r)) \in Seq(LogEntries)
        /\ When(ChangesRows(p, d), Entry("wet_room_kinds", d.rows, r)) \in Seq(LogEntries)
        /\ When(AnswersQuestion(p, d), Entry("wet_room_questions", 0, r)) \in Seq(LogEntries)
    BY <1>1, <1>2, <1>3 DEF LogFields
  <2> QED
    BY <2>1 DEF RequirementEntries
<1>5. PreferenceEntries(d, r) \in Seq(LogEntries)
  <2>1. /\ When(d.prefOp = "add", Entry("preferences.add", r, r)) \in Seq(LogEntries)
        /\ When(d.prefOp = "update", Entry("preferences.update", d.pref, r)) \in Seq(LogEntries)
        /\ When(d.prefOp = "remove", Entry("preferences.remove", d.pref, r)) \in Seq(LogEntries)
    BY <1>1, <1>2 DEF LogFields
  <2> QED
    BY <2>1 DEF PreferenceEntries
<1> QED
  BY <1>4, <1>5

LEMMA ApplyDiffType ==
  ASSUME NEW p \in Projects, NEW d \in Changes, NEW r \in Requests, ValidDiff(p, d)
  PROVE  ApplyDiff(p, d, r) \in Projects /\ ApplyDiff(p, d, r).active = p.active
         /\ ApplyDiff(p, d, r).design = p.design
<1>1. Updated(d.wet, p.wet) \in Counts /\ Updated(d.rows, p.rows) \in 0 .. MaxWet
  BY DEF Updated, Changes, Projects
<1>2. p.prefs \in Preferences /\ DOMAIN p.prefs \subseteq Requests
  BY PreferencesType DEF Projects
<1>3. d.prefOp = "update" => d.pref \in Requests
  BY <1>2 DEF ValidDiff
<1>4. (CASE d.prefOp = "add"    -> WithPreference(p.prefs, r, r)
         [] d.prefOp = "update" -> WithPreference(p.prefs, d.pref, r)
         [] d.prefOp = "remove" -> WithoutPreference(p.prefs, d.pref)
         [] OTHER               -> p.prefs) \in Preferences
  <2>1. WithPreference(p.prefs, r, r) \in Preferences
    BY <1>2, WithPreferenceType
  <2>2. d.prefOp = "update" => WithPreference(p.prefs, d.pref, r) \in Preferences
    BY <1>2, <1>3, WithPreferenceType
  <2>3. WithoutPreference(p.prefs, d.pref) \in Preferences
    BY <1>2, WithoutPreferenceType
  <2> QED
    BY <1>2, <2>1, <2>2, <2>3
<1>5. p.log \o RequirementEntries(p, d, r) \o PreferenceEntries(d, r) \in Seq(LogEntries)
  BY LogType DEF Projects
<1> QED
  BY <1>1, <1>4, <1>5 DEF ApplyDiff, Projects, Changes

LEMMA ShowType ==
  ASSUME NEW p \in Projects, NEW v \in Nat, NEW d \in Authors
  PROVE  Show(p, v, d) \in Projects /\ Show(p, v, d).active = v /\ Show(p, v, d).design = d
BY DEF Show, Projects

LEMMA RollBackType ==
  ASSUME NEW p \in Projects, NEW v \in Nat, NEW d \in Authors, NEW r \in Requests
  PROVE  /\ RollBack(p, v, d, r) \in Projects
         /\ RollBack(p, v, d, r).active = v /\ RollBack(p, v, d, r).design = d
<1> DEFINE e == Entry("active_design_version_id", v, r)
           q == [p EXCEPT !.log = Append(@, e)]
<1>1. e \in LogEntries
  BY DEF Entry, LogEntries, LogFields
<1>2. q \in Projects
  BY <1>1 DEF Projects
<1> HIDE DEF q
<1>3. Show(q, v, d) \in Projects /\ Show(q, v, d).active = v /\ Show(q, v, d).design = d
  BY <1>2, ShowType
<1> QED
  BY <1>3 DEF RollBack, q

LEMMA ReconciledType ==
  ASSUME NEW w \in Counts, NEW requested \in BOOLEAN, NEW n \in 0 .. MaxWet
  PROVE  /\ Reconciled(w, requested, n).wet \in Counts
         /\ Reconciled(w, requested, n).rows \in 0 .. MaxWet
         /\ Reconciled(w, requested, n).ambiguous \in BOOLEAN
<1> DEFINE count == IF n > 0 /\ (w = Unstated \/ (~requested /\ n > w)) THEN n ELSE w
<1>1. count \in Counts
  BY CountsArePlain
<1>2. count # Unstated /\ n > count => count \in 0 .. MaxWet
  BY <1>1 DEF Counts
<1> HIDE DEF count
<1>3. (IF count # Unstated /\ n > count THEN count ELSE n) \in 0 .. MaxWet
  BY <1>2
<1>4. Reconciled(w, requested, n) =
        [wet |-> count, rows |-> IF count # Unstated /\ n > count THEN count ELSE n,
         ambiguous |-> count # Unstated /\ n > count]
  BY DEF Reconciled, count
<1> QED
  BY <1>1, <1>3, <1>4

LEMMA ReviewedType ==
  ASSUME NEW p \in Projects, NEW d \in Changes
  PROVE  Reviewed(p, d) \in Changes /\ Reviewed(p, d).wet # Keep
<1>1. Updated(d.wet, p.wet) \in Counts
  BY DEF Updated, Changes, Projects
<1>2. Updated(d.wet, p.wet) # Keep
  BY <1>1, CountsArePlain
<1>3. p.rows > Updated(d.wet, p.wet) /\ Updated(d.wet, p.wet) # Unstated
        => Updated(d.wet, p.wet) \in 0 .. MaxWet
  BY <1>1 DEF Counts
<1>4. None \in Authors /\ p.rowsBy \in Authors
  BY DEF Authors, Projects
<1> QED
  BY <1>1, <1>2, <1>3, <1>4 DEF Reviewed, Changes

LEMMA DiffTypes ==
  /\ \A w \in Counts \cup {Keep}, n \in {Keep} \cup 0 .. MaxWet, by \in Authors :
       WetDiff(w, n, by) \in Changes
  /\ \A o \in {"add", "update", "remove"}, p \in Authors : PreferenceDiff(o, p) \in Changes
  /\ \A v \in Nat : ToVersion(v) \in Changes /\ ToVersion(v).version = v
BY NewTypes DEF WetDiff, PreferenceDiff, ToVersion, Changes

LEMMA SettingsDiffsType ==
  ASSUME TypeOK, NEW r \in Requests, NEW d \in SettingsDiffs(r)
  PROVE  d \in Changes
<1>1. project.rows \in 0 .. MaxWet /\ project.rowsBy \in Authors
  BY DEF TypeOK, Projects
<1>2. None \in Authors /\ Requests \subseteq Authors
  BY DEF Authors
<1>3. CASE \E w \in Counts : d = WetDiff(w, Keep, None)
  BY <1>2, <1>3, DiffTypes
<1>4. CASE \E w \in Counts \cup {Keep}, n \in 0 .. MaxWet :
             d = WetDiff(w, n, IF n = 0 THEN None ELSE r)
  BY <1>2, <1>4, DiffTypes
<1>5. CASE d = WetDiff(Keep, project.rows, project.rowsBy)
  BY <1>1, <1>5, DiffTypes
<1>6. CASE d = PreferenceDiff("add", None)
  BY <1>2, <1>6, DiffTypes
<1>7. CASE \E o \in {"update", "remove"}, p \in Requests : d = PreferenceDiff(o, p)
  BY <1>2, <1>7, DiffTypes
<1> QED
  BY <1>3, <1>4, <1>5, <1>6, <1>7 DEF SettingsDiffs

LEMMA OffersType ==
  ASSUME NEW p \in Projects, NEW n \in Nat, NEW r \in Requests, NEW d \in Offers(r, p, n)
  PROVE  d \in Changes
<1>1. DOMAIN p.prefs \subseteq Requests /\ p.rows \in 0 .. MaxWet
  BY PreferencesType DEF Projects
<1>2. None \in Authors /\ Requests \subseteq Authors /\ 1 .. MaxWet \subseteq 0 .. MaxWet
  BY MaxWetAssumption DEF Authors
<1>3. \A w \in 1 .. MaxWet : (IF p.rows > w THEN p.rows ELSE w) \in 0 .. MaxWet
  BY <1>1, <1>2
<1>4. 1 .. n \subseteq Nat
  OBVIOUS
<1>5. CASE \E w \in Counts : d = WetDiff(w, Keep, None)
  BY <1>2, <1>5, DiffTypes
<1>6. CASE \E w \in 1 .. MaxWet : d = WetDiff(Keep, IF p.rows > w THEN p.rows ELSE w, r)
  BY <1>2, <1>3, <1>6, DiffTypes
<1>7. CASE d = PreferenceDiff("add", None)
  BY <1>2, <1>7, DiffTypes
<1>8. CASE \E o \in {"update", "remove"}, q \in DOMAIN p.prefs : d = PreferenceDiff(o, q)
  BY <1>1, <1>2, <1>8, DiffTypes
<1>9. CASE \E v \in 1 .. n : d = ToVersion(v)
  BY <1>4, <1>9, DiffTypes
<1> QED
  BY <1>5, <1>6, <1>7, <1>8, <1>9 DEF Offers

-----------------------------------------------------------------------------
(* The step of one handler: its own next call is prepared, the other        *)
(* handlers rely on nothing that it took away, and the stores are sound.    *)
LEMMA HandlerStep ==
  ASSUME HInv, NEW r \in Requests, NEW at \in Running \cup Ended, NEW d \in Changes,
         NEW p \in Projects, Holds(r, at, d, p), Growing, UNCHANGED crashes,
         call' \in [Requests -> [op : Operations \cup {"none"}, proposal : Authors]],
         \A s \in Requests \ {r} : call'[s] = call[s],
         at = "draw" => call'[r].op \in {"design", "edit"},
         at = "persist" => ValidDiff(p, d),
         at \in {"review", "answer"} => d.wet # Keep,
         at \in {"mirror", "activate"} => d.version \in 1 .. Len(versions'),
         at = "mirror" => versions'[d.version].design = r,
         p.active \in 0 .. Len(versions'),
         project' \in Projects, versions' \in Seq(Versions), proposal' \in Proposals,
         conversation' \subseteq Messages, HistoryIsSound'
  PROVE  HInv'
<1>1. LocalTypeOK'
  BY DEF HInv, TypeOK, Holds, LocalTypeOK, States
<1>2. /\ pc'[r] = at /\ change'[r] = d /\ base'[r] = p
      /\ \A s \in Requests \ {r} : pc'[s] = pc[s] /\ change'[s] = change[s] /\ base'[s] = base[s]
  BY DEF HInv, TypeOK, Holds
<1>3. at # "idle"
  BY DEF Running, Ended
<1>4. Carries(r)'
  BY <1>2, <1>3 DEF Carries, ValidDiff
<1>5. ASSUME NEW s \in Requests \ {r} PROVE Carries(s)'
  <2>1. Carries(s)
    BY DEF HInv
  <2>2. Len(versions) \in Nat /\ Len(versions') \in Nat
    BY DEF HInv, TypeOK
  <2>3. change[s].version \in 1 .. Len(versions) =>
          /\ change[s].version \in 1 .. Len(versions')
          /\ versions'[change[s].version] = versions[change[s].version]
    BY <2>2 DEF Growing
  <2>4. base[s].active \in 0 .. Len(versions')
    BY <2>1, <2>2 DEF Carries, Growing
  <2> QED
    BY <1>2, <2>1, <2>3, <2>4 DEF Carries, ValidDiff
<1>6. TypeOK'
  BY <1>1, MaxCrashesAssumption DEF LocalTypeOK, States, HInv, TypeOK
<1> QED
  BY <1>4, <1>5, <1>6 DEF HInv

(* A handler that touches no design version and leaves the project's        *)
(* pointer alone: what remains to be shown of its step.                     *)
LEMMA PlainStep ==
  ASSUME HInv, NEW r \in Requests, NEW at \in (Running \cup Ended) \ {"mirror", "activate"},
         NEW d \in Changes, NEW p \in Projects, Holds(r, at, d, p),
         UNCHANGED <<versions, crashes>>,
         call' \in [Requests -> [op : Operations \cup {"none"}, proposal : Authors]],
         \A s \in Requests \ {r} : call'[s] = call[s],
         at = "draw" => call'[r].op \in {"design", "edit"},
         at = "persist" => ValidDiff(p, d),
         at \in {"review", "answer"} => d.wet # Keep,
         p.active \in 0 .. Len(versions),
         project' \in Projects, project'.active = project.active,
         proposal' \in Proposals, conversation' \subseteq Messages
  PROVE  HInv'
<1>1. Growing
  BY DEF Growing, HInv, TypeOK
<1>2. HistoryIsSound'
  BY DEF HistoryIsSound, HInv
<1>3. versions' \in Seq(Versions)
  BY DEF HInv, TypeOK
<1> HIDE DEF HInv
<1> QED
  BY <1>1, <1>2, <1>3, HandlerStep

LEMMA EmptyHands ==
  /\ NoChange \in Changes /\ NewProject \in Projects
  /\ HInv => NewProject.active \in 0 .. Len(versions)
BY NewTypes DEF NewProject, HInv, TypeOK

LEMMA EnteringType ==
  ASSUME HInv, NEW r \in Requests, NEW op \in Operations, NEW p \in Authors, Enters(r, op, p)
  PROVE  /\ call' \in [Requests -> [op : Operations \cup {"none"}, proposal : Authors]]
         /\ \A s \in Requests \ {r} : call'[s] = call[s]
         /\ call'[r].op = op
BY DEF HInv, TypeOK, Enters

(* A handler that ends, or goes on to its reply, holding nothing.           *)
LEMMA EndingStep ==
  ASSUME HInv, NEW r \in Requests, NEW how \in Ended \cup {"reply", "draw", "parse"},
         Ends(r, how), UNCHANGED <<versions, crashes>>,
         call' \in [Requests -> [op : Operations \cup {"none"}, proposal : Authors]],
         \A s \in Requests \ {r} : call'[s] = call[s],
         how = "draw" => call'[r].op \in {"design", "edit"},
         project' \in Projects, project'.active = project.active,
         proposal' \in Proposals, conversation' \subseteq Messages
  PROVE  HInv'
<1>1. how \in (Running \cup Ended) \ {"mirror", "activate"} /\ how # "persist"
      /\ how \notin {"review", "answer"}
  BY DEF Running, Ended
<1>2. Holds(r, how, NoChange, NewProject)
  BY DEF Ends
<1>3. NewProject.active \in 0 .. Len(versions)
  BY EmptyHands
<1> HIDE DEF HInv
<1> QED
  BY <1>1, <1>2, <1>3, EmptyHands, PlainStep

(* What an unchanged store means to the lemmas above.                       *)
LEMMA StoredTypes ==
  ASSUME HInv
  PROVE  /\ project \in Projects /\ proposal \in Proposals /\ conversation \subseteq Messages
         /\ versions \in Seq(Versions) /\ project.active \in 0 .. Len(versions)
         /\ call \in [Requests -> [op : Operations \cup {"none"}, proposal : Authors]]
         /\ \A r \in Requests : change[r] \in Changes /\ base[r] \in Projects
BY DEF HInv, TypeOK, HistoryIsSound

LEMMA ReadForUpdateStep ==
  ASSUME HInv, NEW r \in Requests, NEW d \in Changes, NEW rejected \in {"refused", "failed"},
         ReadForUpdate(r, d, rejected), UNCHANGED crashes,
         call' \in [Requests -> [op : Operations \cup {"none"}, proposal : Authors]],
         \A s \in Requests \ {r} : call'[s] = call[s]
  PROVE  HInv'
<1>1. UNCHANGED <<project, versions, proposal, conversation>>
  BY DEF ReadForUpdate, stored
<1>2. CASE ValidDiff(project, d)
  <2>1. Holds(r, "persist", d, project)
    BY <1>2 DEF ReadForUpdate
  <2>2. "persist" \in (Running \cup Ended) \ {"mirror", "activate"}
    BY DEF Running
  <2> QED
    BY <1>1, <1>2, <2>1, <2>2, StoredTypes, PlainStep
<1>3. CASE ~ValidDiff(project, d)
  <2>1. Ends(r, rejected)
    BY <1>3 DEF ReadForUpdate
  <2>2. rejected \in Ended \cup {"reply", "draw", "parse"} /\ rejected # "draw"
    BY DEF Ended
  <2> QED
    BY <1>1, <2>1, <2>2, StoredTypes, EndingStep
<1> QED
  BY <1>2, <1>3

LEMMA ReadForRollbackStep ==
  ASSUME HInv, NEW r \in Requests, NEW v, ReadForRollback(r, v), UNCHANGED crashes,
         call' \in [Requests -> [op : Operations \cup {"none"}, proposal : Authors]],
         \A s \in Requests \ {r} : call'[s] = call[s]
  PROVE  HInv'
<1>1. UNCHANGED <<project, versions, proposal, conversation>>
  BY DEF ReadForRollback, stored
<1>2. CASE v \in 1 .. Len(versions)
  <2>1. Holds(r, "activate", ToVersion(v), project)
    BY <1>2 DEF ReadForRollback
  <2>2. "activate" \in Running \cup Ended
    BY DEF Running
  <2>3. ToVersion(v) \in Changes /\ ToVersion(v).version = v
    BY <1>2, DiffTypes
  <2>4. Growing /\ HistoryIsSound'
    BY <1>1 DEF Growing, HistoryIsSound, HInv, TypeOK
  <2> HIDE DEF HInv
  <2> QED
    BY <1>1, <1>2, <2>1, <2>2, <2>3, <2>4, StoredTypes, HandlerStep
<1>3. CASE v \notin 1 .. Len(versions)
  <2>1. Ends(r, "refused") /\ "refused" \in Ended \cup {"reply", "draw", "parse"}
    BY <1>3 DEF ReadForRollback, Ended
  <2> QED
    BY <1>1, <2>1, StoredTypes, EndingStep
<1> QED
  BY <1>2, <1>3

LEMMA Returning ==
  ASSUME NEW r, Return(r)
  PROVE  \E how \in {"reply", "done"} : Ends(r, how)
BY DEF Return

-----------------------------------------------------------------------------
(* The steps of an update.                                                  *)
LEMMA PersistStep == ASSUME HInv, NEW r \in Requests, Persist(r) PROVE HInv'
<1> DEFINE updated == ApplyDiff(base[r], change[r], r)
<1>1. ValidDiff(base[r], change[r]) /\ base[r].active \in 0 .. Len(versions)
  BY DEF Persist, HInv, Carries
<1>2. updated \in Projects /\ updated.active = base[r].active
  BY <1>1, StoredTypes, ApplyDiffType
<1>3. /\ project' = updated
      /\ UNCHANGED <<versions, proposal, conversation, call, crashes>>
      /\ IF Regenerates(base[r], change[r]) THEN Holds(r, "generate", NoChange, updated)
                                            ELSE Return(r)
  BY DEF Persist
<1> HIDE DEF updated
<1>4. Growing /\ HistoryIsSound'
  BY <1>1, <1>2, <1>3 DEF Growing, HistoryIsSound, HInv, TypeOK
<1>5. \E at \in {"generate", "reply", "done"} :
        Holds(r, at, NoChange, updated) \/ Holds(r, at, NoChange, NewProject)
  BY <1>3, Returning DEF Ends
<1>6. {"generate", "reply", "done"} \subseteq Running \cup Ended
  BY DEF Running, Ended
<1>7. NewProject.active \in 0 .. Len(versions)
  BY EmptyHands
<1>8. PICK at \in {"generate", "reply", "done"}, q \in {updated, NewProject} :
        Holds(r, at, NoChange, q)
  BY <1>5
<1>9. q \in Projects /\ q.active \in 0 .. Len(versions')
  BY <1>1, <1>2, <1>3, <1>7, <1>8, EmptyHands
<1> QED
  BY <1>2, <1>3, <1>4, <1>6, <1>8, <1>9, EmptyHands, StoredTypes, HandlerStep

LEMMA StoreVersionStep == ASSUME HInv, NEW r \in Requests, StoreVersion(r) PROVE HInv'
<1> DEFINE n == Len(versions)
<1>1. /\ versions' = Append(versions, NewVersion(base[r], r))
      /\ Holds(r, "mirror", ToVersion(n + 1), base[r])
      /\ UNCHANGED <<project, proposal, conversation, call, crashes>>
  BY DEF StoreVersion
<1>2. base[r].active \in 0 .. n /\ n \in Nat
  BY DEF HInv, Carries, TypeOK
<1>3. NewVersion(base[r], r) \in Versions /\ NewVersion(base[r], r).supersedes = base[r].active
      /\ NewVersion(base[r], r).design = r
  BY <1>2 DEF NewVersion, Versions
<1>4. /\ versions' \in Seq(Versions) /\ Len(versions') = n + 1
      /\ \A i \in 1 .. n : versions'[i] = versions[i]
      /\ versions'[n + 1] = NewVersion(base[r], r)
  BY <1>1, <1>3, StoredTypes
<1>5. Growing
  BY <1>2, <1>4 DEF Growing
<1>6. HistoryIsSound'
  <2>1. project'.active \in 0 .. Len(versions')
    BY <1>1, <1>2, <1>4, StoredTypes
  <2>2. ASSUME NEW i \in 1 .. n + 1 PROVE versions'[i].supersedes < i
    <3>1. CASE i = n + 1
      BY <1>2, <1>3, <1>4, <3>1
    <3>2. CASE i \in 1 .. n
      BY <1>4, <3>2 DEF HInv, HistoryIsSound
    <3> QED
      BY <1>2, <3>1, <3>2
  <2> QED
    BY <1>4, <2>1, <2>2 DEF HistoryIsSound
<1>7. ToVersion(n + 1) \in Changes /\ ToVersion(n + 1).version = n + 1
  BY <1>2, DiffTypes
<1>8. "mirror" \in Running \cup Ended
  BY DEF Running
<1>9. n + 1 \in 1 .. Len(versions') /\ base[r].active \in 0 .. Len(versions')
  BY <1>2, <1>4
<1> HIDE DEF n, HInv
<1> QED
  BY <1>1, <1>3, <1>4, <1>5, <1>6, <1>7, <1>8, <1>9, StoredTypes, HandlerStep

LEMMA GenerationFailsStep == ASSUME HInv, NEW r \in Requests, GenerationFails(r) PROVE HInv'
<1>1. PICK how \in {"reply", "failed"} : Ends(r, how)
  BY DEF GenerationFails
<1>2. UNCHANGED <<project, versions, proposal, conversation, call, crashes>>
  BY DEF GenerationFails, stored
<1>3. how \in Ended \cup {"reply", "draw", "parse"} /\ how # "draw"
  BY DEF Ended
<1> QED
  BY <1>1, <1>2, <1>3, StoredTypes, EndingStep

(* Mirror and Activate: the project comes to show version v, and the        *)
(* handler returns.                                                         *)
LEMMA ShowingStep ==
  ASSUME HInv, NEW r \in Requests, NEW v \in 1 .. Len(versions),
         project' \in Projects, project'.active = v, Return(r),
         UNCHANGED <<versions, proposal, conversation, call, crashes>>
  PROVE  HInv'
<1>1. PICK how \in {"reply", "done"} : Ends(r, how)
  BY Returning
<1>2. how \in Running \cup Ended /\ how \notin {"draw", "persist", "review", "answer", "mirror",
                                               "activate"}
  BY DEF Running, Ended
<1>3. Holds(r, how, NoChange, NewProject)
  BY <1>1 DEF Ends
<1>4. Growing /\ HistoryIsSound'
  BY DEF Growing, HistoryIsSound, HInv, TypeOK
<1>5. NewProject.active \in 0 .. Len(versions')
  BY EmptyHands
<1> HIDE DEF HInv
<1> QED
  BY <1>2, <1>3, <1>4, <1>5, EmptyHands, StoredTypes, HandlerStep

LEMMA MirrorStep == ASSUME HInv, NEW r \in Requests, Mirror(r) PROVE HInv'
<1> DEFINE v == change[r].version
<1>1. v \in 1 .. Len(versions) /\ v \in Nat
  BY DEF Mirror, HInv, Carries, TypeOK
<1>2. project' = Show(base[r], v, r) /\ Return(r)
      /\ UNCHANGED <<versions, proposal, conversation, call, crashes>>
  BY DEF Mirror
<1>3. base[r] \in Projects /\ r \in Authors
  BY StoredTypes DEF Authors
<1> HIDE DEF v, HInv
<1>4. project' \in Projects /\ project'.active = v
  BY <1>1, <1>2, <1>3, ShowType
<1> QED
  BY <1>1, <1>2, <1>4, ShowingStep

LEMMA ActivateStep == ASSUME HInv, NEW r \in Requests, Activate(r) PROVE HInv'
<1> DEFINE v == change[r].version
<1>1. v \in 1 .. Len(versions) /\ v \in Nat
  BY DEF Activate, HInv, Carries, TypeOK
<1>2. base[r] \in Projects /\ versions[v].design \in Authors
  <2>1. versions[v] \in Versions
    BY <1>1, StoredTypes
  <2> QED
    BY <2>1, StoredTypes DEF Versions, Authors
<1>3. project' = RollBack(base[r], v, versions[v].design, r) /\ Return(r)
      /\ UNCHANGED <<versions, proposal, conversation, call, crashes>>
  BY DEF Activate
<1> HIDE DEF v, HInv
<1>4. project' \in Projects /\ project'.active = v
  BY <1>1, <1>2, <1>3, RollBackType
<1> QED
  BY <1>1, <1>3, <1>4, ShowingStep

-----------------------------------------------------------------------------
(* Settings and chat.                                                       *)
LEMMA PatchStep == ASSUME HInv, NEW r \in Requests, Patch(r) PROVE HInv'
<1>1. PICK d \in SettingsDiffs(r) : ReadForUpdate(r, d, "refused")
  BY DEF Patch
<1>2. d \in Changes
  BY SettingsDiffsType DEF HInv
<1>3. Enters(r, "patch", None) /\ UNCHANGED crashes
  BY DEF Patch
<1> QED
  BY <1>1, <1>2, <1>3, EnteringType, ReadForUpdateStep DEF Operations, Authors

LEMMA ActivateVersionStep == ASSUME HInv, NEW r \in Requests, ActivateVersion(r) PROVE HInv'
<1>1. PICK v \in 1 .. Len(versions) + 1 : ReadForRollback(r, v)
  BY DEF ActivateVersion
<1>2. Enters(r, "activate", None) /\ UNCHANGED crashes
  BY DEF ActivateVersion
<1> QED
  BY <1>1, <1>2, EnteringType, ReadForRollbackStep DEF Operations, Authors

LEMMA SendMessageStep == ASSUME HInv, NEW r \in Requests, SendMessage(r) PROVE HInv'
<1>1. Enters(r, "chat", None) /\ UNCHANGED <<project, versions, proposal, conversation, crashes>>
  BY DEF SendMessage, stored
<1>2. /\ call' \in [Requests -> [op : Operations \cup {"none"}, proposal : Authors]]
      /\ \A s \in Requests \ {r} : call'[s] = call[s]
  BY <1>1, EnteringType DEF Operations, Authors
<1>3. ASSUME NEW d \in Offers(r, project, Len(versions)), Holds(r, "offer", d, NewProject)
      PROVE  HInv'
  <2>1. d \in Changes
    BY StoredTypes, OffersType
  <2>2. "offer" \in (Running \cup Ended) \ {"mirror", "activate"}
    BY DEF Running
  <2> QED
    BY <1>1, <1>2, <1>3, <2>1, <2>2, EmptyHands, StoredTypes, PlainStep
<1>4. ASSUME NEW how \in {"reply", "refused"}, Ends(r, how) PROVE HInv'
  <2>1. how \in Ended \cup {"reply", "draw", "parse"} /\ how # "draw"
    BY DEF Ended
  <2> QED
    BY <1>1, <1>2, <1>4, <2>1, StoredTypes, EndingStep
<1> QED
  BY <1>3, <1>4 DEF SendMessage

LEMMA SaveProposalStep == ASSUME HInv, NEW r \in Requests, SaveProposal(r) PROVE HInv'
<1>1. /\ proposal' = [id |-> r, change |-> change[r], consumed |-> FALSE]
      /\ Holds(r, "reply", change[r], NewProject)
      /\ UNCHANGED <<project, versions, conversation, call, crashes>>
  BY DEF SaveProposal
<1>2. proposal' \in Proposals
  BY <1>1, StoredTypes DEF Proposals, Authors
<1>3. "reply" \in (Running \cup Ended) \ {"mirror", "activate"}
  BY DEF Running
<1> QED
  BY <1>1, <1>2, <1>3, EmptyHands, StoredTypes, PlainStep

LEMMA ReplyStep == ASSUME HInv, NEW r \in Requests, Reply(r) PROVE HInv'
<1>1. /\ conversation' = conversation \cup {[by |-> r, offer |-> change[r] # NoChange]}
      /\ Ends(r, "done") /\ UNCHANGED <<project, versions, proposal, call, crashes>>
  BY DEF Reply
<1>2. conversation' \subseteq Messages
  <2>1. [by |-> r, offer |-> change[r] # NoChange] \in Messages
    BY DEF Messages
  <2> QED
    BY <1>1, <2>1, StoredTypes
<1>3. "done" \in Ended \cup {"reply", "draw", "parse"}
  BY DEF Ended
<1> QED
  BY <1>1, <1>2, <1>3, StoredTypes, EndingStep

LEMMA LookUpStep ==
  ASSUME HInv, NEW r \in Requests, NEW p, NEW next \in {"consume", "cancel"},
         LookUp(r, p, next), UNCHANGED crashes,
         call' \in [Requests -> [op : Operations \cup {"none"}, proposal : Authors]],
         \A s \in Requests \ {r} : call'[s] = call[s]
  PROVE  HInv'
<1>1. UNCHANGED <<project, versions, proposal, conversation>>
  BY DEF LookUp, stored
<1>2. CASE Holds(r, next, proposal.change, NewProject)
  <2>1. proposal.change \in Changes
    BY StoredTypes DEF Proposals
  <2>2. next \in (Running \cup Ended) \ {"mirror", "activate"}
    BY DEF Running
  <2> QED
    BY <1>1, <1>2, <2>1, <2>2, EmptyHands, StoredTypes, PlainStep
<1>3. CASE Ends(r, "refused")
  <2>1. "refused" \in Ended \cup {"reply", "draw", "parse"}
    BY DEF Ended
  <2> QED
    BY <1>1, <1>3, <2>1, StoredTypes, EndingStep
<1> QED
  BY <1>2, <1>3 DEF LookUp

LEMMA OfferedType == ASSUME HInv PROVE Offered \subseteq Authors
BY StoredTypes DEF Offered, Messages, Authors

LEMMA ConfirmProposalStep == ASSUME HInv, NEW r \in Requests, ConfirmProposal(r) PROVE HInv'
<1>1. PICK p \in Offered : Enters(r, "confirm", p) /\ LookUp(r, p, "consume")
  BY DEF ConfirmProposal
<1>2. p \in Authors /\ UNCHANGED crashes
  BY OfferedType DEF ConfirmProposal
<1> QED
  BY <1>1, <1>2, EnteringType, LookUpStep DEF Operations

LEMMA CancelProposalStep == ASSUME HInv, NEW r \in Requests, CancelProposal(r) PROVE HInv'
<1>1. PICK p \in Offered : Enters(r, "cancel", p) /\ LookUp(r, p, "cancel")
  BY DEF CancelProposal
<1>2. p \in Authors /\ UNCHANGED crashes
  BY OfferedType DEF CancelProposal
<1> QED
  BY <1>1, <1>2, EnteringType, LookUpStep DEF Operations

LEMMA MarkConsumedStep == ASSUME HInv, NEW r \in Requests, MarkConsumed(r) PROVE HInv'
<1>1. /\ proposal' = Consumed(proposal, call[r].proposal)
      /\ Ends(r, "reply") \/ Holds(r, "apply", change[r], NewProject)
      /\ UNCHANGED <<project, versions, conversation, call, crashes>>
  BY DEF MarkConsumed
<1>2. proposal' \in Proposals
  BY <1>1, StoredTypes DEF Consumed, Proposals
<1>3. "apply" \in (Running \cup Ended) \ {"mirror", "activate"}
  BY DEF Running
<1>4. CASE Ends(r, "reply")
  BY <1>1, <1>2, <1>4, StoredTypes, EndingStep
<1>5. CASE Holds(r, "apply", change[r], NewProject)
  BY <1>1, <1>2, <1>3, <1>5, EmptyHands, StoredTypes, PlainStep
<1> QED
  BY <1>1, <1>4, <1>5

LEMMA ExecuteStep == ASSUME HInv, NEW r \in Requests, Execute(r) PROVE HInv'
<1>1. UNCHANGED <<call, crashes>>
  BY DEF Execute
<1>2. CASE ReadForRollback(r, change[r].version)
  BY <1>1, <1>2, StoredTypes, ReadForRollbackStep
<1>3. CASE ReadForUpdate(r, change[r], "failed")
  BY <1>1, <1>3, StoredTypes, ReadForUpdateStep
<1> QED
  BY <1>2, <1>3 DEF Execute

-----------------------------------------------------------------------------
(* The design endpoints, the parser and the review.                         *)
LEMMA DesignStep ==
  ASSUME HInv, NEW r \in Requests, GenerateDesign(r) \/ EditDesign(r)
  PROVE  HInv'
<1>1. PICK op \in {"design", "edit"} : Enters(r, op, None)
  BY DEF GenerateDesign, EditDesign
<1>2. UNCHANGED <<project, versions, proposal, conversation, crashes>>
  BY DEF GenerateDesign, EditDesign, stored
<1>3. PICK how \in {"draw", "refused"} : Ends(r, how)
  BY DEF GenerateDesign, EditDesign, Ends
<1>4. /\ call' \in [Requests -> [op : Operations \cup {"none"}, proposal : Authors]]
      /\ \A s \in Requests \ {r} : call'[s] = call[s]
      /\ call'[r].op = op
  BY <1>1, EnteringType DEF Operations, Authors
<1>5. how \in Ended \cup {"reply", "draw", "parse"}
  BY DEF Ended
<1> QED
  BY <1>2, <1>3, <1>4, <1>5, StoredTypes, EndingStep

LEMMA SetDesignModelStep == ASSUME HInv, NEW r \in Requests, SetDesignModel(r) PROVE HInv'
<1>1. /\ project' = [project EXCEPT !.design = r]
      /\ Ends(r, "done") /\ UNCHANGED <<versions, proposal, conversation, call, crashes>>
  BY DEF SetDesignModel
<1>2. project' \in Projects /\ project'.active = project.active
  <2>1. r \in Authors
    BY DEF Authors
  <2> QED
    BY <1>1, <2>1, StoredTypes DEF Projects
<1>3. "done" \in Ended \cup {"reply", "draw", "parse"}
  BY DEF Ended
<1> QED
  BY <1>1, <1>2, <1>3, StoredTypes, EndingStep

LEMMA ParseRequirementsStep ==
  ASSUME HInv, NEW r \in Requests, ParseRequirements(r)
  PROVE  HInv'
<1>1. /\ Enters(r, "parse", None)
      /\ UNCHANGED <<project, versions, proposal, conversation, crashes>>
  BY DEF ParseRequirements, stored
<1>2. PICK how \in {"parse", "failed"} : Ends(r, how)
  BY DEF ParseRequirements, Ends
<1>3. how \in Ended \cup {"reply", "draw", "parse"} /\ how # "draw"
  BY DEF Ended
<1>4. /\ call' \in [Requests -> [op : Operations \cup {"none"}, proposal : Authors]]
      /\ \A s \in Requests \ {r} : call'[s] = call[s]
  BY <1>1, EnteringType DEF Operations, Authors
<1> QED
  BY <1>1, <1>2, <1>3, <1>4, StoredTypes, EndingStep

LEMMA SaveParsedStep == ASSUME HInv, NEW r \in Requests, SaveParsed(r) PROVE HInv'
<1>1. PICK w \in Counts, n \in 0 .. MaxWet, requested \in BOOLEAN, questions \in BOOLEAN,
           other \in BOOLEAN :
        LET wet == Reconciled(w, requested, n)
        IN  project' = SetParsed(project, wet.wet, wet.rows, IF wet.rows = 0 THEN None ELSE r,
                                 questions, other \/ wet.ambiguous)
  BY DEF SaveParsed
<1> DEFINE wet == Reconciled(w, requested, n)
<1>2. wet.wet \in Counts /\ wet.rows \in 0 .. MaxWet
  BY ReconciledType
<1>3. (IF wet.rows = 0 THEN None ELSE r) \in Authors /\ (other \/ wet.ambiguous) \in BOOLEAN
  BY DEF Authors
<1>4. project' = SetParsed(project, wet.wet, wet.rows, IF wet.rows = 0 THEN None ELSE r,
                           questions, other \/ wet.ambiguous)
  BY <1>1
<1> HIDE DEF wet, HInv
<1>5. project' \in Projects /\ project'.active = project.active
  BY <1>2, <1>3, <1>4, StoredTypes DEF SetParsed, Projects
<1>6. Ends(r, "done") /\ UNCHANGED <<versions, proposal, conversation, call, crashes>>
  BY DEF SaveParsed
<1>7. "done" \in Ended \cup {"reply", "draw", "parse"}
  BY DEF Ended
<1> QED
  BY <1>5, <1>6, <1>7, StoredTypes, EndingStep

LEMMA ReviewStep == ASSUME HInv, NEW r \in Requests, Review(r) PROVE HInv'
<1>1. Enters(r, "review", None) /\ UNCHANGED <<project, versions, proposal, conversation, crashes>>
  BY DEF Review, stored
<1>2. /\ call' \in [Requests -> [op : Operations \cup {"none"}, proposal : Authors]]
      /\ \A s \in Requests \ {r} : call'[s] = call[s]
  BY <1>1, EnteringType DEF Operations, Authors
<1>3. PICK w \in {Keep} \cup 0 .. MaxWet, n \in {Keep} \cup 0 .. MaxWet :
        LET outcome == Reviewed(project, WetDiff(w, n, IF n > 0 THEN r ELSE None))
        IN  IF project.parsed /\ RowsFit(outcome)
              THEN Holds(r, IF n = Keep THEN "review" ELSE "answer", outcome, NewProject)
              ELSE Ends(r, "refused")
  BY DEF Review
<1> DEFINE by == IF n > 0 THEN r ELSE None
           outcome == Reviewed(project, WetDiff(w, n, by))
<1>4. w \in Counts \cup {Keep} /\ by \in Authors
  BY CountsArePlain DEF Authors
<1>5. WetDiff(w, n, by) \in Changes
  BY <1>4, DiffTypes
<1>6. outcome \in Changes /\ outcome.wet # Keep
  BY <1>5, StoredTypes, ReviewedType
<1>7. (\E at \in {"review", "answer"} : Holds(r, at, outcome, NewProject)) \/ Ends(r, "refused")
  BY <1>3
<1> HIDE DEF outcome, HInv
<1>8. ASSUME NEW at \in {"review", "answer"}, Holds(r, at, outcome, NewProject) PROVE HInv'
  <2>1. at \in (Running \cup Ended) \ {"mirror", "activate"} /\ at # "draw" /\ at # "persist"
    BY DEF Running
  <2> QED
    BY <1>1, <1>2, <1>6, <1>8, <2>1, EmptyHands, StoredTypes, PlainStep
<1>9. CASE Ends(r, "refused")
  <2>1. "refused" \in Ended \cup {"reply", "draw", "parse"}
    BY DEF Ended
  <2> QED
    BY <1>1, <1>2, <1>9, <2>1, StoredTypes, EndingStep
<1> QED
  BY <1>7, <1>8, <1>9

LEMMA SaveReviewStep == ASSUME HInv, NEW r \in Requests, SaveReview(r) PROVE HInv'
<1> DEFINE d == change[r]
           n == Updated(d.rows, project.rows)
           by == IF d.rows = Keep THEN project.rowsBy ELSE d.rowsBy
           q == project.questions /\ pc[r] = "review"
<1>1. d.wet \in Counts
  BY DEF SaveReview, HInv, Carries, TypeOK, Changes
<1>2. n \in 0 .. MaxWet /\ by \in Authors /\ q \in BOOLEAN
  BY StoredTypes DEF Updated, Changes, Projects
<1>3. project' = SetParsed(project, d.wet, n, by, q, FALSE)
  BY DEF SaveReview
<1> HIDE DEF d, n, by, q, HInv
<1>4. project' \in Projects /\ project'.active = project.active
  <2>1. project \in Projects /\ FALSE \in BOOLEAN
    BY StoredTypes
  <2>2. /\ SetParsed(project, d.wet, n, by, q, FALSE) \in Projects
        /\ SetParsed(project, d.wet, n, by, q, FALSE).active = project.active
    BY <1>1, <1>2, <2>1 DEF SetParsed, Projects
  <2> QED
    BY <1>3, <2>2
<1>5. Ends(r, "done") /\ UNCHANGED <<versions, proposal, conversation, call, crashes>>
  BY DEF SaveReview
<1>6. "done" \in Ended \cup {"reply", "draw", "parse"}
  BY DEF Ended
<1> QED
  BY <1>4, <1>5, <1>6, StoredTypes, EndingStep

-----------------------------------------------------------------------------
(* The service as a whole.                                                  *)
LEMMA CrashStep == ASSUME HInv, Crash PROVE HInv'
<1>1. UNCHANGED <<project, versions, proposal, conversation, call>>
  BY DEF Crash, stored
<1>2. /\ pc' \in [Requests -> States]
      /\ \A r \in Requests : (pc'[r] = pc[r] /\ pc[r] \notin Running) \/ pc'[r] = "lost"
  BY DEF Crash, HInv, TypeOK, States, Ended
<1>3. /\ change' = [r \in Requests |-> NoChange] /\ base' = [r \in Requests |-> NewProject]
  BY DEF Crash
<1>4. crashes' \in 0 .. MaxCrashes
  <2>1. crashes \in 0 .. MaxCrashes /\ crashes < MaxCrashes /\ crashes' = crashes + 1
    BY DEF Crash, HInv, TypeOK
  <2> HIDE DEF HInv
  <2> QED
    BY <2>1, MaxCrashesAssumption
<1>5. TypeOK'
  <2>1. project \in Projects /\ versions \in Seq(Versions) /\ proposal \in Proposals
        /\ conversation \subseteq Messages
        /\ call \in [Requests -> [op : Operations \cup {"none"}, proposal : Authors]]
    BY StoredTypes
  <2>2. change' \in [Requests -> Changes] /\ base' \in [Requests -> Projects]
    BY <1>3, EmptyHands
  <2> HIDE DEF HInv
  <2> QED
    BY <1>1, <1>2, <1>4, <2>1, <2>2, MaxCrashesAssumption DEF TypeOK, States
<1>6. ASSUME NEW r \in Requests PROVE Carries(r)'
  <2>1. base'[r].active \in 0 .. Len(versions')
    BY <1>1, <1>3, EmptyHands
  <2>2. pc'[r] \notin Running
    BY <1>2 DEF Running
  <2>3. pc'[r] = "idle" => call'[r].op = "none"
    BY <1>1, <1>2 DEF HInv, Carries
  <2> QED
    BY <2>1, <2>2, <2>3 DEF Carries, Running
<1>7. HistoryIsSound'
  BY <1>1 DEF HistoryIsSound, HInv
<1> QED
  BY <1>5, <1>6, <1>7 DEF HInv

LEMMA HInvInit == Init => HInv
<1> SUFFICES ASSUME Init PROVE HInv
  OBVIOUS
<1>1. TypeOK
  BY NewTypes, MaxCrashesAssumption DEF Init, TypeOK, Authors
<1>2. HistoryIsSound
  BY DEF Init, HistoryIsSound, NewProject
<1>3. \A r \in Requests : Carries(r)
  BY DEF Init, Carries, NewProject
<1> QED
  BY <1>1, <1>2, <1>3 DEF HInv

LEMMA HInvNext == HInv /\ [Next]_vars => HInv'
<1> SUFFICES ASSUME HInv, [Next]_vars PROVE HInv'
  OBVIOUS
<1>1. ASSUME NEW r \in Requests, Update(r) PROVE HInv'
  BY <1>1, PersistStep, StoreVersionStep, GenerationFailsStep, MirrorStep, ActivateStep DEF Update
<1>2. ASSUME NEW r \in Requests, Settings(r) PROVE HInv'
  BY <1>2, PatchStep, ActivateVersionStep DEF Settings
<1>3. ASSUME NEW r \in Requests, Chat(r) PROVE HInv'
  BY <1>3, SendMessageStep, SaveProposalStep, ReplyStep, ConfirmProposalStep,
     CancelProposalStep, MarkConsumedStep, ExecuteStep DEF Chat
<1>4. ASSUME NEW r \in Requests, Design(r) PROVE HInv'
  BY <1>4, DesignStep, SetDesignModelStep DEF Design
<1>5. ASSUME NEW r \in Requests, Requirements(r) PROVE HInv'
  BY <1>5, ParseRequirementsStep, SaveParsedStep, ReviewStep, SaveReviewStep DEF Requirements
<1>6. CASE Crash
  BY <1>6, CrashStep
<1>7. CASE UNCHANGED vars
  BY <1>7 DEF vars, HInv, TypeOK, HistoryIsSound, Carries, ValidDiff
<1> QED
  BY <1>1, <1>2, <1>3, <1>4, <1>5, <1>6, <1>7 DEF Next, Handle, Served

(* Every store and every handler keeps its type: no interleaving, crash or  *)
(* refusal leaves a record the endpoints cannot read (app/projects,         *)
(* app/chat, app/design).                                                   *)
THEOREM TypeCorrect == Spec => []TypeOK
<1>1. HInv => TypeOK
  BY DEF HInv
<1> QED
  BY HInvInit, HInvNext, <1>1, PTL DEF Spec

(* apply_project_update and rollback_to_design_version: the active version  *)
(* can always be read back, and the history of versions has no cycle, for   *)
(* any number of concurrent handlers and crashes.                           *)
THEOREM HistoryAlwaysSound == Spec => []HistoryIsSound
<1>1. HInv => HistoryIsSound
  BY DEF HInv
<1> QED
  BY HInvInit, HInvNext, <1>1, PTL DEF Spec

-----------------------------------------------------------------------------
(* The design shown.  The project and every copy a handler holds mirror     *)
(* the version they point at, unless their design was drawn directly: what  *)
(* a handler writes comes from such a copy.                                 *)
MInv == Mirrors(project) /\ \A r \in Requests : Mirrors(base[r])

(* The endpoint a request called is settled once it has entered.            *)
CallsSettled == \A s \in Requests : pc[s] # "idle" => call'[s] = call[s]

LEMMA MirrorsKept ==
  ASSUME HInv, Growing, CallsSettled, NEW p \in Projects, p.active \in 0 .. Len(versions),
         Mirrors(p)
  PROVE  Mirrors(p)'
<1>1. CASE p.design = DesignOf(p.active)
  <2>1. p.active # 0 => p.active \in 1 .. Len(versions)
    BY DEF HInv, TypeOK
  <2> QED
    BY <1>1, <2>1 DEF Mirrors, DesignOf, Growing
<1>2. CASE p.design # None /\ call[p.design].op \in {"design", "edit"}
  <2>1. p.design \in Requests
    BY <1>2 DEF Projects, Authors
  <2>2. pc[p.design] # "idle"
    BY <1>2, <2>1 DEF HInv, Carries
  <2>3. call'[p.design] = call[p.design]
    BY <2>1, <2>2 DEF CallsSettled
  <2> QED
    BY <1>2, <2>3 DEF Mirrors
<1> QED
  BY <1>1, <1>2 DEF Mirrors

LEMMA MirrorsOfNew == Mirrors(NewProject)
BY DEF Mirrors, NewProject, DesignOf

(* A step that stores q and leaves the handler of r with the copy p.        *)
LEMMA MStep ==
  ASSUME HInv, MInv, Growing, CallsSettled, NEW r \in Requests,
         NEW p \in Projects, p.active \in 0 .. Len(versions), Mirrors(p),
         base' = [base EXCEPT ![r] = p],
         NEW q \in Projects, q.active \in 0 .. Len(versions), Mirrors(q), project' = q
  PROVE  MInv'
<1>1. Mirrors(q)' /\ Mirrors(p)'
  BY MirrorsKept
<1>2. ASSUME NEW s \in Requests PROVE Mirrors(base[s])'
  <2>1. base'[s] = IF s = r THEN p ELSE base[s]
    BY DEF HInv, TypeOK
  <2>2. base[s] \in Projects /\ base[s].active \in 0 .. Len(versions) /\ Mirrors(base[s])
    BY StoredTypes DEF HInv, Carries, MInv
  <2>3. \A b : b = base[s] => Mirrors(b)'
    BY <2>2, MirrorsKept
  <2> QED
    BY <1>1, <2>1, <2>3 DEF Mirrors, DesignOf
<1> QED
  BY <1>1, <1>2 DEF MInv, Mirrors, DesignOf

(* A step that leaves versions and project alone.                           *)
LEMMA MQuietStep ==
  ASSUME HInv, MInv, CallsSettled, UNCHANGED <<project, versions>>, NEW r \in Requests,
         \E p \in {project, NewProject} : base' = [base EXCEPT ![r] = p]
  PROVE  MInv'
<1>1. PICK p \in {project, NewProject} : base' = [base EXCEPT ![r] = p]
  OBVIOUS
<1>2. p \in Projects /\ p.active \in 0 .. Len(versions)
  BY <1>1, StoredTypes, EmptyHands
<1>3. Mirrors(p) /\ Mirrors(project)
  BY <1>1, MirrorsOfNew DEF MInv
<1>4. Growing
  BY DEF Growing, HInv, TypeOK
<1> HIDE DEF HInv, MInv
<1> QED
  BY <1>1, <1>2, <1>3, <1>4, StoredTypes, MStep

(* Entering and reading: the nine endpoints.                                *)
LEMMA MEnterSteps ==
  ASSUME HInv, MInv, NEW r \in Requests,
         \/ Settings(r) \/ SendMessage(r) \/ ConfirmProposal(r) \/ CancelProposal(r)
         \/ GenerateDesign(r) \/ EditDesign(r) \/ ParseRequirements(r) \/ Review(r)
  PROVE  MInv'
<1>1. UNCHANGED <<project, versions>>
  BY DEF Settings, Patch, ActivateVersion, SendMessage, ConfirmProposal, CancelProposal,
         GenerateDesign, EditDesign, ParseRequirements, Review, ReadForUpdate, ReadForRollback,
         LookUp, stored
<1>2. CallsSettled
  <2>1. pc[r] = "idle" /\ \E op, p : Enters(r, op, p)
    BY DEF Settings, Patch, ActivateVersion, SendMessage, ConfirmProposal, CancelProposal,
           GenerateDesign, EditDesign, ParseRequirements, Review, CanEnter
  <2> QED
    BY <2>1 DEF CallsSettled, Enters, HInv, TypeOK
<1>3. \E p \in {project, NewProject} : base' = [base EXCEPT ![r] = p]
  <2>1. \E at, d : \E p \in {project, NewProject} : Holds(r, at, d, p)
    BY DEF Settings, Patch, ActivateVersion, SendMessage, ConfirmProposal, CancelProposal,
           GenerateDesign, EditDesign, ParseRequirements, Review, ReadForUpdate,
           ReadForRollback, LookUp, Ends
  <2> QED
    BY <2>1 DEF Holds
<1> HIDE DEF HInv, MInv
<1> QED
  BY <1>1, <1>2, <1>3, MQuietStep

(* The steps that write proposals and messages, read, or write nothing.     *)
LEMMA MQuietSteps ==
  ASSUME HInv, MInv, NEW r \in Requests,
         SaveProposal(r) \/ Reply(r) \/ MarkConsumed(r) \/ Execute(r) \/ GenerationFails(r)
  PROVE  MInv'
<1>1. UNCHANGED <<project, versions, call>>
  BY DEF SaveProposal, Reply, MarkConsumed, Execute, GenerationFails, ReadForUpdate,
         ReadForRollback, stored
<1>2. CallsSettled
  BY <1>1 DEF CallsSettled
<1>3. \E p \in {project, NewProject} : base' = [base EXCEPT ![r] = p]
  <2>1. \E at, d : \E p \in {project, NewProject} : Holds(r, at, d, p)
    BY DEF SaveProposal, Reply, MarkConsumed, Execute, GenerationFails, ReadForUpdate,
           ReadForRollback, Return, Ends
  <2> QED
    BY <2>1 DEF Holds
<1> HIDE DEF HInv, MInv
<1> QED
  BY <1>1, <1>2, <1>3, MQuietStep

(* A step that stores q and ends, or goes on holding q.                     *)
LEMMA MWritingStep ==
  ASSUME HInv, MInv, NEW r \in Requests, UNCHANGED <<versions, call>>,
         NEW q \in Projects, q.active \in 0 .. Len(versions), Mirrors(q), project' = q,
         \E at, d : \E p \in {q, NewProject} : Holds(r, at, d, p)
  PROVE  MInv'
<1>1. Growing /\ CallsSettled
  BY DEF Growing, CallsSettled, HInv, TypeOK
<1>2. PICK p \in {q, NewProject} : base' = [base EXCEPT ![r] = p]
  BY DEF Holds
<1>3. p \in Projects /\ p.active \in 0 .. Len(versions) /\ Mirrors(p)
  BY <1>2, EmptyHands, MirrorsOfNew
<1> HIDE DEF HInv, MInv
<1> QED
  BY <1>1, <1>2, <1>3, MStep

LEMMA MPersist == ASSUME HInv, MInv, NEW r \in Requests, Persist(r) PROVE MInv'
<1> DEFINE q == ApplyDiff(base[r], change[r], r)
<1>1. ValidDiff(base[r], change[r]) /\ base[r].active \in 0 .. Len(versions)
  BY DEF Persist, HInv, Carries
<1>2. q \in Projects /\ q.active = base[r].active /\ q.design = base[r].design
  BY <1>1, StoredTypes, ApplyDiffType
<1>3. project' = q /\ UNCHANGED <<versions, call>>
  BY DEF Persist
<1>4. \E at, d : \E p \in {q, NewProject} : Holds(r, at, d, p)
  BY DEF Persist, Return, Ends
<1>5. Mirrors(base[r])
  BY DEF MInv
<1> HIDE DEF q, HInv, MInv
<1>6. Mirrors(q)
  BY <1>2, <1>5 DEF Mirrors
<1> QED
  BY <1>1, <1>2, <1>3, <1>4, <1>6, MWritingStep

LEMMA MStoreVersion == ASSUME HInv, MInv, NEW r \in Requests, StoreVersion(r) PROVE MInv'
<1>1. Growing
  BY DEF StoreVersion, Growing, HInv, TypeOK
<1>2. CallsSettled /\ project' = project
  BY DEF StoreVersion, CallsSettled
<1>3. base' = [base EXCEPT ![r] = base[r]]
  BY DEF StoreVersion, Holds
<1>4. base[r].active \in 0 .. Len(versions) /\ Mirrors(base[r]) /\ Mirrors(project)
  BY DEF HInv, Carries, MInv
<1> HIDE DEF HInv, MInv
<1> QED
  BY <1>1, <1>2, <1>3, <1>4, StoredTypes, MStep

LEMMA MMirror == ASSUME HInv, MInv, NEW r \in Requests, Mirror(r) PROVE MInv'
<1> DEFINE v == change[r].version
           q == Show(base[r], v, r)
<1>1. v \in 1 .. Len(versions) /\ v \in Nat /\ v # 0 /\ versions[v].design = r
  BY DEF Mirror, HInv, Carries, TypeOK
<1>2. base[r] \in Projects /\ r \in Authors
  BY StoredTypes DEF Authors
<1>3. project' = q /\ UNCHANGED <<versions, call>>
  BY DEF Mirror
<1>4. \E at, d : \E p \in {q, NewProject} : Holds(r, at, d, p)
  BY DEF Mirror, Return, Ends
<1> HIDE DEF v, HInv, MInv
<1>5. q \in Projects /\ q.active = v /\ q.design = r
  BY <1>1, <1>2, ShowType
<1> HIDE DEF q
<1>6. Mirrors(q)
  BY <1>1, <1>5 DEF Mirrors, DesignOf
<1>7. q.active \in 0 .. Len(versions)
  BY <1>1, <1>5
<1> QED
  BY <1>3, <1>4, <1>5, <1>6, <1>7, MWritingStep

LEMMA MActivate == ASSUME HInv, MInv, NEW r \in Requests, Activate(r) PROVE MInv'
<1> DEFINE v == change[r].version
           q == RollBack(base[r], v, versions[v].design, r)
<1>1. v \in 1 .. Len(versions) /\ v \in Nat /\ v # 0
  BY DEF Activate, HInv, Carries, TypeOK
<1>2. base[r] \in Projects /\ versions[v].design \in Authors
  <2>1. versions[v] \in Versions
    BY <1>1, StoredTypes
  <2> QED
    BY <2>1, StoredTypes DEF Versions, Authors
<1>3. project' = q /\ UNCHANGED <<versions, call>>
  BY DEF Activate
<1>4. \E at, d : \E p \in {q, NewProject} : Holds(r, at, d, p)
  BY DEF Activate, Return, Ends
<1> HIDE DEF v, HInv, MInv
<1>5. q \in Projects /\ q.active = v /\ q.design = versions[v].design
  BY <1>1, <1>2, RollBackType
<1> HIDE DEF q
<1>6. Mirrors(q)
  BY <1>1, <1>5 DEF Mirrors, DesignOf
<1>7. q.active \in 0 .. Len(versions)
  BY <1>1, <1>5
<1> QED
  BY <1>3, <1>4, <1>5, <1>6, <1>7, MWritingStep

LEMMA MSetDesignModel == ASSUME HInv, MInv, NEW r \in Requests, SetDesignModel(r) PROVE MInv'
<1> DEFINE q == [project EXCEPT !.design = r]
<1>1. project' = q /\ UNCHANGED <<versions, call>>
  BY DEF SetDesignModel
<1>2. call[r].op \in {"design", "edit"}
  BY DEF SetDesignModel, HInv, Carries
<1>3. q \in Projects /\ q.active = project.active /\ q.design = r
  BY StoredTypes DEF Projects, Authors
<1>4. \E at, d : \E p \in {q, NewProject} : Holds(r, at, d, p)
  BY DEF SetDesignModel, Ends
<1> HIDE DEF q, HInv, MInv
<1>5. r # None
  BY NoneAssumption
<1>6. Mirrors(q)
  BY <1>2, <1>3, <1>5 DEF Mirrors
<1>7. q.active \in 0 .. Len(versions)
  BY <1>3, StoredTypes
<1> QED
  BY <1>1, <1>3, <1>4, <1>6, <1>7, MWritingStep

(* The parser and the review keep the pointer and the design.               *)
LEMMA MSetParsed ==
  ASSUME HInv, HInv', MInv, NEW r \in Requests, SaveParsed(r) \/ SaveReview(r)
  PROVE  MInv'
<1>1. UNCHANGED <<versions, call>>
  BY DEF SaveParsed, SaveReview
<1>2. project'.active = project.active /\ project'.design = project.design
  BY StoredTypes DEF SaveParsed, SaveReview, SetParsed, Projects
<1>3. \E at, d : Holds(r, at, d, NewProject)
  BY DEF SaveParsed, SaveReview, Ends
<1>4. project' \in Projects
  BY DEF HInv, TypeOK
<1>5. Mirrors(project)
  BY DEF MInv
<1> DEFINE q == project'
<1> HIDE DEF HInv, MInv
<1>6. \A b : b = project' => Mirrors(b)
  BY <1>2, <1>5 DEF Mirrors
<1>7. project'.active \in 0 .. Len(versions)
  BY <1>2, StoredTypes
<1>8. PICK b : b = project'
  OBVIOUS
<1> QED
  BY <1>1, <1>3, <1>4, <1>6, <1>7, <1>8, MWritingStep

LEMMA MCrash == ASSUME HInv, MInv, Crash PROVE MInv'
<1>1. UNCHANGED <<project, versions, call>> /\ base' = [r \in Requests |-> NewProject]
  BY DEF Crash, stored
<1>2. Mirrors(project)'
  BY <1>1 DEF MInv, Mirrors, DesignOf
<1>3. \A r \in Requests : Mirrors(base[r])'
  BY <1>1 DEF Mirrors, DesignOf, NewProject
<1> QED
  BY <1>2, <1>3 DEF MInv

LEMMA MInvNext == HInv /\ HInv' /\ MInv /\ [Next]_vars => MInv'
<1> SUFFICES ASSUME HInv, HInv', MInv, [Next]_vars PROVE MInv'
  OBVIOUS
<1>1. ASSUME NEW r \in Requests, Handle(r) PROVE MInv'
  BY <1>1, MEnterSteps, MQuietSteps, MPersist, MStoreVersion, MMirror, MActivate,
     MSetDesignModel, MSetParsed DEF Handle, Update, Settings, Chat, Design, Requirements
<1>2. CASE Crash
  BY <1>2, MCrash
<1>3. CASE UNCHANGED vars
  BY <1>3 DEF vars, MInv, Mirrors, DesignOf
<1> QED
  BY <1>1, <1>2, <1>3 DEF Next, Served

(* The flat design fields and the pointer to the active version are written *)
(* together and never drift apart, except by POST /design and a spatial     *)
(* edit, for any number of concurrent handlers and crashes.                 *)
THEOREM DesignShownIsActive == Spec => []MirrorsUnlessDirect
<1>1. Init => MInv
  BY MirrorsOfNew DEF Init, MInv
<1>2. HInv /\ MInv /\ [Next]_vars => (HInv /\ MInv)'
  BY HInvNext, MInvNext
<1>3. MInv => MirrorsUnlessDirect
  BY DEF MInv, MirrorsUnlessDirect
<1> QED
  BY HInvInit, <1>1, <1>2, <1>3, PTL DEF Spec

-----------------------------------------------------------------------------
(* The audit trail.  Whatever a handler writes is a copy whose trail        *)
(* explains its preferences, with entries added that explain what changed.  *)
PreferenceFields == {"preferences.add", "preferences.update", "preferences.remove"}

LEMMA LeftAfterOthers ==
  ASSUME NEW log \in Seq(LogEntries), NEW more \in Seq(LogEntries),
         \A i \in 1 .. Len(more) : more[i].field \notin PreferenceFields, NEW p, NEW r
  PROVE  LeftBy(log \o more, p, r) <=> LeftBy(log, p, r)
<1> DEFINE all == log \o more
<1>1. /\ Len(all) = Len(log) + Len(more)
      /\ \A i \in 1 .. Len(all) : all[i] = IF i <= Len(log) THEN log[i] ELSE more[i - Len(log)]
  OBVIOUS
<1> HIDE DEF all
<1>2. \A i \in 1 .. Len(log) : i \in 1 .. Len(all) /\ all[i] = log[i]
  BY <1>1
<1>3. \A i \in 1 .. Len(all) : i \notin 1 .. Len(log) => all[i].field \notin PreferenceFields
  BY <1>1
<1>4. About(all, p) = About(log, p)
  BY <1>2, <1>3 DEF About, PreferenceFields
<1>5. \A i \in About(log, p) : all[i] = log[i]
  BY <1>2 DEF About
<1> QED
  BY <1>4, <1>5 DEF LeftBy, all

LEMMA LeftAfterEntry ==
  ASSUME NEW log \in Seq(LogEntries), NEW e \in LogEntries, e.field \in PreferenceFields, NEW p, NEW r
  PROVE  LeftBy(log \o <<e>>, p, r) <=>
           IF e.value = p THEN e.field # "preferences.remove" /\ e.by = r ELSE LeftBy(log, p, r)
<1> DEFINE all == log \o <<e>>
           n   == Len(log) + 1
<1>1. Len(all) = n /\ all[n] = e /\ n \in 1 .. n /\ \A i \in 1 .. Len(log) : all[i] = log[i] /\ i <= n
  OBVIOUS
<1>2. 1 .. n = 1 .. Len(log) \cup {n} /\ n \notin 1 .. Len(log)
  OBVIOUS
<1> HIDE DEF all, n
<1>3. About(all, p) = About(log, p) \cup (IF e.value = p THEN {n} ELSE {})
  BY <1>1, <1>2 DEF About, PreferenceFields
<1>4. \A i \in About(log, p) : all[i] = log[i] /\ i <= n /\ ~(n <= i)
  <2> TAKE i \in About(log, p)
  <2>1. i \in 1 .. Len(log)
    BY DEF About
  <2>2. i < n
    BY <2>1 DEF n
  <2> QED
    BY <1>1, <2>1, <2>2 DEF n
<1>5. CASE e.value = p
  <2>1. n \in About(all, p) /\ \A j \in About(all, p) : j <= n
    BY <1>3, <1>4, <1>5 DEF n
  <2>2. \A i \in About(all, p) : (\A j \in About(all, p) : j <= i) => i = n
    BY <1>3, <1>4, <1>5, <2>1
  <2> QED
    BY <1>1, <1>5, <2>1, <2>2 DEF LeftBy, all
<1>6. CASE e.value # p
  BY <1>3, <1>4, <1>6 DEF LeftBy, all
<1> QED
  BY <1>5, <1>6

LEMMA ExplainedOfNew == Explained(NewProject)
<1>1. NewProject.log = <<>> /\ NewProject.prefs = NoPreferences
  BY DEF NewProject
<1>2. \A p, r : ~LeftBy(<<>>, p, r)
  BY DEF LeftBy, About
<1> QED
  BY <1>1, <1>2 DEF Explained, NoPreferences

(* The entry of a changed preference says what has become of it.            *)
LEMMA ExplainedByEntry ==
  ASSUME NEW p \in Projects, Explained(p), NEW log \in Seq(LogEntries),
         \A id, r \in Requests : LeftBy(log, id, r) <=> LeftBy(p.log, id, r),
         NEW d \in Changes, NEW r \in Requests, ValidDiff(p, d), NEW q,
         q.log = log \o PreferenceEntries(d, r), q.prefs = ApplyDiff(p, d, r).prefs
  PROVE  Explained(q)
<1>1. p.prefs \in Preferences /\ DOMAIN p.prefs \subseteq Requests /\ d.prefOp \in {"none", "add", "update", "remove"}
  BY PreferencesType DEF Projects, Changes
<1>2. d.prefOp \in {"update", "remove"} => d.pref \in DOMAIN p.prefs
  BY DEF ValidDiff
<1>3. q.prefs = CASE d.prefOp = "add"    -> WithPreference(p.prefs, r, r)
                  [] d.prefOp = "update" -> WithPreference(p.prefs, d.pref, r)
                  [] d.prefOp = "remove" -> WithoutPreference(p.prefs, d.pref)
                  [] OTHER               -> p.prefs
  BY DEF ApplyDiff, Projects
<1>4. \A id, s \in Requests : (id \in DOMAIN p.prefs /\ p.prefs[id] = s) <=> LeftBy(log, id, s)
  BY DEF Explained
<1>5. CASE d.prefOp = "none"
  <2>1. q.log = log /\ q.prefs = p.prefs
    BY <1>3, <1>5 DEF PreferenceEntries, When
  <2> QED
    BY <1>4, <2>1 DEF Explained
<1>6. CASE d.prefOp \in {"add", "update"}
  <2> DEFINE id == IF d.prefOp = "add" THEN r ELSE d.pref
             e  == Entry(IF d.prefOp = "add" THEN "preferences.add" ELSE "preferences.update", id, r)
  <2>1. id \in Requests /\ q.log = log \o <<e>> /\ q.prefs = WithPreference(p.prefs, id, r)
    BY <1>1, <1>2, <1>3, <1>6 DEF PreferenceEntries, When
  <2>2. e \in LogEntries /\ e.field \in PreferenceFields \ {"preferences.remove"} /\ e.value = id /\ e.by = r
    BY <2>1 DEF Entry, LogEntries, LogFields, Authors, PreferenceFields
  <2> HIDE DEF id, e
  <2>3. \A i, s \in Requests : LeftBy(q.log, i, s) <=> IF id = i THEN r = s ELSE LeftBy(log, i, s)
    BY <2>1, <2>2, LeftAfterEntry
  <2>4. \A i \in Requests : /\ i \in DOMAIN q.prefs <=> i \in DOMAIN p.prefs \/ i = id
                            /\ i \in DOMAIN q.prefs => q.prefs[i] = IF i = id THEN r ELSE p.prefs[i]
    BY <2>1 DEF WithPreference
  <2> QED
    BY <1>4, <2>3, <2>4 DEF Explained
<1>7. CASE d.prefOp = "remove"
  <2> DEFINE e == Entry("preferences.remove", d.pref, r)
  <2>1. d.pref \in Requests /\ q.log = log \o <<e>> /\ q.prefs = WithoutPreference(p.prefs, d.pref)
    BY <1>1, <1>2, <1>3, <1>7 DEF PreferenceEntries, When
  <2>2. e \in LogEntries /\ e.field = "preferences.remove" /\ e.field \in PreferenceFields /\ e.value = d.pref
    BY <2>1 DEF Entry, LogEntries, LogFields, Authors, PreferenceFields
  <2> HIDE DEF e
  <2>3. \A i, s \in Requests : LeftBy(q.log, i, s) <=> (d.pref # i /\ LeftBy(log, i, s))
    BY <2>1, <2>2, LeftAfterEntry
  <2>4. \A i \in Requests : /\ i \in DOMAIN q.prefs <=> i \in DOMAIN p.prefs /\ i # d.pref
                            /\ i \in DOMAIN q.prefs => q.prefs[i] = p.prefs[i]
    BY <2>1 DEF WithoutPreference
  <2> QED
    BY <1>4, <2>3, <2>4 DEF Explained
<1> QED
  BY <1>1, <1>5, <1>6, <1>7

LEMMA ApplyDiffExplained ==
  ASSUME NEW p \in Projects, Explained(p), NEW d \in Changes, NEW r \in Requests, ValidDiff(p, d)
  PROVE  Explained(ApplyDiff(p, d, r))
<1> DEFINE more == RequirementEntries(p, d, r)
           log  == p.log \o more
           q    == ApplyDiff(p, d, r)
<1>1. p.log \in Seq(LogEntries) /\ more \in Seq(LogEntries) /\ log \in Seq(LogEntries)
  BY LogType DEF Projects
<1>2. \A i \in 1 .. Len(more) : more[i].field \notin PreferenceFields
  <2> DEFINE a == When(ChangesWet(p, d), Entry("wet_rooms", d.wet, r))
             b == When(ChangesRows(p, d), Entry("wet_room_kinds", d.rows, r))
             c == When(AnswersQuestion(p, d), Entry("wet_room_questions", 0, r))
  <2>1. \A f \in {"wet_rooms", "wet_room_kinds", "wet_room_questions"}, v \in Int \cup Authors, w \in BOOLEAN :
          LET t == When(w, Entry(f, v, r))
          IN  t \in Seq(LogEntries) /\ \A i \in 1 .. Len(t) : t[i].field \notin PreferenceFields
    <3> TAKE f \in {"wet_rooms", "wet_room_kinds", "wet_room_questions"}, v \in Int \cup Authors, w \in BOOLEAN
    <3>1. Entry(f, v, r) \in LogEntries /\ Entry(f, v, r).field \notin PreferenceFields
      BY DEF Entry, LogEntries, LogFields, PreferenceFields
    <3> QED
      BY <3>1 DEF When
  <2>2. d.wet \in Int \cup Authors /\ d.rows \in Int \cup Authors /\ 0 \in Int \cup Authors
    BY MaxWetAssumption DEF Changes, Counts, Keep, Unstated, Authors
  <2>3. ChangesWet(p, d) \in BOOLEAN /\ ChangesRows(p, d) \in BOOLEAN /\ AnswersQuestion(p, d) \in BOOLEAN
    BY DEF ChangesWet, ChangesRows, AnswersQuestion
  <2>4. /\ a \in Seq(LogEntries) /\ \A i \in 1 .. Len(a) : a[i].field \notin PreferenceFields
        /\ b \in Seq(LogEntries) /\ \A i \in 1 .. Len(b) : b[i].field \notin PreferenceFields
        /\ c \in Seq(LogEntries) /\ \A i \in 1 .. Len(c) : c[i].field \notin PreferenceFields
    BY <2>1, <2>2, <2>3
  <2>5. more = a \o b \o c
    BY DEF RequirementEntries
  <2> HIDE DEF a, b, c, more
  <2>6. \A i \in 1 .. Len(a \o b) : (a \o b)[i].field \notin PreferenceFields
    BY <2>4
  <2>7. a \o b \in Seq(LogEntries)
    BY <2>4
  <2> DEFINE ab == a \o b
  <2> HIDE DEF ab
  <2>8. \A i \in 1 .. Len(ab \o c) : (ab \o c)[i].field \notin PreferenceFields
    BY <2>4, <2>6, <2>7 DEF ab
  <2> QED
    BY <2>5, <2>8 DEF ab
<1>3. q.log = log \o PreferenceEntries(d, r)
  BY DEF ApplyDiff, Projects
<1> HIDE DEF more, q
<1>4. \A id, s \in Requests : LeftBy(log, id, s) <=> LeftBy(p.log, id, s)
  BY <1>1, <1>2, LeftAfterOthers
<1> HIDE DEF log
<1> QED
  BY <1>1, <1>3, <1>4, ExplainedByEntry DEF q

LEMMA RollBackExplained ==
  ASSUME NEW p \in Projects, Explained(p), NEW v \in Nat, NEW d, NEW r \in Requests
  PROVE  Explained(RollBack(p, v, d, r))
<1> DEFINE e == Entry("active_design_version_id", v, r)
           q == RollBack(p, v, d, r)
<1>1. e \in LogEntries /\ e.field \notin PreferenceFields
  BY DEF Entry, LogEntries, LogFields, PreferenceFields
<1>2. q.prefs = p.prefs /\ q.log = Append(p.log, e) /\ p.log \in Seq(LogEntries)
  BY DEF RollBack, Show, Projects
<1> HIDE DEF e, q
<1>3. Append(p.log, e) = p.log \o <<e>> /\ <<e>> \in Seq(LogEntries) /\ \A i \in 1 .. Len(<<e>>) : <<e>>[i] = e
  BY <1>1, <1>2
<1> DEFINE more == <<e>>
<1>4. more \in Seq(LogEntries) /\ \A i \in 1 .. Len(more) : more[i].field \notin PreferenceFields
  BY <1>1, <1>3
<1> HIDE DEF more
<1>5. \A id, s \in Requests : LeftBy(p.log \o more, id, s) <=> LeftBy(p.log, id, s)
  BY <1>2, <1>4, LeftAfterOthers
<1>6. q.log = p.log \o more
  BY <1>2, <1>3 DEF more
<1> QED
  BY <1>2, <1>5, <1>6 DEF Explained, q

TrailInv == Explained(project) /\ \A r \in Requests : Explained(base[r])

LEMMA TrailStep ==
  ASSUME HInv, TrailInv, NEW r \in Requests, Explained(project'), NEW p, Explained(p),
         base' = [base EXCEPT ![r] = p]
  PROVE  TrailInv'
<1>1. \A s \in Requests : base'[s] = IF s = r THEN p ELSE base[s]
  BY DEF HInv, TypeOK
<1> QED
  BY <1>1 DEF TrailInv, Explained

(* What one handler's step stores, and the copy it is left with.            *)
LEMMA TrailHandle == ASSUME HInv, TrailInv, NEW r \in Requests, Handle(r) PROVE TrailInv'
<1>1. Explained(project) /\ Explained(base[r]) /\ Explained(NewProject) /\ base[r] \in Projects
  BY ExplainedOfNew, StoredTypes DEF TrailInv
<1>2. CASE Settings(r) \/ SendMessage(r) \/ ConfirmProposal(r) \/ CancelProposal(r)
           \/ GenerateDesign(r) \/ EditDesign(r) \/ ParseRequirements(r) \/ Review(r)
           \/ SaveProposal(r) \/ Reply(r) \/ MarkConsumed(r) \/ Execute(r) \/ GenerationFails(r)
  <2>1. project' = project /\ \E p \in {project, NewProject} : base' = [base EXCEPT ![r] = p]
    BY <1>2 DEF Settings, Patch, ActivateVersion, SendMessage, ConfirmProposal, CancelProposal,
                GenerateDesign, EditDesign, ParseRequirements, Review, SaveProposal, Reply, MarkConsumed,
                Execute, GenerationFails, ReadForUpdate, ReadForRollback, LookUp, Return, Ends, Holds, stored
  <2> QED
    BY <1>1, <2>1, TrailStep
<1>3. CASE StoreVersion(r)
  <2>1. project' = project /\ base' = [base EXCEPT ![r] = base[r]]
    BY <1>3 DEF StoreVersion, Holds
  <2> QED
    BY <1>1, <2>1, TrailStep
<1>4. CASE Persist(r) \/ Mirror(r) \/ Activate(r) \/ SetDesignModel(r) \/ SaveParsed(r) \/ SaveReview(r)
  <2>1. \E p \in {project', NewProject} : base' = [base EXCEPT ![r] = p]
    BY <1>4 DEF Persist, Mirror, Activate, SetDesignModel, SaveParsed, SaveReview, Return, Ends, Holds
  <2>2. Explained(project')
    <3>1. CASE Persist(r)
      <4>1. ValidDiff(base[r], change[r]) /\ change[r] \in Changes
        BY <3>1 DEF Persist, HInv, Carries, TypeOK
      <4>2. Explained(ApplyDiff(base[r], change[r], r))
        BY <1>1, <4>1, ApplyDiffExplained
      <4> QED
        BY <3>1, <4>2 DEF Persist
    <3>2. CASE Mirror(r)
      <4>1. project' = Show(base[r], change[r].version, r)
        BY <3>2 DEF Mirror
      <4>2. project'.prefs = base[r].prefs /\ project'.log = base[r].log
        BY <1>1, <4>1 DEF Show, Projects
      <4> QED
        BY <1>1, <4>2 DEF Explained
    <3>3. CASE Activate(r)
      <4>1. change[r].version \in Nat
        BY DEF HInv, TypeOK, Changes
      <4> QED
        BY <1>1, <3>3, <4>1, RollBackExplained DEF Activate
    <3>4. CASE SetDesignModel(r) \/ SaveParsed(r) \/ SaveReview(r)
      <4>1. project'.prefs = project.prefs /\ project'.log = project.log
        BY <3>4, StoredTypes DEF SetDesignModel, SaveParsed, SaveReview, SetParsed, Projects
      <4> QED
        BY <1>1, <4>1 DEF Explained
    <3> QED
      BY <1>4, <3>1, <3>2, <3>3, <3>4
  <2> QED
    BY <1>1, <2>1, <2>2, TrailStep
<1> QED
  BY <1>2, <1>3, <1>4 DEF Handle, Update, Settings, Chat, Design, Requirements

(* The audit trail and the preferences are stored together, and every copy  *)
(* a handler writes back carries both: whatever concurrent writers          *)
(* overwrite, the last entry about a preference is what is stored of it.    *)
THEOREM TrailExplainsPreferences == Spec => []LogExplainsPreferences
<1>1. Init => TrailInv
  BY ExplainedOfNew DEF Init, TrailInv
<1>2. HInv /\ TrailInv /\ [Next]_vars => (HInv /\ TrailInv)'
  <2> SUFFICES ASSUME HInv, TrailInv, [Next]_vars PROVE TrailInv'
    BY HInvNext
  <2>1. CASE Crash
    BY <2>1, ExplainedOfNew DEF Crash, stored, TrailInv, Explained
  <2>2. CASE UNCHANGED vars
    BY <2>2 DEF vars, TrailInv, Explained
  <2> QED
    BY <2>1, <2>2, TrailHandle DEF Next, Served
<1>3. TrailInv => LogExplainsPreferences
  BY DEF TrailInv, LogExplainsPreferences
<1> QED
  BY HInvInit, <1>1, <1>2, <1>3, PTL DEF Spec

-----------------------------------------------------------------------------
(***************************************************************************)
(* Who left what behind: a refused request left nothing, and a confirmed   *)
(* change is never there while its proposal can still be confirmed.  A     *)
(* request that has written nothing yet is nowhere: neither in the stores, *)
(* nor in what any handler holds and may still write back.                 *)
(***************************************************************************)
Unwritten == {"idle", "consume", "apply", "refused"}

Unsigned(log, r) == \A i \in 1 .. Len(log) : log[i].by # r
Unmarked(p, r)   == p.design # r /\ p.rowsBy # r /\ Unsigned(p.log, r)

Clean(r) ==
  /\ Unmarked(project, r)
  /\ \A s \in Requests : Unmarked(base[s], r) /\ change[s].rowsBy # r
  /\ \A i \in 1 .. Len(versions) : versions[i].design # r
  /\ proposal.id # r /\ proposal.change.rowsBy # r

Untouched == \A r \in Requests : pc[r] \in Unwritten => Clean(r)

-----------------------------------------------------------------------------
(* Data.                                                                    *)
LEMMA NewIsUnmarked ==
  ASSUME NEW r \in Requests
  PROVE  /\ Unmarked(NewProject, r) /\ NoChange.rowsBy # r
         /\ NoProposal.id # r /\ NoProposal.change.rowsBy # r
BY NoneAssumption DEF Unmarked, Unsigned, NewProject, NoChange, NoProposal

LEMMA UnsignedConcat ==
  ASSUME NEW a \in Seq(LogEntries), NEW b \in Seq(LogEntries), NEW r, Unsigned(a, r), Unsigned(b, r)
  PROVE  Unsigned(a \o b, r)
BY DEF Unsigned

LEMMA UnsignedWhen ==
  ASSUME NEW c \in BOOLEAN, NEW e \in LogEntries, NEW r, e.by # r
  PROVE  Unsigned(When(c, e), r)
BY DEF Unsigned, When

LEMMA UnsignedEntries ==
  ASSUME NEW p \in Projects, NEW d \in Changes, NEW s \in Requests, NEW r \in Requests, r # s
  PROVE  Unsigned(RequirementEntries(p, d, s), r) /\ Unsigned(PreferenceEntries(d, s), r)
<1>1. \A f \in LogFields, v \in Int \cup Authors, c \in BOOLEAN :
        /\ When(c, Entry(f, v, s)) \in Seq(LogEntries)
        /\ Unsigned(When(c, Entry(f, v, s)), r)
  <2> SUFFICES ASSUME NEW f \in LogFields, NEW v \in Int \cup Authors, NEW c \in BOOLEAN
               PROVE  /\ When(c, Entry(f, v, s)) \in Seq(LogEntries)
                      /\ Unsigned(When(c, Entry(f, v, s)), r)
    OBVIOUS
  <2>1. Entry(f, v, s) \in LogEntries /\ Entry(f, v, s).by = s
    BY DEF Entry, LogEntries
  <2> QED
    BY <2>1, WhenType, UnsignedWhen
<1>2. d.wet \in Int \cup Authors /\ d.rows \in Int \cup Authors /\ d.pref \in Int \cup Authors
      /\ 0 \in Int \cup Authors /\ s \in Int \cup Authors
  BY MaxWetAssumption DEF Changes, Counts, Keep, Unstated, Authors
<1>3. /\ ChangesWet(p, d) \in BOOLEAN /\ ChangesRows(p, d) \in BOOLEAN
      /\ AnswersQuestion(p, d) \in BOOLEAN
  BY DEF ChangesWet, ChangesRows, AnswersQuestion
<1>4. Unsigned(RequirementEntries(p, d, s), r)
  <2> DEFINE a == When(ChangesWet(p, d), Entry("wet_rooms", d.wet, s))
             b == When(ChangesRows(p, d), Entry("wet_room_kinds", d.rows, s))
             c == When(AnswersQuestion(p, d), Entry("wet_room_questions", 0, s))
  <2>1. /\ a \in Seq(LogEntries) /\ b \in Seq(LogEntries) /\ c \in Seq(LogEntries)
        /\ Unsigned(a, r) /\ Unsigned(b, r) /\ Unsigned(c, r)
    BY <1>1, <1>2, <1>3 DEF LogFields
  <2>2. RequirementEntries(p, d, s) = (a \o b) \o c
    BY DEF RequirementEntries
  <2> HIDE DEF a, b, c
  <2>3. a \o b \in Seq(LogEntries) /\ Unsigned(a \o b, r)
    BY <2>1, UnsignedConcat
  <2> QED
    BY <2>1, <2>2, <2>3, UnsignedConcat
<1>5. Unsigned(PreferenceEntries(d, s), r)
  <2> DEFINE a == When(d.prefOp = "add", Entry("preferences.add", s, s))
             b == When(d.prefOp = "update", Entry("preferences.update", d.pref, s))
             c == When(d.prefOp = "remove", Entry("preferences.remove", d.pref, s))
  <2>1. /\ a \in Seq(LogEntries) /\ b \in Seq(LogEntries) /\ c \in Seq(LogEntries)
        /\ Unsigned(a, r) /\ Unsigned(b, r) /\ Unsigned(c, r)
    BY <1>1, <1>2 DEF LogFields
  <2>2. PreferenceEntries(d, s) = (a \o b) \o c
    BY DEF PreferenceEntries
  <2> HIDE DEF a, b, c
  <2>3. a \o b \in Seq(LogEntries) /\ Unsigned(a \o b, r)
    BY <2>1, UnsignedConcat
  <2> QED
    BY <2>1, <2>2, <2>3, UnsignedConcat
<1> QED
  BY <1>4, <1>5

LEMMA UnmarkedApplyDiff ==
  ASSUME NEW p \in Projects, NEW d \in Changes, NEW s \in Requests, NEW r \in Requests, r # s,
         ValidDiff(p, d), Unmarked(p, r), d.rowsBy # r
  PROVE  Unmarked(ApplyDiff(p, d, s), r)
<1> DEFINE q == ApplyDiff(p, d, s)
<1>1. q.design = p.design
  BY ApplyDiffType
<1>2. q.rowsBy = (IF d.rows = Keep THEN p.rowsBy ELSE d.rowsBy)
      /\ q.log = p.log \o RequirementEntries(p, d, s) \o PreferenceEntries(d, s)
  BY DEF ApplyDiff, Projects
<1> HIDE DEF q
<1>3. /\ RequirementEntries(p, d, s) \in Seq(LogEntries) /\ PreferenceEntries(d, s) \in Seq(LogEntries)
      /\ p.log \in Seq(LogEntries)
  BY LogType DEF Projects
<1>4. Unsigned(p.log \o RequirementEntries(p, d, s), r)
      /\ p.log \o RequirementEntries(p, d, s) \in Seq(LogEntries)
  BY <1>3, UnsignedEntries, UnsignedConcat DEF Unmarked
<1>5. Unsigned((p.log \o RequirementEntries(p, d, s)) \o PreferenceEntries(d, s), r)
  <2>1. Unsigned(PreferenceEntries(d, s), r)
    BY UnsignedEntries
  <2> QED
    BY <1>3, <1>4, <2>1, UnsignedConcat
<1> QED
  BY <1>1, <1>2, <1>5 DEF Unmarked, q

LEMMA UnmarkedRollBack ==
  ASSUME NEW p \in Projects, NEW v \in Nat, NEW d \in Authors, NEW s \in Requests, NEW r \in Requests,
         r # s, Unmarked(p, r), d # r
  PROVE  Unmarked(RollBack(p, v, d, s), r)
<1> DEFINE e == Entry("active_design_version_id", v, s)
<1>1. e \in LogEntries /\ e.by # r
  BY DEF Entry, LogEntries, LogFields
<1>2. RollBack(p, v, d, s).design = d
  BY RollBackType
<1>3. RollBack(p, v, d, s).rowsBy = p.rowsBy /\ RollBack(p, v, d, s).log = Append(p.log, e)
  BY DEF RollBack, Show, Projects
<1> HIDE DEF e
<1>4. p.log \in Seq(LogEntries)
  BY DEF Projects
<1>5. Unsigned(Append(p.log, e), r)
  BY <1>1, <1>4 DEF Unmarked, Unsigned
<1> QED
  BY <1>2, <1>3, <1>5 DEF Unmarked

(* The author that the diffs of Settings and of proposals name.             *)
LEMMA DiffsAreSigned ==
  /\ \A w, n, by : WetDiff(w, n, by).rowsBy = by
  /\ \A o, q : PreferenceDiff(o, q).rowsBy = None
  /\ \A v : ToVersion(v).rowsBy = None
BY DEF WetDiff, PreferenceDiff, ToVersion, NoChange

LEMMA SettingsAreSigned ==
  ASSUME NEW s, NEW d \in SettingsDiffs(s) PROVE d.rowsBy \in {None, s, project.rowsBy}
<1>1. \/ \E w : d = WetDiff(w, Keep, None)
      \/ \E w, n : d = WetDiff(w, n, IF n = 0 THEN None ELSE s)
      \/ d = WetDiff(Keep, project.rows, project.rowsBy)
      \/ \E o, q : d = PreferenceDiff(o, q)
  BY DEF SettingsDiffs
<1> QED
  BY <1>1, DiffsAreSigned

LEMMA OffersAreSigned ==
  ASSUME NEW s, NEW p, NEW n, NEW d \in Offers(s, p, n) PROVE d.rowsBy \in {None, s}
<1>1. \/ \E w : d = WetDiff(w, Keep, None)
      \/ \E m : d = WetDiff(Keep, m, s)
      \/ \E o, q : d = PreferenceDiff(o, q)
      \/ \E v : d = ToVersion(v)
  BY DEF Offers
<1> QED
  BY <1>1, DiffsAreSigned

-----------------------------------------------------------------------------
(* The step of one handler s leaves r nowhere.                              *)
LEMMA CleanStep ==
  ASSUME HInv, NEW s \in Requests, NEW r \in Requests, Clean(r),
         NEW at, NEW d, NEW p, Holds(s, at, d, p), Unmarked(p, r), d.rowsBy # r,
         Unmarked(project', r), \A i \in 1 .. Len(versions') : versions'[i].design # r,
         proposal'.id # r, proposal'.change.rowsBy # r
  PROVE  Clean(r)'
<1>1. ASSUME NEW q \in Requests PROVE (Unmarked(base[q], r) /\ change[q].rowsBy # r)'
  <2>1. base'[q] = (IF q = s THEN p ELSE base[q]) /\ change'[q] = (IF q = s THEN d ELSE change[q])
    BY DEF Holds, HInv, TypeOK
  <2> QED
    BY <2>1 DEF Clean, Unmarked
<1> QED
  BY <1>1 DEF Clean, Unmarked

(* A step that stores nothing and holds the project or nothing.             *)
LEMMA CleanQuietStep ==
  ASSUME HInv, NEW s \in Requests, NEW r \in Requests, Clean(r), UNCHANGED stored,
         NEW at, NEW d, NEW p \in {project, NewProject}, Holds(s, at, d, p), d.rowsBy # r
  PROVE  Clean(r)'
<1>1. Unmarked(p, r) /\ Unmarked(project', r)
  BY NewIsUnmarked DEF Clean, stored
<1> HIDE DEF HInv
<1> QED
  BY <1>1, CleanStep DEF Clean, stored

(* The handler is someone else's, or r's own that writes nothing yet.       *)
Harmless(s, r) == r # s \/ pc'[s] \in Unwritten

LEMMA HoldsAt ==
  ASSUME HInv, NEW s \in Requests, NEW at, NEW d, NEW p, Holds(s, at, d, p)
  PROVE  pc'[s] = at
BY DEF HInv, TypeOK, Holds

LEMMA CleanEnds ==
  ASSUME HInv, NEW s \in Requests, NEW r \in Requests, Clean(r), UNCHANGED stored, NEW how, Ends(s, how)
  PROVE  Clean(r)'
<1> HIDE DEF HInv
<1> QED
  BY NewIsUnmarked, CleanQuietStep DEF Ends

LEMMA CleanReadForUpdate ==
  ASSUME HInv, NEW s \in Requests, NEW r \in Requests, Clean(r), NEW d, NEW how,
         ReadForUpdate(s, d, how), pc'[s] = "persist" => d.rowsBy # r, how # "persist"
  PROVE  Clean(r)'
<1>1. UNCHANGED stored
  BY DEF ReadForUpdate
<1>2. CASE Holds(s, "persist", d, project)
  <2>1. d.rowsBy # r
    BY <1>2, HoldsAt
  <2> HIDE DEF HInv
  <2> QED
    BY <1>1, <1>2, <2>1, CleanQuietStep
<1>3. CASE Ends(s, how)
  BY <1>1, <1>3, CleanEnds
<1> QED
  BY <1>2, <1>3 DEF ReadForUpdate

LEMMA CleanReadForRollback ==
  ASSUME HInv, NEW s \in Requests, NEW r \in Requests, Clean(r), NEW v, ReadForRollback(s, v)
  PROVE  Clean(r)'
<1>1. UNCHANGED stored
  BY DEF ReadForRollback
<1>2. CASE Holds(s, "activate", ToVersion(v), project)
  <2>1. ToVersion(v).rowsBy # r
    BY NoneAssumption DEF ToVersion, NoChange
  <2> HIDE DEF HInv
  <2> QED
    BY <1>1, <1>2, <2>1, CleanQuietStep
<1>3. CASE Ends(s, "refused")
  BY <1>1, <1>3, CleanEnds
<1> QED
  BY <1>2, <1>3 DEF ReadForRollback

LEMMA CleanPersist ==
  ASSUME HInv, NEW s \in Requests, NEW r \in Requests, Clean(r), Persist(s), Harmless(s, r)
  PROVE  Clean(r)'
<1> DEFINE q == ApplyDiff(base[s], change[s], s)
<1>1. /\ ValidDiff(base[s], change[s]) /\ base[s] \in Projects /\ change[s] \in Changes
  BY DEF Persist, HInv, Carries, TypeOK
<1>2. \E at \in {"generate", "reply", "done"}, p \in {q, NewProject} : Holds(s, at, NoChange, p)
  BY DEF Persist, Return, Ends
<1>3. r # s
  BY <1>2, HoldsAt DEF Harmless, Unwritten
<1>4. UNCHANGED <<versions, proposal>> /\ project' = q
  BY DEF Persist
<1>5. Unmarked(base[s], r) /\ change[s].rowsBy # r
  BY DEF Clean
<1> HIDE DEF HInv, q
<1>6. Unmarked(q, r)
  BY <1>1, <1>3, <1>5, UnmarkedApplyDiff DEF q
<1> QED
  BY <1>2, <1>4, <1>6, NewIsUnmarked, CleanStep DEF Clean

LEMMA CleanStoreVersion ==
  ASSUME HInv, NEW s \in Requests, NEW r \in Requests, Clean(r), StoreVersion(s), Harmless(s, r)
  PROVE  Clean(r)'
<1> DEFINE d == ToVersion(Len(versions) + 1)
<1>1. Holds(s, "mirror", d, base[s]) /\ UNCHANGED <<project, proposal>>
  BY DEF StoreVersion
<1>2. r # s
  BY <1>1, HoldsAt DEF Harmless, Unwritten
<1>3. d.rowsBy # r
  BY NoneAssumption DEF ToVersion, NoChange
<1>4. \A i \in 1 .. Len(versions') : versions'[i].design # r
  <2>1. versions' = Append(versions, NewVersion(base[s], s)) /\ NewVersion(base[s], s).design = s
        /\ versions \in Seq(Versions)
    BY DEF StoreVersion, NewVersion, HInv, TypeOK
  <2> QED
    BY <1>2, <2>1 DEF Clean
<1> HIDE DEF HInv, d
<1> QED
  BY <1>1, <1>3, <1>4, CleanStep DEF Clean

LEMMA CleanShow ==
  ASSUME HInv, NEW s \in Requests, NEW r \in Requests, Clean(r), Mirror(s) \/ Activate(s), Harmless(s, r)
  PROVE  Clean(r)'
<1> DEFINE v == change[s].version
<1>1. /\ base[s] \in Projects /\ v \in 1 .. Len(versions) /\ v \in Nat
      /\ Mirror(s) => versions[v].design = s
  BY DEF Mirror, Activate, HInv, Carries, TypeOK
<1>2. Ends(s, "reply") \/ Ends(s, "done")
  BY DEF Mirror, Activate, Return
<1>3. r # s
  BY <1>2, HoldsAt DEF Ends, Harmless, Unwritten
<1>4. UNCHANGED <<versions, proposal>>
  BY DEF Mirror, Activate
<1>5. Unmarked(base[s], r) /\ versions[v].design # r /\ versions[v].design \in Authors
  <2>1. versions[v] \in Versions
    BY <1>1, StoredTypes
  <2> QED
    BY <1>1, <2>1 DEF Clean, Versions, Authors
<1>6. Unmarked(project', r)
  <2>1. CASE Mirror(s)
    BY <1>1, <1>3, <1>5, <2>1 DEF Mirror, Show, Unmarked, Projects
  <2>2. CASE Activate(s)
    BY <1>1, <1>3, <1>5, <2>2, UnmarkedRollBack DEF Activate
  <2> QED
    BY <2>1, <2>2
<1> HIDE DEF HInv
<1> QED
  BY <1>2, <1>4, <1>6, NewIsUnmarked, CleanStep DEF Clean, Ends

LEMMA CleanSettings ==
  ASSUME HInv, NEW s \in Requests, NEW r \in Requests, Clean(r), Settings(s), Harmless(s, r)
  PROVE  Clean(r)'
<1>1. CASE Patch(s)
  <2>1. PICK d \in SettingsDiffs(s) : ReadForUpdate(s, d, "refused")
    BY <1>1 DEF Patch
  <2>2. r # s => d.rowsBy # r
    BY NoneAssumption, SettingsAreSigned DEF Clean, Unmarked
  <2>3. pc'[s] = "persist" => d.rowsBy # r
    BY <2>2 DEF Harmless, Unwritten
  <2> HIDE DEF HInv
  <2> QED
    BY <2>1, <2>3, CleanReadForUpdate
<1>2. CASE ActivateVersion(s)
  <2>1. PICK v \in 1 .. Len(versions) + 1 : ReadForRollback(s, v)
    BY <1>2 DEF ActivateVersion
  <2> HIDE DEF HInv
  <2> QED
    BY <2>1, CleanReadForRollback
<1> QED
  BY <1>1, <1>2 DEF Settings

LEMMA CleanExecute ==
  ASSUME HInv, NEW s \in Requests, NEW r \in Requests, Clean(r), Execute(s)
  PROVE  Clean(r)'
<1>1. change[s].rowsBy # r
  BY DEF Clean
<1>2. ReadForRollback(s, change[s].version) \/ ReadForUpdate(s, change[s], "failed")
  BY DEF Execute
<1> HIDE DEF HInv
<1> QED
  BY <1>1, <1>2, CleanReadForUpdate, CleanReadForRollback

LEMMA CleanSendMessage ==
  ASSUME HInv, NEW s \in Requests, NEW r \in Requests, Clean(r), SendMessage(s), Harmless(s, r)
  PROVE  Clean(r)'
<1>1. UNCHANGED stored
  BY DEF SendMessage
<1>2. CASE \E d \in Offers(s, project, Len(versions)) : Holds(s, "offer", d, NewProject)
  <2>1. PICK d \in Offers(s, project, Len(versions)) : Holds(s, "offer", d, NewProject)
    BY <1>2
  <2>2. r # s
    BY <2>1, HoldsAt DEF Harmless, Unwritten
  <2>3. d.rowsBy # r
    BY <2>2, NoneAssumption, OffersAreSigned
  <2> HIDE DEF HInv
  <2> QED
    BY <1>1, <2>1, <2>3, CleanQuietStep
<1>3. CASE Ends(s, "reply") \/ Ends(s, "refused")
  BY <1>1, <1>3, CleanEnds
<1> QED
  BY <1>2, <1>3 DEF SendMessage

LEMMA CleanSaveProposal ==
  ASSUME HInv, NEW s \in Requests, NEW r \in Requests, Clean(r), SaveProposal(s), Harmless(s, r)
  PROVE  Clean(r)'
<1>1. Holds(s, "reply", change[s], NewProject) /\ UNCHANGED <<project, versions>>
  BY DEF SaveProposal
<1>2. r # s
  BY <1>1, HoldsAt DEF Harmless, Unwritten
<1>3. change[s].rowsBy # r /\ proposal'.id # r /\ proposal'.change.rowsBy # r
  BY <1>2 DEF SaveProposal, Clean
<1> HIDE DEF HInv
<1> QED
  BY <1>1, <1>3, NewIsUnmarked, CleanStep DEF Clean

LEMMA CleanReply ==
  ASSUME HInv, NEW s \in Requests, NEW r \in Requests, Clean(r), Reply(s)
  PROVE  Clean(r)'
<1>1. Ends(s, "done") /\ UNCHANGED <<project, versions, proposal>>
  BY DEF Reply
<1> HIDE DEF HInv
<1> QED
  BY <1>1, NewIsUnmarked, CleanStep DEF Clean, Ends

LEMMA CleanLookUp ==
  ASSUME HInv, NEW s \in Requests, NEW r \in Requests, Clean(r), ConfirmProposal(s) \/ CancelProposal(s)
  PROVE  Clean(r)'
<1>1. PICK p \in Offered, next \in {"consume", "cancel"} : LookUp(s, p, next)
  BY DEF ConfirmProposal, CancelProposal
<1>2. UNCHANGED stored /\ proposal.change.rowsBy # r
  BY <1>1 DEF LookUp, Clean
<1>3. Holds(s, next, proposal.change, NewProject) \/ Ends(s, "refused")
  BY <1>1 DEF LookUp
<1> HIDE DEF HInv
<1> QED
  BY <1>2, <1>3, CleanQuietStep, CleanEnds

LEMMA CleanMarkConsumed ==
  ASSUME HInv, NEW s \in Requests, NEW r \in Requests, Clean(r), MarkConsumed(s)
  PROVE  Clean(r)'
<1>1. UNCHANGED <<project, versions>> /\ change[s].rowsBy # r
  BY DEF MarkConsumed, Clean
<1>2. proposal'.id # r /\ proposal'.change.rowsBy # r
  BY DEF MarkConsumed, Consumed, Clean, HInv, TypeOK, Proposals
<1>3. Holds(s, "reply", NoChange, NewProject) \/ Ends(s, "reply") \/ Holds(s, "apply", change[s], NewProject)
  BY DEF MarkConsumed
<1> HIDE DEF HInv
<1> QED
  BY <1>1, <1>2, <1>3, NewIsUnmarked, CleanStep DEF Clean, Ends

LEMMA CleanDesign ==
  ASSUME HInv, NEW s \in Requests, NEW r \in Requests, Clean(r), Design(s), Harmless(s, r)
  PROVE  Clean(r)'
<1>1. CASE GenerateDesign(s) \/ EditDesign(s)
  <2>1. UNCHANGED stored /\ \E at : Holds(s, at, NoChange, NewProject)
    BY <1>1 DEF GenerateDesign, EditDesign, Ends
  <2> HIDE DEF HInv
  <2> QED
    BY <2>1, NewIsUnmarked, CleanQuietStep
<1>2. CASE SetDesignModel(s)
  <2>1. Ends(s, "done") /\ UNCHANGED <<versions, proposal>>
    BY <1>2 DEF SetDesignModel
  <2>2. r # s
    BY <2>1, HoldsAt DEF Ends, Harmless, Unwritten
  <2>3. Unmarked(project', r)
    BY <1>2, <2>2 DEF SetDesignModel, Clean, Unmarked, HInv, TypeOK, Projects
  <2> HIDE DEF HInv
  <2> QED
    BY <2>1, <2>3, NewIsUnmarked, CleanStep DEF Clean, Ends
<1> QED
  BY <1>1, <1>2 DEF Design

LEMMA CleanRequirements ==
  ASSUME HInv, NEW s \in Requests, NEW r \in Requests, Clean(r), Requirements(s), Harmless(s, r)
  PROVE  Clean(r)'
<1>1. CASE ParseRequirements(s)
  <2>1. UNCHANGED stored /\ \E at : Holds(s, at, NoChange, NewProject)
    BY <1>1 DEF ParseRequirements, Ends
  <2> HIDE DEF HInv
  <2> QED
    BY <2>1, NewIsUnmarked, CleanQuietStep
<1>2. CASE Review(s)
  <2>1. UNCHANGED stored
    BY <1>2 DEF Review
  <2>2. PICK w, n : LET outcome == Reviewed(project, WetDiff(w, n, IF n > 0 THEN s ELSE None))
                    IN  Holds(s, "review", outcome, NewProject) \/ Holds(s, "answer", outcome, NewProject)
                        \/ Ends(s, "refused")
    BY <1>2 DEF Review
  <2> DEFINE outcome == Reviewed(project, WetDiff(w, n, IF n > 0 THEN s ELSE None))
  <2>3. r # s => outcome.rowsBy # r
    BY NoneAssumption DEF Reviewed, WetDiff, NoChange, Clean, Unmarked
  <2> HIDE DEF HInv, outcome
  <2>4. CASE Ends(s, "refused")
    BY <2>1, <2>4, CleanEnds
  <2>5. CASE \E at \in {"review", "answer"} : Holds(s, at, outcome, NewProject)
    <3>1. r # s
      BY <2>5, HoldsAt DEF Harmless, Unwritten
    <3> QED
      BY <2>1, <2>3, <2>5, <3>1, CleanQuietStep
  <2> QED
    BY <2>2, <2>4, <2>5 DEF outcome
<1>3. CASE SaveParsed(s) \/ SaveReview(s)
  <2>1. Ends(s, "done") /\ UNCHANGED <<versions, proposal>>
    BY <1>3 DEF SaveParsed, SaveReview
  <2>2. r # s
    BY <2>1, HoldsAt DEF Ends, Harmless, Unwritten
  <2>3. project \in Projects /\ Unmarked(project, r) /\ change[s].rowsBy # r
    BY DEF HInv, TypeOK, Clean
  <2>4. project'.design = project.design /\ project'.log = project.log
        /\ project'.rowsBy \in {None, s, change[s].rowsBy, project.rowsBy}
    BY <1>3, <2>3 DEF SaveParsed, SaveReview, SetParsed, Projects
  <2>5. Unmarked(project', r)
    BY <2>2, <2>3, <2>4, NoneAssumption DEF Unmarked
  <2> HIDE DEF HInv
  <2> QED
    BY <2>1, <2>5, NewIsUnmarked, CleanStep DEF Clean, Ends
<1> QED
  BY <1>1, <1>2, <1>3 DEF Requirements

LEMMA CleanGenerationFails ==
  ASSUME HInv, NEW s \in Requests, NEW r \in Requests, Clean(r), GenerationFails(s)
  PROVE  Clean(r)'
<1>1. UNCHANGED stored /\ (Ends(s, "reply") \/ Ends(s, "failed"))
  BY DEF GenerationFails
<1> HIDE DEF HInv
<1> QED
  BY <1>1, CleanEnds

(* Whatever a handler does, a request that is someone else's, or its own    *)
(* and has nothing to show for it yet, stays nowhere.                       *)
LEMMA CleanKept ==
  ASSUME HInv, NEW s \in Requests, NEW r \in Requests, Clean(r), Handle(s), Harmless(s, r)
  PROVE  Clean(r)'
BY CleanPersist, CleanStoreVersion, CleanGenerationFails, CleanShow, CleanSettings, CleanSendMessage,
   CleanSaveProposal, CleanReply, CleanLookUp, CleanMarkConsumed, CleanExecute, CleanDesign,
   CleanRequirements
DEF Handle, Update, Chat

LEMMA CleanCrash == ASSUME HInv, NEW r \in Requests, Clean(r), Crash PROVE Clean(r)'
<1>1. /\ UNCHANGED stored
      /\ \A s \in Requests : base'[s] = NewProject /\ change'[s] = NoChange
  BY DEF Crash
<1> QED
  BY <1>1, NewIsUnmarked DEF Clean, Unmarked, stored

LEMMA CleanInit == ASSUME Init, NEW r \in Requests PROVE Clean(r)
BY NewIsUnmarked DEF Init, Clean

(* A handler reaches a step where it has written nothing only from one.     *)
LEMMA UnwrittenBefore ==
  ASSUME HInv, NEW s \in Requests, Handle(s), pc'[s] \in Unwritten
  PROVE  pc[s] \in Unwritten
<1>1. CASE pc[s] \in {"idle", "apply", "consume"}
  BY <1>1 DEF Unwritten
<1>2. CASE ~(pc[s] \in {"idle", "apply", "consume"})
  <2>1. Update(s) \/ SaveProposal(s) \/ Reply(s) \/ (MarkConsumed(s) /\ pc[s] = "cancel") \/ SetDesignModel(s)
        \/ SaveParsed(s) \/ SaveReview(s)
    BY <1>2 DEF Handle, Update, Settings, Chat, Design, Requirements, Patch, ActivateVersion, SendMessage,
                ConfirmProposal, CancelProposal, MarkConsumed, Execute, GenerateDesign, EditDesign,
                ParseRequirements, Review, CanEnter
  <2>2. \E at \in {"generate", "mirror", "reply", "done", "failed"} : \E d, p : Holds(s, at, d, p)
    <3>1. CASE Update(s)
      BY <3>1 DEF Update, Persist, StoreVersion, GenerationFails, Mirror, Activate, Return, Ends
    <3>2. CASE SaveProposal(s) \/ Reply(s) \/ (MarkConsumed(s) /\ pc[s] = "cancel") \/ SetDesignModel(s)
               \/ SaveParsed(s) \/ SaveReview(s)
      BY <3>2 DEF SaveProposal, Reply, MarkConsumed, SetDesignModel, SaveParsed, SaveReview, Ends
    <3> QED
      BY <2>1, <3>1, <3>2
  <2> QED
    BY <2>2, HoldsAt DEF Unwritten
<1> QED
  BY <1>1, <1>2

(* Only the handler of s moves s.                                           *)
LEMMA OthersStay ==
  ASSUME HInv, NEW s \in Requests, Handle(s), NEW r \in Requests, r # s
  PROVE  pc'[r] = pc[r] /\ call'[r] = call[r]
<1>1. \E at, d, p : Holds(s, at, d, p)
  <2>1. CASE Update(s)
    BY <2>1 DEF Update, Persist, StoreVersion, GenerationFails, Mirror, Activate, Return, Ends
  <2>2. CASE Settings(s)
    BY <2>2 DEF Settings, Patch, ActivateVersion, ReadForUpdate, ReadForRollback, Ends
  <2>3. CASE Chat(s)
    BY <2>3 DEF Chat, SendMessage, SaveProposal, Reply, ConfirmProposal, CancelProposal, LookUp,
                MarkConsumed, Execute, ReadForUpdate, ReadForRollback, Ends
  <2>4. CASE Design(s)
    BY <2>4 DEF Design, GenerateDesign, EditDesign, SetDesignModel, Ends
  <2>5. CASE Requirements(s)
    BY <2>5 DEF Requirements, ParseRequirements, SaveParsed, Review, SaveReview, Ends
  <2> QED
    BY <2>1, <2>2, <2>3, <2>4, <2>5 DEF Handle
<1>2. call' = call \/ \E op, p : Enters(s, op, p)
  <2>1. CASE Update(s)
    BY <2>1 DEF Update, Persist, StoreVersion, GenerationFails, Mirror, Activate
  <2>2. CASE Settings(s)
    BY <2>2 DEF Settings, Patch, ActivateVersion
  <2>3. CASE Chat(s)
    BY <2>3 DEF Chat, SendMessage, SaveProposal, Reply, ConfirmProposal, CancelProposal, MarkConsumed, Execute
  <2>4. CASE Design(s)
    BY <2>4 DEF Design, GenerateDesign, EditDesign, SetDesignModel
  <2>5. CASE Requirements(s)
    BY <2>5 DEF Requirements, ParseRequirements, SaveParsed, Review, SaveReview
  <2> QED
    BY <2>1, <2>2, <2>3, <2>4, <2>5 DEF Handle
<1>3. pc'[r] = pc[r]
  BY <1>1 DEF HInv, TypeOK, Holds
<1>4. call'[r] = call[r]
  BY <1>2 DEF HInv, TypeOK, Enters
<1> QED
  BY <1>3, <1>4

LEMMA UntouchedNext == HInv /\ Untouched /\ [Next]_vars => Untouched'
<1> SUFFICES ASSUME HInv, Untouched, [Next]_vars, NEW r \in Requests, pc'[r] \in Unwritten
             PROVE  Clean(r)'
  BY DEF Untouched
<1>1. ASSUME NEW s \in Requests, Handle(s) PROVE Clean(r)'
  <2>1. pc[r] \in Unwritten /\ Harmless(s, r)
    BY <1>1, UnwrittenBefore, OthersStay DEF Harmless
  <2> QED
    BY <1>1, <2>1, CleanKept DEF Untouched
<1>2. CASE Crash
  <2>1. pc[r] \in Unwritten
    BY <1>2 DEF Crash, Unwritten
  <2> QED
    BY <1>2, <2>1, CleanCrash DEF Untouched
<1>3. CASE UNCHANGED vars
  BY <1>3 DEF vars, stored, Untouched, Clean, Unmarked
<1> QED
  BY <1>1, <1>2, <1>3 DEF Next, Served

(* A request that was answered with a refusal left no audit entry, version, *)
(* design, rows or proposal, for any number of concurrent requests and      *)
(* crashes.                                                                 *)
THEOREM RefusalsLeaveNoTrace == Spec => []RefusedLeavesNoTrace
<1>1. Init => Untouched
  BY CleanInit DEF Untouched
<1>2. HInv /\ Untouched /\ [Next]_vars => (HInv /\ Untouched)'
  BY HInvNext, UntouchedNext
<1>3. Untouched => RefusedLeavesNoTrace
  BY DEF Untouched, Unwritten, Clean, Unmarked, Unsigned, RefusedLeavesNoTrace, Traces
<1> QED
  BY HInvInit, <1>1, <1>2, <1>3, PTL DEF Spec

-----------------------------------------------------------------------------
(* A request whose message offers something has stored its proposal and is  *)
(* over; so the id of a proposal that can be confirmed is never stored      *)
(* again.  And a confirmation that has passed mark_consumed finds its       *)
(* proposal consumed or replaced for good.                                  *)
Delivered == \A q \in Offered : pc[q] = "done"

Consumes == \A r, p \in Requests : Confirms(r, p) =>
  /\ p \in Offered
  /\ Pending(p) => pc[r] \in {"consume", "lost"} /\ Clean(r)

LEMMA OfferedGrows ==
  ASSUME NEW s \in Requests, Handle(s)
  PROVE  /\ ~Reply(s) => Offered' = Offered
         /\ Reply(s) => Offered \subseteq Offered' /\ Offered' \subseteq Offered \cup {s} /\ pc[s] = "reply"
<1>1. Reply(s) \/ conversation' = conversation
  BY DEF Handle, Update, Settings, Chat, Design, Requirements, Persist, StoreVersion, GenerationFails,
         Mirror, Activate, Patch, ActivateVersion, SendMessage, SaveProposal, ConfirmProposal,
         CancelProposal, LookUp, MarkConsumed, Execute, ReadForUpdate, ReadForRollback, GenerateDesign,
         EditDesign, SetDesignModel, ParseRequirements, SaveParsed, Review, SaveReview, stored
<1>2. conversation' = conversation => Offered' = Offered
  BY DEF Offered
<1>3. ASSUME Reply(s)
      PROVE  Offered \subseteq Offered' /\ Offered' \subseteq Offered \cup {s} /\ pc[s] = "reply"
  BY <1>3 DEF Reply, Offered
<1> QED
  BY <1>1, <1>2, <1>3

LEMMA DeliveredNext == HInv /\ Delivered /\ [Next]_vars => Delivered'
<1> SUFFICES ASSUME HInv, Delivered, [Next]_vars, NEW q \in Offered' PROVE pc'[q] = "done"
  BY DEF Delivered
<1>1. ASSUME NEW s \in Requests, Handle(s) PROVE pc'[q] = "done"
  <2>1. CASE Reply(s) /\ q = s
    BY <2>1, HoldsAt DEF Reply, Ends
  <2>2. CASE ~(Reply(s) /\ q = s)
    <3>1. q \in Offered /\ pc[q] = "done"
      BY <1>1, <2>2, OfferedGrows DEF Delivered
    <3>2. q \in Requests
      BY <3>1 DEF HInv, TypeOK, Messages, Offered
    <3>3. pc[s] # "done"
      BY <1>1 DEF Handle, Update, Settings, Chat, Design, Requirements, Persist, StoreVersion,
         GenerationFails, Mirror, Activate, Patch, ActivateVersion, SendMessage, SaveProposal, Reply,
         ConfirmProposal, CancelProposal, MarkConsumed, Execute, GenerateDesign, EditDesign,
         SetDesignModel, ParseRequirements, SaveParsed, Review, SaveReview, CanEnter
    <3> QED
      BY <1>1, <3>1, <3>2, <3>3, OthersStay
  <2> QED
    BY <2>1, <2>2
<1>2. CASE Crash
  <2>1. q \in Offered /\ q \in Requests
    BY <1>2 DEF Crash, stored, HInv, TypeOK, Messages, Offered
  <2> QED
    BY <1>2, <2>1 DEF Crash, Delivered, Running
<1>3. CASE UNCHANGED vars
  BY <1>3 DEF vars, stored, Delivered, Offered
<1> QED
  BY <1>1, <1>2, <1>3 DEF Next, Served

(* A proposal becomes pending only when it is stored.                       *)
LEMMA PendingAfter ==
  ASSUME HInv, NEW s \in Requests, Handle(s), NEW p \in Requests, Pending(p)'
  PROVE  (Pending(p) /\ (MarkConsumed(s) => p # call[s].proposal)) \/ (p = s /\ pc[s] = "offer")
<1>1. CASE SaveProposal(s)
  BY <1>1 DEF SaveProposal, Pending
<1>2. CASE MarkConsumed(s)
  BY <1>2 DEF MarkConsumed, Consumed, Pending, HInv, TypeOK, Proposals
<1>3. CASE ~SaveProposal(s) /\ ~MarkConsumed(s)
  <2>1. proposal' = proposal
    BY <1>3 DEF Handle, Update, Settings, Chat, Design, Requirements, Persist, StoreVersion, GenerationFails,
         Mirror, Activate, Patch, ActivateVersion, SendMessage, Reply, ConfirmProposal,
         CancelProposal, LookUp, Execute, ReadForUpdate, ReadForRollback, GenerateDesign,
         EditDesign, SetDesignModel, ParseRequirements, SaveParsed, Review, SaveReview, stored
  <2> QED
    BY <1>3, <2>1 DEF Pending
<1> QED
  BY <1>1, <1>2, <1>3

(* The handler of a request is called once: it enters, or its call stands.  *)
LEMMA EntersOrStands ==
  ASSUME HInv, NEW s \in Requests, Handle(s)
  PROVE  \/ call' = call /\ pc[s] \in Running
         \/ pc[s] = "idle" /\ ConfirmProposal(s)
         \/ call'[s].op # "confirm"
<1>1. CASE Update(s)
  BY <1>1 DEF Update, Persist, StoreVersion, GenerationFails, Mirror, Activate, Running
<1>2. CASE Settings(s)
  BY <1>2 DEF Settings, Patch, ActivateVersion, Enters, HInv, TypeOK
<1>3. CASE Chat(s)
  <2>1. CASE SendMessage(s) \/ CancelProposal(s)
    BY <2>1 DEF SendMessage, CancelProposal, Enters, HInv, TypeOK
  <2>2. CASE ConfirmProposal(s)
    BY <2>2 DEF ConfirmProposal, CanEnter
  <2>3. CASE SaveProposal(s) \/ Reply(s) \/ MarkConsumed(s) \/ Execute(s)
    BY <2>3 DEF SaveProposal, Reply, MarkConsumed, Execute, Running
  <2> QED
    BY <1>3, <2>1, <2>2, <2>3 DEF Chat
<1>4. CASE Design(s)
  BY <1>4 DEF Design, GenerateDesign, EditDesign, SetDesignModel, Enters, HInv, TypeOK, Running
<1>5. CASE Requirements(s)
  <2>1. CASE ParseRequirements(s) \/ Review(s)
    BY <2>1 DEF ParseRequirements, Review, Enters, HInv, TypeOK
  <2>2. CASE SaveParsed(s) \/ SaveReview(s)
    BY <2>2 DEF SaveParsed, SaveReview, Running
  <2> QED
    BY <1>5, <2>1, <2>2 DEF Requirements
<1> QED
  BY <1>1, <1>2, <1>3, <1>4, <1>5 DEF Handle

LEMMA ConfirmConsumes ==
  ASSUME HInv, Untouched, NEW s \in Requests, ConfirmProposal(s), NEW p \in Requests, Confirms(s, p)'
  PROVE  p \in Offered' /\ (Pending(p)' => pc'[s] \in {"consume", "lost"} /\ Clean(s)')
<1>1. pc[s] = "idle" /\ UNCHANGED stored
  BY DEF ConfirmProposal, CanEnter, LookUp
<1>2. PICK q \in Offered : Enters(s, "confirm", q) /\ LookUp(s, q, "consume")
  BY DEF ConfirmProposal
<1>3. q = p
  BY <1>2 DEF Confirms, Enters, HInv, TypeOK
<1>4. p \in Offered' /\ (Pending(p)' <=> Pending(p))
  BY <1>1, <1>2, <1>3 DEF Offered, Pending, stored
<1>5. Pending(p) => pc'[s] = "consume"
  BY <1>2, <1>3, HoldsAt DEF LookUp
<1>6. Clean(s)'
  BY <1>1, CleanLookUp DEF Untouched, Unwritten
<1> QED
  BY <1>4, <1>5, <1>6

LEMMA ConsumesStep ==
  ASSUME HInv, Untouched, Delivered, Consumes, NEW s \in Requests, Handle(s),
         NEW r \in Requests, NEW p \in Requests, Confirms(r, p)'
  PROVE  p \in Offered' /\ (Pending(p)' => pc'[r] \in {"consume", "lost"} /\ Clean(r)')
<1>1. CASE r = s /\ pc[s] = "idle" /\ ConfirmProposal(s)
  BY <1>1, ConfirmConsumes
<1>2. CASE r # s \/ (call' = call /\ pc[s] \in Running)
  <2>1. Confirms(r, p)
    BY <1>2, OthersStay DEF Confirms
  <2>2. p \in Offered /\ p \in Offered' /\ pc[p] = "done"
    BY <2>1, OfferedGrows DEF Consumes, Delivered
  <2>3. ASSUME Pending(p)' PROVE pc'[r] \in {"consume", "lost"} /\ Clean(r)'
    <3>1. Pending(p) /\ (MarkConsumed(s) => p # call[s].proposal)
      BY <2>2, <2>3, PendingAfter
    <3>2. pc[r] \in {"consume", "lost"} /\ Clean(r)
      BY <2>1, <3>1 DEF Consumes
    <3>3. r # s
      <4>1. SUFFICES ASSUME r = s PROVE FALSE
        OBVIOUS
      <4>2. pc[s] = "consume"
        BY <1>2, <3>2, <4>1 DEF Running
      <4>3. MarkConsumed(s)
        BY <4>2 DEF Handle, Update, Settings, Chat, Design, Requirements, Persist, StoreVersion,
         GenerationFails, Mirror, Activate, Patch, ActivateVersion, SendMessage, SaveProposal, Reply,
         ConfirmProposal, CancelProposal, Execute, GenerateDesign, EditDesign,
         SetDesignModel, ParseRequirements, SaveParsed, Review, SaveReview, CanEnter
      <4> QED
        BY <2>1, <3>1, <4>1, <4>3 DEF Confirms
    <3> QED
      BY <3>2, <3>3, OthersStay, CleanKept DEF Harmless
  <2> QED
    BY <2>2, <2>3
<1>3. CASE r = s /\ call'[s].op # "confirm"
  BY <1>3 DEF Confirms
<1> QED
  BY <1>1, <1>2, <1>3, EntersOrStands

LEMMA ConsumesNext == HInv /\ Untouched /\ Delivered /\ Consumes /\ [Next]_vars => Consumes'
<1> SUFFICES ASSUME HInv, Untouched, Delivered, Consumes, [Next]_vars,
                    NEW r \in Requests, NEW p \in Requests, Confirms(r, p)'
             PROVE  p \in Offered' /\ (Pending(p)' => pc'[r] \in {"consume", "lost"} /\ Clean(r)')
  BY DEF Consumes
<1>1. ASSUME NEW s \in Requests, Handle(s)
      PROVE  p \in Offered' /\ (Pending(p)' => pc'[r] \in {"consume", "lost"} /\ Clean(r)')
  BY <1>1, ConsumesStep
<1>2. CASE Crash
  <2>1. Confirms(r, p) /\ Offered' = Offered /\ (Pending(p)' <=> Pending(p))
    BY <1>2 DEF Crash, stored, Confirms, Offered, Pending
  <2>2. pc[r] \in {"consume", "lost"} => pc'[r] = "lost"
    BY <1>2 DEF Crash, Running
  <2> QED
    BY <1>2, <2>1, <2>2, CleanCrash DEF Consumes
<1>3. CASE UNCHANGED vars
  BY <1>3 DEF vars, stored, Consumes, Confirms, Offered, Pending, Clean, Unmarked
<1> QED
  BY <1>1, <1>2, <1>3 DEF Next, Served

(* A change that a confirmation made is never there while its proposal can  *)
(* be confirmed again, for any number of concurrent requests and crashes.   *)
THEOREM ConsumedFirst == Spec => []ConsumedBeforeApplied
<1>1. Init => Untouched /\ Delivered /\ Consumes
  <2>1. Init => Untouched
    BY CleanInit DEF Untouched
  <2>2. Init => Delivered /\ Consumes
    BY DEF Init, Delivered, Consumes, Offered, Confirms
  <2> QED
    BY <2>1, <2>2
<1>2. HInv /\ Untouched /\ Delivered /\ Consumes /\ [Next]_vars
        => (HInv /\ Untouched /\ Delivered /\ Consumes)'
  BY HInvNext, UntouchedNext, DeliveredNext, ConsumesNext
<1>3. Consumes => ConsumedBeforeApplied
  BY DEF Consumes, Clean, Unmarked, Unsigned, ConsumedBeforeApplied, Traces
<1> QED
  BY HInvInit, <1>1, <1>2, <1>3, PTL DEF Spec
=============================================================================
