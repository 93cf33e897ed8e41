------------------------ MODULE ProjectSerialProofs ------------------------
(***************************************************************************)
(* What holds when requests are served one at a time (InFlight = 1), for   *)
(* any number of them, any bound on the wet rooms and any number of        *)
(* crashes: the store is the append-only history of ProjectHistory, every  *)
(* version has an audit entry, a proposal is applied once, and only a      *)
(* change of the count leaves too many rows.                               *)
(*                                                                         *)
(* One at a time does not mean that a handler is one step: it stops at     *)
(* every repository call, and the process may die there.                   *)
(***************************************************************************)
EXTENDS ProjectServiceProofs, FiniteSetTheorems, SequenceTheorems

Alone == \A r, s \in Requests : pc[r] \in Running /\ pc[s] \in Running => r = s

Copying == {"persist", "generate", "mirror", "activate"}

(* The copy a handler holds is the project; what it mirrors is the newest;  *)
(* the proposal it is about to consume is pending.                          *)
Fresh == \A r \in Requests :
  /\ pc[r] \in Copying => base[r] = project
  /\ pc[r] = "mirror" => change[r].version = Len(versions)
  /\ pc[r] = "consume" => Pending(call[r].proposal)

SInv == HInv /\ Alone /\ Fresh

-----------------------------------------------------------------------------
(* Who acts is the only one at work.                                        *)
LEMMA NobodyRuns ==
  ASSUME InFlight = 1, Alone, NEW s \in Requests, NEW op, CanEnter(s, op)
  PROVE  \A r \in Requests : pc[r] \notin Running
<1> SUFFICES ASSUME NEW r \in Requests, pc[r] \in Running PROVE FALSE
  OBVIOUS
<1>1. {x \in Requests : pc[x] \in Running} = {r}
  BY DEF Alone
<1>2. Cardinality({x \in Requests : pc[x] \in Running}) = 1
  BY <1>1, FS_Singleton
<1> QED
  BY <1>2 DEF CanEnter

LEMMA RunsOrEnters ==
  ASSUME NEW s \in Requests, Handle(s)
  PROVE  pc[s] \in Running \/ \E op : CanEnter(s, op)
<1>1. CASE Update(s)
  BY <1>1 DEF Update, Persist, StoreVersion, GenerationFails, Mirror, Activate, Running
<1>2. CASE Settings(s)
  BY <1>2 DEF Settings, Patch, ActivateVersion
<1>3. CASE Chat(s)
  BY <1>3 DEF Chat, SendMessage, SaveProposal, Reply, ConfirmProposal, CancelProposal, MarkConsumed,
              Execute, Running
<1>4. CASE Design(s)
  BY <1>4 DEF Design, GenerateDesign, EditDesign, SetDesignModel, Running
<1>5. CASE Requirements(s)
  BY <1>5 DEF Requirements, ParseRequirements, SaveParsed, Review, SaveReview, Running
<1> QED
  BY <1>1, <1>2, <1>3, <1>4, <1>5 DEF Handle

LEMMA OthersRest ==
  ASSUME InFlight = 1, HInv, Alone, NEW s \in Requests, Handle(s), NEW r \in Requests, r # s
  PROVE  pc[r] \notin Running /\ pc'[r] \notin Running
<1>1. pc[r] \notin Running
  BY RunsOrEnters, NobodyRuns DEF Alone
<1> QED
  BY <1>1, OthersStay

LEMMA AloneNext == InFlight = 1 /\ HInv /\ Alone /\ [Next]_vars => Alone'
<1> SUFFICES ASSUME InFlight = 1, HInv, Alone, [Next]_vars PROVE Alone'
  OBVIOUS
<1>1. ASSUME NEW s \in Requests, Handle(s) PROVE Alone'
  BY <1>1, OthersRest DEF Alone
<1>2. CASE Crash
  BY <1>2 DEF Crash, Alone, Running
<1>3. CASE UNCHANGED vars
  BY <1>3 DEF vars, Alone
<1> QED
  BY <1>1, <1>2, <1>3 DEF Next, Served

(* What one handler holds after its step.                                   *)
Ready(r) ==
  /\ pc[r] \in Copying => base[r] = project
  /\ pc[r] = "mirror" => change[r].version = Len(versions)
  /\ pc[r] = "consume" => Pending(call[r].proposal)

LEMMA ReadyIdle ==
  ASSUME HInv, NEW s \in Requests, NEW at, at \notin Copying \cup {"consume"},
         NEW d, NEW p, Holds(s, at, d, p)
  PROVE  Ready(s)'
BY HoldsAt DEF Ready, Copying

LEMMA ReadyEnds ==
  ASSUME HInv, NEW s \in Requests, NEW how \in {"done", "refused", "failed", "reply"}, Ends(s, how)
  PROVE  Ready(s)'
BY ReadyIdle DEF Ends, Copying

LEMMA ReadyReads ==
  ASSUME HInv, NEW s \in Requests, NEW at \in {"persist", "activate"}, NEW d, Holds(s, at, d, project),
         UNCHANGED stored
  PROVE  Ready(s)'
BY DEF Ready, Holds, HInv, TypeOK, stored

LEMMA ReadyUpdate ==
  ASSUME HInv, NEW s \in Requests, Ready(s), Update(s)
  PROVE  Ready(s)'
<1>1. CASE Persist(s)
  <2> DEFINE q == ApplyDiff(base[s], change[s], s)
  <2>1. CASE Regenerates(base[s], change[s])
    <3>1. Holds(s, "generate", NoChange, q) /\ project' = q
      BY <1>1, <2>1 DEF Persist
    <3> QED
      BY <3>1 DEF Ready, Holds, HInv, TypeOK
  <2>2. CASE ~Regenerates(base[s], change[s])
    BY <1>1, <2>2, Returning, ReadyEnds DEF Persist
  <2> QED
    BY <2>1, <2>2
<1>2. CASE StoreVersion(s)
  <2>1. /\ pc[s] = "generate" /\ Holds(s, "mirror", ToVersion(Len(versions) + 1), base[s])
        /\ project' = project /\ versions' = Append(versions, NewVersion(base[s], s))
    BY <1>2 DEF StoreVersion
  <2>2. Len(versions') = Len(versions) + 1
    BY <2>1 DEF HInv, TypeOK
  <2>3. ToVersion(Len(versions) + 1).version = Len(versions) + 1
    BY DEF ToVersion, NoChange
  <2>4. pc'[s] = "mirror" /\ base'[s] = base[s] /\ change'[s].version = Len(versions) + 1
    BY <2>1, <2>3 DEF Holds, HInv, TypeOK
  <2> QED
    BY <2>1, <2>2, <2>4 DEF Ready, Copying
<1>3. CASE GenerationFails(s) \/ Mirror(s) \/ Activate(s)
  BY <1>3, Returning, ReadyEnds DEF GenerationFails, Mirror, Activate
<1> QED
  BY <1>1, <1>2, <1>3 DEF Update

LEMMA ReadyReadForUpdate ==
  ASSUME HInv, NEW s \in Requests, NEW d, NEW rejected \in {"refused", "failed"},
         ReadForUpdate(s, d, rejected)
  PROVE  Ready(s)'
BY ReadyReads, ReadyEnds DEF ReadForUpdate

LEMMA ReadyReadForRollback ==
  ASSUME HInv, NEW s \in Requests, NEW v, ReadForRollback(s, v)
  PROVE  Ready(s)'
BY ReadyReads, ReadyEnds DEF ReadForRollback

LEMMA ReadyConfirm ==
  ASSUME HInv, NEW s \in Requests, ConfirmProposal(s)
  PROVE  Ready(s)'
<1>1. PICK p \in Offered : Enters(s, "confirm", p) /\ LookUp(s, p, "consume")
  BY DEF ConfirmProposal
<1>2. call'[s].proposal = p /\ UNCHANGED stored
  BY <1>1 DEF Enters, LookUp, HInv, TypeOK
<1>3. CASE Pending(p)
  <2>1. Holds(s, "consume", proposal.change, NewProject)
    BY <1>1, <1>3 DEF LookUp
  <2>2. pc'[s] = "consume"
    BY <2>1, HoldsAt
  <2> QED
    BY <1>2, <1>3, <2>2 DEF Ready, Copying, Pending, stored
<1>4. CASE ~Pending(p)
  BY <1>1, <1>4, ReadyEnds DEF LookUp
<1> QED
  BY <1>3, <1>4

LEMMA ReadyStep ==
  ASSUME HInv, NEW s \in Requests, Ready(s), Handle(s)
  PROVE  Ready(s)'
<1>1. CASE Update(s)
  BY <1>1, ReadyUpdate
<1>2. CASE Settings(s)
  BY <1>2, ReadyReadForUpdate, ReadyReadForRollback DEF Settings, Patch, ActivateVersion
<1>3. CASE Chat(s)
  <2>1. CASE SendMessage(s) \/ SaveProposal(s) \/ Reply(s) \/ CancelProposal(s) \/ MarkConsumed(s)
    BY <2>1, ReadyIdle, ReadyEnds DEF SendMessage, SaveProposal, Reply, CancelProposal, LookUp, MarkConsumed, Copying
  <2>2. CASE ConfirmProposal(s)
    BY <2>2, ReadyConfirm
  <2>3. CASE Execute(s)
    BY <2>3, ReadyReadForUpdate, ReadyReadForRollback DEF Execute
  <2> QED
    BY <1>3, <2>1, <2>2, <2>3 DEF Chat
<1>4. CASE Design(s)
  BY <1>4, ReadyIdle, ReadyEnds DEF Design, GenerateDesign, EditDesign, SetDesignModel, Copying
<1>5. CASE Requirements(s)
  BY <1>5, ReadyIdle, ReadyEnds DEF Requirements, ParseRequirements, SaveParsed, Review, SaveReview, Copying
<1> QED
  BY <1>1, <1>2, <1>3, <1>4, <1>5 DEF Handle

LEMMA FreshNext == InFlight = 1 /\ SInv /\ [Next]_vars => Fresh'
<1> SUFFICES ASSUME InFlight = 1, SInv, [Next]_vars, NEW r \in Requests PROVE Ready(r)'
  BY DEF Fresh, Ready
<1>1. ASSUME NEW s \in Requests, Handle(s) PROVE Ready(r)'
  <2>1. CASE r = s
    BY <1>1, <2>1, ReadyStep DEF SInv, Fresh, Ready
  <2>2. CASE r # s
    BY <1>1, <2>2, OthersRest DEF SInv, Ready, Copying, Running
  <2> QED
    BY <2>1, <2>2
<1>2. CASE Crash
  <2>1. pc'[r] \notin Running
    BY <1>2 DEF Crash, Running
  <2> QED
    BY <2>1 DEF Ready, Copying, Running
<1>3. CASE UNCHANGED vars
  BY <1>3 DEF SInv, Fresh, Ready, vars, Pending
<1> QED
  BY <1>1, <1>2, <1>3 DEF Next, Served

LEMMA SInvInit == Init => SInv
<1> SUFFICES ASSUME Init PROVE Alone /\ Fresh
  BY HInvInit DEF SInv
<1> QED
  BY DEF Init, Alone, Fresh, Running, Copying

LEMMA SInvNext == InFlight = 1 /\ SInv /\ [Next]_vars => SInv'
BY HInvNext, AloneNext, FreshNext DEF SInv

-----------------------------------------------------------------------------
(* What a diff adds to the audit trail.                                     *)
LEMMA ExtendsConcat ==
  ASSUME NEW a \in Seq(LogEntries), NEW b \in Seq(LogEntries), b # <<>>
  PROVE  History!Extends(a \o b, a)
<1>1. Len(a) \in Nat /\ Len(b) \in Nat /\ Len(b) # 0 /\ Len(a \o b) = Len(a) + Len(b)
  OBVIOUS
<1>2. SubSeq(a \o b, 1, Len(a)) = a
  OBVIOUS
<1> QED
  BY <1>1, <1>2 DEF History!Extends

LEMMA ExtendsAppend ==
  ASSUME NEW a \in Seq(LogEntries), NEW e \in LogEntries
  PROVE  History!Extends(Append(a, e), a)
<1>1. Len(a) \in Nat /\ Len(Append(a, e)) = Len(a) + 1
  OBVIOUS
<1>2. SubSeq(Append(a, e), 1, Len(a)) = a
  OBVIOUS
<1> QED
  BY <1>1, <1>2 DEF History!Extends

LEMMA ConcatOfEntries ==
  ASSUME NEW a \in Seq(LogEntries), NEW b \in Seq(LogEntries), NEW c \in Seq(LogEntries)
  PROVE  (a \o b) \o c = a \o (b \o c)
<1>1. (a \o b) \o c \in Seq(LogEntries) /\ a \o (b \o c) \in Seq(LogEntries)
      /\ Len((a \o b) \o c) = Len(a \o (b \o c))
  OBVIOUS
<1>2. ASSUME NEW i \in 1 .. Len((a \o b) \o c)
      PROVE  ((a \o b) \o c)[i] = (a \o (b \o c))[i]
  OBVIOUS
<1> QED
  BY <1>1, <1>2, SeqEqual

(* A diff that records nothing changes nothing.                             *)
LEMMA RecordedOrNothing ==
  ASSUME NEW p \in Projects, NEW d \in Changes, NEW s \in Requests, ValidDiff(p, d)
  PROVE  History!Extends(ApplyDiff(p, d, s).log, p.log) \/ ApplyDiff(p, d, s) = p
<1> DEFINE a == RequirementEntries(p, d, s)
           b == PreferenceEntries(d, s)
           q == ApplyDiff(p, d, s)
<1>1. a \in Seq(LogEntries) /\ b \in Seq(LogEntries) /\ p.log \in Seq(LogEntries)
  BY LogType DEF Projects
<1>2. q.log = (p.log \o a) \o b
  BY DEF ApplyDiff, Projects
<1>3. CASE a = <<>> /\ b = <<>>
  <2>1. ~ChangesWet(p, d) /\ ~ChangesRows(p, d) /\ ~AnswersQuestion(p, d)
    BY <1>3 DEF RequirementEntries, When
  <2>2. d.prefOp = "none"
    BY <1>3 DEF PreferenceEntries, When, Changes
  <2>3. Updated(d.wet, p.wet) = p.wet
    BY <2>1 DEF ChangesWet, Updated
  <2>4. Updated(d.rows, p.rows) = p.rows /\ (IF d.rows = Keep THEN p.rowsBy ELSE d.rowsBy) = p.rowsBy
    BY <2>1 DEF ChangesRows, Updated
  <2>5. (p.questions /\ d.rows = Keep) = p.questions
    BY <2>1 DEF AnswersQuestion, Projects
  <2>6. (p.log \o a) \o b = p.log
    BY <1>1, <1>3
  <2>7. q = [p EXCEPT !.wet = p.wet, !.rows = p.rows, !.rowsBy = p.rowsBy, !.questions = p.questions,
                      !.prefs = p.prefs, !.log = p.log]
    BY <2>2, <2>3, <2>4, <2>5, <2>6 DEF ApplyDiff, Projects
  <2>8. [p EXCEPT !.wet = p.wet, !.rows = p.rows, !.rowsBy = p.rowsBy, !.questions = p.questions,
                  !.prefs = p.prefs, !.log = p.log] = p
    BY DEF Projects
  <2> QED
    BY <2>7, <2>8
<1>4. CASE a # <<>> \/ b # <<>>
  <2> HIDE DEF a, b, q
  <2>1. (p.log \o a) \o b = p.log \o (a \o b)
    BY <1>1, ConcatOfEntries
  <2>2. a \o b \in Seq(LogEntries) /\ Len(a \o b) = Len(a) + Len(b)
        /\ Len(a) \in Nat /\ Len(b) \in Nat
    BY <1>1
  <2>3. Len(a) # 0 \/ Len(b) # 0
    BY <1>1, <1>4
  <2>4. a \o b # <<>>
    BY <2>2, <2>3
  <2> QED
    BY <1>1, <1>2, <2>1, <2>2, <2>4, ExtendsConcat DEF q
<1> QED
  BY <1>3, <1>4

(* The steps of a handler that write the project or a version.              *)
Writes(s) ==
  Persist(s) \/ StoreVersion(s) \/ Mirror(s) \/ Activate(s) \/ SetDesignModel(s) \/ SaveParsed(s)
    \/ SaveReview(s)

LEMMA WritesOrNot ==
  ASSUME NEW s \in Requests, Handle(s)
  PROVE  Writes(s) \/ UNCHANGED <<project, versions>>
<1>1. CASE Update(s)
  BY <1>1 DEF Update, GenerationFails, stored, Writes
<1>2. CASE Settings(s)
  BY <1>2 DEF Settings, Patch, ActivateVersion, ReadForUpdate, ReadForRollback, stored
<1>3. CASE Chat(s)
  BY <1>3 DEF Chat, SendMessage, SaveProposal, Reply, ConfirmProposal, CancelProposal, LookUp,
              MarkConsumed, Execute, ReadForUpdate, ReadForRollback, stored
<1>4. CASE Design(s)
  BY <1>4 DEF Design, GenerateDesign, EditDesign, stored, Writes
<1>5. CASE Requirements(s)
  BY <1>5 DEF Requirements, ParseRequirements, Review, stored, Writes
<1> QED
  BY <1>1, <1>2, <1>3, <1>4, <1>5 DEF Handle

-----------------------------------------------------------------------------
(* The refinement: each writing step is an action of ProjectHistory.        *)
HStep == [History!Next]_(History!vars)

LEMMA PersistIsChange ==
  ASSUME SInv, NEW s \in Requests, Persist(s)
  PROVE  HStep
<1> DEFINE q == ApplyDiff(project, change[s], s)
<1>1. /\ project \in Projects /\ change[s] \in Changes /\ ValidDiff(project, change[s])
      /\ project' = q /\ versions' = versions
  BY DEF SInv, HInv, TypeOK, Carries, Fresh, Copying, Persist
<1>2. q.active = project.active /\ q.design = project.design
  BY <1>1, ApplyDiffType
<1>3. History!Extends(q.log, project.log) \/ q = project
  BY <1>1, RecordedOrNothing
<1> HIDE DEF q
<1>4. CASE History!Extends(q.log, project.log)
  BY <1>1, <1>2, <1>4 DEF HStep, History!Next, History!Change
<1>5. CASE q = project
  BY <1>1, <1>5 DEF HStep, History!vars
<1> QED
  BY <1>3, <1>4, <1>5

LEMMA StoreVersionIsStore ==
  ASSUME SInv, NEW s \in Requests, StoreVersion(s)
  PROVE  HStep
<1>1. /\ project' = project
      /\ versions' = Append(versions, [supersedes |-> project.active, design |-> s])
  BY DEF SInv, Fresh, Copying, StoreVersion, NewVersion
<1> QED
  BY <1>1 DEF HStep, History!Next, History!Store

LEMMA MirrorIsShowNewest ==
  ASSUME SInv, NEW s \in Requests, Mirror(s)
  PROVE  HStep
<1> DEFINE v == Len(versions)
           q == Show(project, v, s)
<1>1. /\ project' = q /\ versions' = versions /\ v \in 1 .. Len(versions)
      /\ versions[v].design = s /\ project \in Projects
  BY DEF SInv, HInv, TypeOK, Carries, Fresh, Copying, Mirror
<1>2. v \in Nat /\ s \in Authors /\ versions # <<>>
  BY <1>1 DEF Authors
<1>3. q.active = v /\ q.design = s
  BY <1>1, <1>2, ShowType
<1>4. q.wet = project.wet /\ q.rows = project.rows /\ q.rowsBy = project.rowsBy
      /\ q.questions = project.questions /\ q.unsupported = project.unsupported
      /\ q.parsed = project.parsed /\ q.prefs = project.prefs /\ q.log = project.log
  BY <1>1 DEF Show, Projects
<1> HIDE DEF q
<1> QED
  BY <1>1, <1>2, <1>3, <1>4 DEF HStep, History!Next, History!ShowNewest

LEMMA ActivateIsRollBack ==
  ASSUME SInv, NEW s \in Requests, Activate(s)
  PROVE  HStep
<1> DEFINE v == change[s].version
           d == versions[v].design
           e == Entry("active_design_version_id", v, s)
           q == RollBack(project, v, d, s)
<1>1. /\ project' = q /\ versions' = versions /\ v \in 1 .. Len(versions) /\ project \in Projects
      /\ versions \in Seq(Versions)
  BY DEF SInv, HInv, TypeOK, Carries, Fresh, Copying, Activate
<1>2. v \in Nat /\ d \in Authors
  <2>1. v \in Nat /\ versions[v] \in Versions
    BY <1>1
  <2> QED
    BY <2>1 DEF Authors, Versions
<1>3. q.active = v /\ q.design = d
  BY <1>1, <1>2, RollBackType
<1>4. /\ q.wet = project.wet /\ q.rows = project.rows /\ q.rowsBy = project.rowsBy
      /\ q.questions = project.questions /\ q.unsupported = project.unsupported
      /\ q.parsed = project.parsed /\ q.prefs = project.prefs
      /\ q.log = Append(project.log, e)
  BY <1>1 DEF RollBack, Show, Projects
<1>5. e \in LogEntries /\ e.field = "active_design_version_id" /\ e.value = v
  BY <1>2 DEF Entry, LogEntries, LogFields
<1> HIDE DEF q, e, v, d
<1>6. /\ History!Extends(q.log, project.log)
      /\ q.log[Len(q.log)].field = "active_design_version_id" /\ q.log[Len(q.log)].value = v
  <2>1. project.log \in Seq(LogEntries)
    BY <1>1 DEF Projects
  <2>2. q.log[Len(q.log)] = e
    BY <1>4, <1>5, <2>1
  <2> QED
    BY <1>4, <1>5, <2>1, <2>2, ExtendsAppend
<1>7. History!RollBack
  BY <1>1, <1>3, <1>4, <1>6 DEF History!RollBack, d
<1> QED
  BY <1>7 DEF HStep, History!Next

LEMMA SetDesignModelIsDraw ==
  ASSUME SInv, NEW s \in Requests, SetDesignModel(s)
  PROVE  HStep
<1>1. /\ project \in Projects /\ project' = [project EXCEPT !.design = s] /\ versions' = versions
  BY DEF SInv, HInv, TypeOK, SetDesignModel
<1> QED
  BY <1>1 DEF HStep, History!Next, History!Draw, Projects

LEMMA SetParsedIsRestate ==
  ASSUME SInv, NEW s \in Requests, SaveParsed(s) \/ SaveReview(s)
  PROVE  HStep
<1>1. /\ project \in Projects /\ versions' = versions
      /\ \E w, n, by, questions, unsupported : project' = SetParsed(project, w, n, by, questions, unsupported)
  BY DEF SInv, HInv, TypeOK, SaveParsed, SaveReview
<1>2. project'.log = project.log /\ project'.active = project.active /\ project'.design = project.design
  BY <1>1 DEF SetParsed, Projects
<1> QED
  BY <1>1, <1>2 DEF HStep, History!Next, History!Restate, History!vars

LEMMA StepImplements == SInv /\ [Next]_vars => HStep
<1> SUFFICES ASSUME SInv, [Next]_vars PROVE HStep
  OBVIOUS
<1>1. ASSUME NEW s \in Requests, Handle(s) PROVE HStep
  <2>1. CASE UNCHANGED <<project, versions>>
    BY <2>1 DEF HStep, History!vars
  <2> QED
    BY <1>1, <2>1, WritesOrNot, PersistIsChange, StoreVersionIsStore, MirrorIsShowNewest,
       ActivateIsRollBack, SetDesignModelIsDraw, SetParsedIsRestate DEF Writes
<1>2. CASE UNCHANGED <<project, versions>>
  BY <1>2 DEF HStep, History!vars
<1> QED
  BY <1>1, <1>2 DEF Next, Served, Crash, stored, vars

(* Served one at a time, whatever the requests and wherever the process     *)
(* dies, the project store is the append-only history of ProjectHistory.    *)
THEOREM ServedAloneKeepsHistory == ASSUME InFlight = 1 PROVE Spec => KeepsHistory
<1>1. Init => SInv /\ History!Init
  <2>1. Init => History!Init
    BY DEF Init, NewProject, History!Init
  <2> QED
    BY <2>1, SInvInit
<1>2. SInv /\ [Next]_vars => SInv'
  BY SInvNext
<1>3. SInv /\ [Next]_vars => [History!Next]_(History!vars)
  BY StepImplements DEF HStep
<1> QED
  BY <1>1, <1>2, <1>3, PTL DEF Spec, KeepsHistory, History!Spec

-----------------------------------------------------------------------------
(* No entry of the audit trail is ever dropped or moved.                    *)
Prefix(shorter, longer) ==
  /\ Len(shorter) <= Len(longer)
  /\ \A i \in 1 .. Len(shorter) : longer[i] = shorter[i]

LEMMA ExtendsIsPrefix ==
  ASSUME NEW a \in Seq(LogEntries), NEW b \in Seq(LogEntries), History!Extends(b, a)
  PROVE  Prefix(a, b)
<1>1. /\ Len(a) \in Nat /\ Len(b) \in Nat /\ Len(b) > Len(a) /\ SubSeq(b, 1, Len(a)) = a
  BY DEF History!Extends
<1>2. ASSUME NEW i \in 1 .. Len(a) PROVE b[i] = a[i]
  <2>1. SubSeq(b, 1, Len(a))[i] = b[i]
    BY <1>1
  <2> QED
    BY <1>1, <2>1
<1> QED
  BY <1>1, <1>2 DEF Prefix

LEMMA LogGrows ==
  ASSUME SInv, [Next]_vars
  PROVE  Prefix(project.log, project'.log)
<1>1. project.log \in Seq(LogEntries) /\ project'.log \in Seq(LogEntries)
  BY HInvNext DEF SInv, HInv, TypeOK, Projects
<1>2. CASE project'.log = project.log
  BY <1>1, <1>2 DEF Prefix
<1>3. CASE History!Extends(project'.log, project.log)
  BY <1>1, <1>3, ExtendsIsPrefix
<1>4. HStep
  BY StepImplements
<1>5. project'.log = project.log \/ History!Extends(project'.log, project.log)
  BY <1>4 DEF HStep, History!vars, History!Next, History!Restate, History!Change, History!Store,
              History!ShowNewest, History!RollBack, History!Draw
<1> QED
  BY <1>2, <1>3, <1>5

LEMMA WhenOf ==
  ASSUME NEW S, NEW c \in BOOLEAN, NEW e \in S
  PROVE  When(c, e) \in Seq(S)
BY DEF When

LEMMA FirstOfConcat ==
  ASSUME NEW S, NEW x \in Seq(S), NEW y \in Seq(S), Len(x) >= 1
  PROVE  x \o y \in Seq(S) /\ Len(x \o y) >= 1 /\ (x \o y)[1] = x[1]
<1>1. Len(x) \in Nat /\ Len(y) \in Nat
  OBVIOUS
<1> QED
  BY <1>1

(* What Persist adds to the trail is signed by its request; when it leads   *)
(* to a new design there is something to add, and a new count comes first.  *)
LEMMA PersistSigns ==
  ASSUME NEW p \in Projects, NEW d \in Changes, NEW s \in Requests, Regenerates(p, d)
  PROVE  LET log == ApplyDiff(p, d, s).log
         IN  \E j \in 1 .. Len(log) :
               /\ log[j].by = s
               /\ ChangesWet(p, d) => log[j].field = "wet_rooms" /\ log[j].value = d.wet
<1> DEFINE E == {e \in LogEntries : e.by = s}
           a == When(ChangesWet(p, d), Entry("wet_rooms", d.wet, s))
           b == When(ChangesRows(p, d), Entry("wet_room_kinds", d.rows, s))
           c == When(AnswersQuestion(p, d), Entry("wet_room_questions", 0, s))
           z == PreferenceEntries(d, s)
           n == Len(p.log)
           log == ApplyDiff(p, d, s).log
<1>1. d.wet \in Int /\ d.rows \in Int
  BY MaxWetAssumption DEF Changes, Counts, Keep, Unstated
<1>2. \A f \in LogFields, v \in Int : Entry(f, v, s) \in E
  BY DEF Entry, LogEntries
<1>3. /\ Entry("wet_rooms", d.wet, s) \in E /\ Entry("wet_room_kinds", d.rows, s) \in E
      /\ Entry("wet_room_questions", 0, s) \in E
  BY <1>1, <1>2 DEF LogFields
<1>4. a \in Seq(E) /\ b \in Seq(E) /\ c \in Seq(E)
  <2>1. ChangesWet(p, d) \in BOOLEAN /\ ChangesRows(p, d) \in BOOLEAN /\ AnswersQuestion(p, d) \in BOOLEAN
    BY DEF ChangesWet, ChangesRows, AnswersQuestion
  <2> HIDE DEF E
  <2> QED
    BY <1>3, <2>1, WhenOf
<1>5. a # <<>> \/ b # <<>> \/ c # <<>>
  BY DEF Regenerates, When
<1>6. ChangesWet(p, d) => Len(a) = 1 /\ a[1] = Entry("wet_rooms", d.wet, s)
  BY DEF When
<1>7. log = (p.log \o ((a \o b) \o c)) \o z
  BY DEF ApplyDiff, RequirementEntries, Projects
<1>8. p.log \in Seq(LogEntries) /\ z \in Seq(LogEntries)
  BY LogType DEF Projects
<1>9. Entry("wet_rooms", d.wet, s).field = "wet_rooms" /\ Entry("wet_rooms", d.wet, s).value = d.wet
  BY DEF Entry
<1> HIDE DEF a, b, c, z, log
<1>10. (a \o b) \o c \in Seq(E) /\ Len((a \o b) \o c) = Len(a) + Len(b) + Len(c)
       /\ Len(a) \in Nat /\ Len(b) \in Nat /\ Len(c) \in Nat
  BY <1>4
<1>11. Len((a \o b) \o c) >= 1
  <2>1. Len(a) # 0 \/ Len(b) # 0 \/ Len(c) # 0
    BY <1>4, <1>5
  <2> QED
    BY <1>10, <2>1
<1>12. ((a \o b) \o c)[1].by = s
  BY <1>10, <1>11
<1>13. ChangesWet(p, d) => ((a \o b) \o c)[1] = Entry("wet_rooms", d.wet, s)
  <2> SUFFICES ASSUME ChangesWet(p, d) PROVE ((a \o b) \o c)[1] = a[1]
    BY <1>6
  <2>1. Len(a) = 1
    BY <1>6
  <2> HIDE DEF E
  <2>2. a \o b \in Seq(E) /\ Len(a \o b) >= 1 /\ (a \o b)[1] = a[1]
    <3>1. Len(a) >= 1
      BY <2>1
    <3> QED
      BY <1>4, <3>1, FirstOfConcat
  <2>3. ((a \o b) \o c)[1] = (a \o b)[1]
    BY <1>4, <2>2, FirstOfConcat
  <2> QED
    BY <2>2, <2>3
<1>14. n + 1 \in 1 .. Len(log) /\ log[n + 1] = ((a \o b) \o c)[1]
  <2> DEFINE m == (a \o b) \o c
  <2>1. m \in Seq(LogEntries) /\ Len(m) >= 1
    BY <1>10, <1>11
  <2>4. log = (p.log \o m) \o z /\ m[1] = ((a \o b) \o c)[1]
    BY <1>7
  <2> HIDE DEF m
  <2>2. n \in Nat /\ Len(m) \in Nat /\ Len(z) \in Nat
        /\ p.log \o m \in Seq(LogEntries) /\ Len(p.log \o m) = n + Len(m)
        /\ (p.log \o m)[n + 1] = m[1]
    BY <1>8, <2>1
  <2>3. Len((p.log \o m) \o z) = n + Len(m) + Len(z)
        /\ ((p.log \o m) \o z)[n + 1] = (p.log \o m)[n + 1]
    BY <1>8, <2>1, <2>2
  <2>5. log[n + 1] = m[1]
    BY <2>2, <2>3, <2>4
  <2>6. n + 1 \in 1 .. Len(log)
    BY <2>1, <2>2, <2>3, <2>4
  <2> QED
    BY <2>4, <2>5, <2>6
<1> QED
  BY <1>9, <1>12, <1>13, <1>14 DEF log

-----------------------------------------------------------------------------
(* A handler that is generating has already signed the change it generates  *)
(* for.                                                                     *)
Signed(r) == \E j \in 1 .. Len(project.log) : project.log[j].by = r

EInv == VersionsAreExplained /\ \A r \in Requests : pc[r] = "generate" => Signed(r)

LEMMA SignedStays ==
  ASSUME SInv, [Next]_vars, NEW r, Signed(r)
  PROVE  Signed(r)'
<1>1. Len(project.log) \in Nat /\ Len(project'.log) \in Nat
  BY HInvNext DEF SInv, HInv, TypeOK, Projects
<1> QED
  BY <1>1, LogGrows DEF Signed, Prefix

LEMMA GeneratesAfterPersist ==
  ASSUME HInv, NEW s \in Requests, Handle(s), pc'[s] = "generate"
  PROVE  Persist(s) /\ Regenerates(base[s], change[s])
<1>1. CASE Update(s)
  <2>1. CASE StoreVersion(s)
    BY <2>1, HoldsAt DEF StoreVersion
  <2>2. CASE GenerationFails(s) \/ Mirror(s) \/ Activate(s)
    BY <2>2, HoldsAt DEF GenerationFails, Mirror, Activate, Return, Ends
  <2>3. CASE Persist(s)
    BY <2>3, HoldsAt DEF Persist, Return, Ends
  <2> QED
    BY <1>1, <2>1, <2>2, <2>3 DEF Update
<1>2. CASE Settings(s)
  BY <1>2, HoldsAt DEF Settings, Patch, ActivateVersion, ReadForUpdate, ReadForRollback, Ends
<1>3. CASE Chat(s)
  BY <1>3, HoldsAt DEF Chat, SendMessage, SaveProposal, Reply, ConfirmProposal, CancelProposal, LookUp,
              MarkConsumed, Execute, ReadForUpdate, ReadForRollback, Ends
<1>4. CASE Design(s)
  BY <1>4, HoldsAt DEF Design, GenerateDesign, EditDesign, SetDesignModel, Ends
<1>5. CASE Requirements(s)
  BY <1>5, HoldsAt DEF Requirements, ParseRequirements, SaveParsed, Review, SaveReview, Ends
<1> QED
  BY <1>1, <1>2, <1>3, <1>4, <1>5 DEF Handle

LEMMA EInvNext == InFlight = 1 /\ SInv /\ EInv /\ [Next]_vars => EInv'
<1> SUFFICES ASSUME InFlight = 1, SInv, EInv, [Next]_vars PROVE EInv'
  OBVIOUS
<1>1. \A r \in Requests : Signed(r) => Signed(r)'
  BY SignedStays
<1>2. versions \in Seq(Versions) /\ Len(versions) \in Nat
  BY DEF SInv, HInv, TypeOK
<1>3. ASSUME NEW i \in 1 .. Len(versions)
      PROVE  versions[i].design \in Requests /\ Signed(versions[i].design)
  <2>1. versions[i] \in Versions
    BY <1>2
  <2> QED
    BY <2>1 DEF EInv, VersionsAreExplained, Signed, Versions
<1>4. VersionsAreExplained'
  <2>1. CASE versions' = versions
    BY <1>1, <1>3, <2>1 DEF VersionsAreExplained, Signed
  <2>2. ASSUME NEW s \in Requests, StoreVersion(s) PROVE VersionsAreExplained'
    <3>1. versions' = Append(versions, NewVersion(base[s], s)) /\ NewVersion(base[s], s).design = s
      BY <2>2 DEF StoreVersion, NewVersion
    <3>2. Signed(s)'
      BY <1>1, <2>2 DEF EInv, StoreVersion
    <3>3. ASSUME NEW i \in 1 .. Len(versions')
          PROVE  \E j \in 1 .. Len(project'.log) : project'.log[j].by = versions'[i].design
      <4>1. CASE i \in 1 .. Len(versions)
        <5>1. versions'[i] = versions[i]
          BY <1>2, <3>1, <4>1
        <5>2. Signed(versions[i].design) /\ versions[i].design \in Requests
          BY <1>3, <4>1
        <5> QED
          BY <1>1, <5>1, <5>2 DEF Signed
      <4>2. CASE i = Len(versions) + 1
        BY <1>2, <3>1, <3>2, <4>2 DEF Signed
      <4> QED
        BY <1>2, <3>1, <3>3, <4>1, <4>2
    <3> QED
      BY <3>3 DEF VersionsAreExplained
  <2>3. versions' = versions \/ \E s \in Requests : StoreVersion(s)
    BY WritesOrNot DEF Next, Served, Crash, stored, vars, Writes, Persist, Mirror, Activate, SetDesignModel,
                       SaveParsed, SaveReview
  <2> QED
    BY <2>1, <2>2, <2>3
<1>5. ASSUME NEW r \in Requests, pc'[r] = "generate" PROVE Signed(r)'
  <2>1. CASE pc[r] = "generate"
    BY <1>1, <2>1 DEF EInv
  <2>2. CASE pc[r] # "generate"
    <3>1. Handle(r)
      BY <1>5, <2>2, OthersStay DEF Next, Served, Crash, vars, SInv, HInv, TypeOK
    <3>2. Persist(r) /\ Regenerates(base[r], change[r])
      BY <1>5, <3>1, GeneratesAfterPersist DEF SInv
    <3>3. base[r] \in Projects /\ change[r] \in Changes /\ project' = ApplyDiff(base[r], change[r], r)
      BY <3>2 DEF SInv, HInv, TypeOK, Persist
    <3> QED
      BY <3>2, <3>3, PersistSigns DEF Signed
  <2> QED
    BY <2>1, <2>2
<1> QED
  BY <1>4, <1>5 DEF EInv

(* Served one at a time, every stored version answers a change that the     *)
(* audit trail still shows.                                                 *)
THEOREM ServedAloneExplains == ASSUME InFlight = 1 PROVE Spec => []VersionsAreExplained
<1>1. Init => SInv /\ EInv
  BY SInvInit DEF Init, EInv, VersionsAreExplained
<1>2. SInv /\ EInv /\ [Next]_vars => (SInv /\ EInv)'
  BY SInvNext, EInvNext
<1>3. EInv => VersionsAreExplained
  BY DEF EInv
<1> QED
  BY <1>1, <1>2, <1>3, PTL DEF Spec

-----------------------------------------------------------------------------
(* What a review is about to save fits the count it saves, given the rows   *)
(* that are stored.                                                         *)
Fits(r) ==
  pc[r] \in {"review", "answer"} /\ change[r].wet # Unstated =>
    Updated(change[r].rows, project.rows) <= change[r].wet

RInv == RowsExceedOnlyByCountEdit /\ \A r \in Requests : Fits(r)

(* The entry that explains the count still does when neither changed.       *)
LEMMA ExcessStays ==
  ASSUME SInv, RowsExceedOnlyByCountEdit, [Next]_vars,
         project'.wet = project.wet, project'.rows = project.rows
  PROVE  RowsExceedOnlyByCountEdit'
<1>1. Len(project.log) \in Nat /\ Len(project'.log) \in Nat
  BY HInvNext DEF SInv, HInv, TypeOK, Projects
<1> QED
  BY <1>1, LogGrows DEF RowsExceedOnlyByCountEdit, MoreRowsThanCount, Prefix

LEMMA PersistExceeds ==
  ASSUME SInv, RowsExceedOnlyByCountEdit, [Next]_vars, NEW s \in Requests, Persist(s)
  PROVE  RowsExceedOnlyByCountEdit'
<1> DEFINE d == change[s]
<1>1. /\ project \in Projects /\ d \in Changes /\ ValidDiff(project, d)
      /\ project' = ApplyDiff(project, d, s)
  BY DEF SInv, HInv, TypeOK, Carries, Fresh, Copying, Persist
<1>2. /\ project'.wet = Updated(d.wet, project.wet)
      /\ project'.rows = Updated(d.rows, project.rows)
  BY <1>1 DEF ApplyDiff, Projects
<1> HIDE DEF d
<1>3. CASE d.rows # Keep
  <2>1. project'.wet # Unstated => d.rows <= project'.wet
    BY <1>1, <1>2, <1>3 DEF ValidDiff
  <2>2. project'.rows = d.rows /\ d.rows \in Int /\ project'.wet \in Int
    BY <1>1, <1>2, <1>3, MaxWetAssumption DEF Updated, Changes, Projects, Counts, Unstated, Keep
  <2> QED
    BY <2>1, <2>2 DEF RowsExceedOnlyByCountEdit, MoreRowsThanCount
<1>4. CASE d.rows = Keep /\ ChangesWet(project, d)
  <2>1. project'.wet = d.wet
    BY <1>2, <1>4 DEF ChangesWet, Updated
  <2>2. Regenerates(project, d)
    BY <1>4 DEF Regenerates
  <2> QED
    BY <1>1, <1>4, <2>1, <2>2, PersistSigns DEF RowsExceedOnlyByCountEdit
<1>5. CASE d.rows = Keep /\ ~ChangesWet(project, d)
  BY <1>2, <1>5, ExcessStays DEF ChangesWet, Updated
<1> QED
  BY <1>3, <1>4, <1>5

LEMMA SaveParsedExceeds ==
  ASSUME SInv, NEW s \in Requests, SaveParsed(s)
  PROVE  RowsExceedOnlyByCountEdit'
<1>1. PICK w \in Counts, n \in 0 .. MaxWet, requested, questions, other \in BOOLEAN :
        LET wet == Reconciled(w, requested, n)
        IN  project' = SetParsed(project, wet.wet, wet.rows, IF wet.rows = 0 THEN None ELSE s,
                                 questions, other \/ wet.ambiguous)
  BY DEF SaveParsed
<1> DEFINE wet == Reconciled(w, requested, n)
<1>2. wet.wet # Unstated => wet.rows <= wet.wet
  BY MaxWetAssumption DEF Reconciled, Counts, Unstated
<1>3. wet.wet \in Int /\ wet.rows \in Int
  BY MaxWetAssumption DEF Reconciled, Counts, Unstated
<1>4. project'.wet = wet.wet /\ project'.rows = wet.rows
  BY <1>1 DEF SetParsed, SInv, HInv, TypeOK, Projects
<1> QED
  BY <1>2, <1>3, <1>4 DEF RowsExceedOnlyByCountEdit, MoreRowsThanCount

LEMMA SaveReviewExceeds ==
  ASSUME SInv, RInv, NEW s \in Requests, SaveReview(s)
  PROVE  RowsExceedOnlyByCountEdit'
<1> DEFINE d == change[s]
<1>1. /\ d \in Changes /\ project \in Projects /\ pc[s] \in {"review", "answer"}
      /\ project'.wet = d.wet /\ project'.rows = Updated(d.rows, project.rows)
  BY DEF SaveReview, SetParsed, SInv, HInv, TypeOK, Projects
<1>2. d.wet # Unstated => Updated(d.rows, project.rows) <= d.wet
  BY <1>1 DEF RInv, Fits
<1>3. d.wet \in Int /\ Updated(d.rows, project.rows) \in Int
  BY <1>1, MaxWetAssumption DEF Changes, Counts, Projects, Updated, Keep, Unstated
<1> HIDE DEF d
<1> QED
  BY <1>1, <1>2, <1>3 DEF RowsExceedOnlyByCountEdit, MoreRowsThanCount

LEMMA ExceedsNext ==
  ASSUME SInv, RInv, [Next]_vars
  PROVE  RowsExceedOnlyByCountEdit'
<1>1. ASSUME NEW s \in Requests, Handle(s) PROVE RowsExceedOnlyByCountEdit'
  <2>1. CASE Persist(s)
    BY <2>1, PersistExceeds DEF RInv
  <2>2. CASE SaveParsed(s)
    BY <2>2, SaveParsedExceeds
  <2>3. CASE SaveReview(s)
    BY <2>3, SaveReviewExceeds
  <2>4. CASE Mirror(s) \/ Activate(s)
    <3>1. base[s] = project /\ project \in Projects
      BY <2>4 DEF SInv, HInv, TypeOK, Fresh, Copying, Mirror, Activate
    <3>2. project'.wet = project.wet /\ project'.rows = project.rows
      BY <2>4, <3>1 DEF Mirror, Activate, RollBack, Show, Projects
    <3> QED
      BY <3>2, ExcessStays DEF RInv
  <2>5. CASE SetDesignModel(s) \/ StoreVersion(s) \/ UNCHANGED <<project, versions>>
    <3>1. project'.wet = project.wet /\ project'.rows = project.rows
      BY <2>5 DEF SetDesignModel, StoreVersion, SInv, HInv, TypeOK, Projects
    <3> QED
      BY <3>1, ExcessStays DEF RInv
  <2> QED
    BY <1>1, <2>1, <2>2, <2>3, <2>4, <2>5, WritesOrNot DEF Writes
<1>2. CASE UNCHANGED project
  BY <1>2, ExcessStays DEF RInv
<1> QED
  BY <1>1, <1>2 DEF Next, Served, Crash, stored, vars

LEMMA ReviewFits ==
  ASSUME SInv, NEW s \in Requests, Review(s)
  PROVE  Fits(s)'
<1>1. PICK w \in {Keep} \cup 0 .. MaxWet, n \in {Keep} \cup 0 .. MaxWet :
        LET body    == WetDiff(w, n, IF n > 0 THEN s ELSE None)
            outcome == Reviewed(project, body)
        IN  IF project.parsed /\ RowsFit(outcome)
              THEN Holds(s, IF n = Keep THEN "review" ELSE "answer", outcome, NewProject)
              ELSE Ends(s, "refused")
  BY DEF Review
<1> DEFINE body    == WetDiff(w, n, IF n > 0 THEN s ELSE None)
           outcome == Reviewed(project, body)
<1>2. CASE project.parsed /\ RowsFit(outcome)
  <2>1. change'[s] = outcome /\ project' = project /\ project \in Projects
    BY <1>1, <1>2 DEF Holds, Review, stored, SInv, HInv, TypeOK
  <2>2. body.wet = w /\ body.rows = n
    BY DEF WetDiff, NoChange
  <2>3. outcome.wet # Unstated => Updated(outcome.rows, project.rows) <= outcome.wet
    <3>1. body = [NoChange EXCEPT !.wet = w, !.rows = n, !.rowsBy = IF n > 0 THEN s ELSE None]
      BY DEF WetDiff
    <3> DEFINE count == Updated(w, project.wet)
    <3>2. outcome.wet = count
      BY <2>2, <3>1 DEF Reviewed, NoChange
    <3>3. outcome.rows = (IF n = Keep /\ count # Unstated /\ project.rows > count THEN count ELSE n)
      BY <2>2, <3>1 DEF Reviewed, NoChange
    <3>4. count \in Counts /\ project.rows \in 0 .. MaxWet
      BY <2>1, MaxWetAssumption DEF Updated, Projects, Counts
    <3> HIDE DEF outcome, count
    <3> QED
      BY <1>2, <3>2, <3>3, <3>4, MaxWetAssumption DEF RowsFit, Updated, Counts, Unstated, Keep
  <2> QED
    BY <2>1, <2>3 DEF Fits
<1>3. CASE ~(project.parsed /\ RowsFit(outcome))
  <2>1. Ends(s, "refused")
    BY <1>1, <1>3
  <2>2. pc'[s] = "refused"
    BY <2>1, HoldsAt DEF Ends, SInv
  <2> QED
    BY <2>2 DEF Fits
<1> QED
  BY <1>2, <1>3

LEMMA ReviewsAfterReview ==
  ASSUME HInv, NEW s \in Requests, Handle(s), pc'[s] \in {"review", "answer"}
  PROVE  Review(s)
<1>1. CASE Update(s)
  BY <1>1, HoldsAt DEF Update, Persist, StoreVersion, GenerationFails, Mirror, Activate, Return, Ends
<1>2. CASE Settings(s)
  BY <1>2, HoldsAt DEF Settings, Patch, ActivateVersion, ReadForUpdate, ReadForRollback, Ends
<1>3. CASE Chat(s)
  BY <1>3, HoldsAt DEF Chat, SendMessage, SaveProposal, Reply, ConfirmProposal, CancelProposal, LookUp,
              MarkConsumed, Execute, ReadForUpdate, ReadForRollback, Ends
<1>4. CASE Design(s)
  BY <1>4, HoldsAt DEF Design, GenerateDesign, EditDesign, SetDesignModel, Ends
<1>5. CASE Requirements(s)
  BY <1>5, HoldsAt DEF Requirements, ParseRequirements, SaveParsed, SaveReview, Ends
<1> QED
  BY <1>1, <1>2, <1>3, <1>4, <1>5 DEF Handle

LEMMA RInvNext == InFlight = 1 /\ SInv /\ RInv /\ [Next]_vars => RInv'
<1> SUFFICES ASSUME InFlight = 1, SInv, RInv, [Next]_vars, NEW r \in Requests PROVE Fits(r)'
  BY ExceedsNext DEF RInv
<1>1. ASSUME NEW s \in Requests, Handle(s) PROVE Fits(r)'
  <2>1. CASE r = s
    BY <1>1, <2>1, ReviewsAfterReview, ReviewFits DEF Fits, SInv
  <2>2. CASE r # s
    BY <1>1, <2>2, OthersRest DEF Fits, SInv, Running
  <2> QED
    BY <2>1, <2>2
<1>2. CASE Crash
  BY <1>2 DEF Crash, Fits, Running
<1>3. CASE UNCHANGED vars
  BY <1>3 DEF vars, RInv, Fits
<1> QED
  BY <1>1, <1>2, <1>3 DEF Next, Served

(* Served one at a time, the parser and the review keep the rows within the *)
(* count: where there are more, the audit trail shows the change of the     *)
(* count that update.py let through.                                        *)
THEOREM ServedAloneExceedsByEdit == ASSUME InFlight = 1 PROVE Spec => []RowsExceedOnlyByCountEdit
<1>1. Init => SInv /\ RInv
  BY SInvInit DEF Init, NewProject, RInv, Fits, RowsExceedOnlyByCountEdit, MoreRowsThanCount
<1>2. SInv /\ RInv /\ [Next]_vars => (SInv /\ RInv)'
  BY SInvNext, RInvNext
<1>3. RInv => RowsExceedOnlyByCountEdit
  BY DEF RInv
<1> QED
  BY <1>1, <1>2, <1>3, PTL DEF Spec

-----------------------------------------------------------------------------
(* A confirmation that has taken its proposal: it is past mark_consumed, or *)
(* has left something behind.                                               *)
Took(r, p) ==
  /\ Confirms(r, p)
  /\ pc[r] \notin {"idle", "consume", "refused", "lost"} \/ ~Clean(r)

TakenOnce ==
  \A r, s \in Requests, p \in Requests : r # s /\ Took(r, p) => ~Took(s, p)

TInv == SInv /\ Untouched /\ Delivered /\ Consumes /\ TakenOnce

(* Only the handler of r itself makes r take something.                     *)
LEMMA TookBefore ==
  ASSUME HInv, NEW s \in Requests, Handle(s), NEW r \in Requests, r # s,
         NEW p \in Requests, Took(r, p)'
  PROVE  Took(r, p)
<1>1. pc'[r] = pc[r] /\ call'[r] = call[r]
  BY OthersStay
<1>2. Clean(r) => Clean(r)'
  BY CleanKept DEF Harmless
<1> QED
  BY <1>1, <1>2 DEF Took, Confirms

(* And it takes a proposal only while that is pending: nobody else has.     *)
LEMMA TakesPending ==
  ASSUME TInv, NEW s \in Requests, Handle(s), NEW p \in Requests, Took(s, p)', ~Took(s, p)
  PROVE  Pending(p)
<1>1. HInv /\ Confirms(s, p)'
  BY DEF TInv, SInv, Took
<1>2. CASE pc[s] = "idle" /\ ConfirmProposal(s)
  <2>1. PICK q \in Offered : LookUp(s, q, "consume")
    BY <1>2 DEF ConfirmProposal
  <2>2. pc'[s] \in {"consume", "refused"}
    BY <1>1, <2>1, HoldsAt DEF LookUp, Ends
  <2>3. Clean(s)
    BY <1>2 DEF TInv, Untouched, Unwritten
  <2>4. Clean(s)'
    BY <1>1, <2>2, <2>3, CleanKept DEF Harmless, Unwritten
  <2> QED
    BY <2>2, <2>4 DEF Took
<1>3. CASE call' = call /\ pc[s] \in Running
  <2>1. Confirms(s, p)
    BY <1>1, <1>3 DEF Confirms
  <2>2. pc[s] \in {"idle", "consume", "refused", "lost"}
    BY <2>1 DEF Took
  <2>3. pc[s] = "consume"
    BY <1>3, <2>2 DEF Running
  <2> QED
    BY <2>1, <2>3 DEF TInv, SInv, Fresh, Confirms
<1>4. CASE call'[s].op # "confirm"
  BY <1>1, <1>4 DEF Confirms
<1> QED
  BY <1>1, <1>2, <1>3, <1>4, EntersOrStands

LEMMA TakenOnceNext == TInv /\ [Next]_vars => TakenOnce'
<1> SUFFICES ASSUME TInv, [Next]_vars,
                    NEW r \in Requests, NEW s \in Requests, NEW p \in Requests, r # s,
                    Took(r, p)', Took(s, p)'
             PROVE  FALSE
  BY DEF TakenOnce
<1>1. HInv /\ ~(Took(r, p) /\ Took(s, p))
  BY DEF TInv, SInv, TakenOnce
<1>2. ASSUME NEW a \in Requests, Handle(a), NEW b \in Requests, a # b, Took(a, p)', Took(b, p)'
      PROVE  Took(a, p) /\ Took(b, p)
  <2>1. Took(b, p)
    BY <1>1, <1>2, TookBefore
  <2>2. ~Pending(p)
    BY <2>1 DEF TInv, Consumes, Took
  <2> QED
    BY <1>2, <2>1, <2>2, TakesPending
<1>3. ASSUME NEW a \in Requests, Handle(a) PROVE FALSE
  <2>1. CASE a # r /\ a # s
    BY <1>1, <1>3, <2>1, TookBefore
  <2>2. CASE a = r
    BY <1>1, <1>2, <1>3, <2>2
  <2>3. CASE a = s
    BY <1>1, <1>2, <1>3, <2>3
  <2> QED
    BY <2>1, <2>2, <2>3
<1>4. CASE Crash
  <2>1. ASSUME NEW q \in Requests, Took(q, p)' PROVE Took(q, p)
    <3>1. Confirms(q, p) /\ (Clean(q) => Clean(q)')
      BY <1>1, <1>4, <2>1, CleanCrash DEF Crash, Took, Confirms
    <3>2. pc'[q] \notin {"idle", "consume", "refused", "lost"} => pc'[q] = pc[q]
      BY <1>1, <1>4 DEF Crash, HInv, TypeOK
    <3> QED
      BY <2>1, <3>1, <3>2 DEF Took
  <2> QED
    BY <1>1, <2>1
<1>5. CASE UNCHANGED vars
  BY <1>1, <1>5 DEF vars, stored, Took, Confirms, Clean, Unmarked
<1> QED
  BY <1>3, <1>4, <1>5 DEF Next, Served

(* Served one at a time, at most one confirmation of a proposal ever leaves *)
(* anything behind, wherever the process dies.                              *)
THEOREM ServedAloneAppliesOnce == ASSUME InFlight = 1 PROVE Spec => []AppliedOnce
<1>1. Init => TInv
  <2>1. Init => Untouched
    BY CleanInit DEF Untouched
  <2>2. Init => Delivered /\ Consumes /\ TakenOnce
    BY DEF Init, Delivered, Consumes, TakenOnce, Took, Offered, Confirms
  <2> QED
    BY <2>1, <2>2, SInvInit DEF TInv
<1>2. TInv /\ [Next]_vars => TInv'
  <2> SUFFICES ASSUME TInv, [Next]_vars PROVE TInv'
    OBVIOUS
  <2>1. HInv
    BY DEF TInv, SInv
  <2> QED
    BY <2>1, SInvNext, UntouchedNext, DeliveredNext, ConsumesNext, TakenOnceNext DEF TInv
<1>3. TInv => AppliedOnce
  <2> SUFFICES ASSUME TInv, NEW r \in Requests, NEW s \in Requests, NEW p \in Requests, r # s,
                      Confirms(r, p), Confirms(s, p), Traces(r), Traces(s)
               PROVE  FALSE
    BY DEF AppliedOnce
  <2>1. ~Clean(r) /\ ~Clean(s)
    BY DEF Clean, Unmarked, Unsigned, Traces
  <2> QED
    BY <2>1 DEF TInv, TakenOnce, Took
<1> QED
  BY <1>1, <1>2, <1>3, PTL DEF Spec

=============================================================================
