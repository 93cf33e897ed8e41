----------------------- MODULE IntegrationModeProofs -----------------------
(***************************************************************************)
(* What holds of IntegrationMode for any number of children, any calendar  *)
(* and any number of troubles: the types, and that nothing gets onto main  *)
(* but what the owner merged with a rollup that had not moved, except      *)
(* through the retargeting of a pull request that was about to be merged.  *)
(***************************************************************************)
EXTENDS IntegrationMode, TLAPS

Doings == [at : Steps, child : Children \cup {Nobody}, period : Periods \cup {None},
           list : SUBSET Entries, info : Rollups]

Merging == {"merge", "record", "read", "add", "ask", "carry"}

(* What an actor at work carries.                                           *)
Carries(a) ==
  /\ ~Idle(a) => doing[a].period \in Periods
  /\ a = Tick /\ doing[a].at \in Merging => doing[a].child \in Children

Typed == TypeOK /\ \A a \in Actors : Carries(a)

(* The types of everything but what the actors do.                          *)
RecordsTyped ==
  /\ day \in 1 .. 2 * MaxPeriods + 1 /\ troubles \in 0 .. MaxTroubles
  /\ {period, closedThrough, mine, tree} \subseteq Periods \cup {None}
  /\ integrations \subseteq Entries /\ rollup \in Rollups
  /\ state \in [Children -> {"WORKING", "REVIEW", "READY_FOR_OWNER", "INTEGRATED", "FIX_REQUIRED",
                             "BLOCKED", "DONE"}]
  /\ roll \in [Periods -> {"none", "CI", "READY_FOR_OWNER", "MERGED", "DONE", "BLOCKED"}]
  /\ pr \in [Children -> {"none", "open", "merged", "closed"}]
  /\ base \in [Children -> Periods \cup {None}]
  /\ branches \subseteq Periods /\ stale \subseteq Periods
  /\ on \in [Periods -> SUBSET Children] /\ main \subseteq Children
  /\ mishaps \subseteq {"cut", "overlap", "late", "displaced", "kept"}

-----------------------------------------------------------------------------
(* The actors, and the step of one.                                         *)
LEMMA ActorsApart ==
  /\ Tick \in Actors /\ Finish \in Actors /\ Order \in Actors
  /\ \A c \in Children : Smoke(c) \in Actors
  /\ Tick # Finish /\ Tick # Order /\ Finish # Order
  /\ \A c \in Children : Smoke(c) # Tick /\ Smoke(c) # Finish /\ Smoke(c) # Order
  /\ \A c, d \in Children : Smoke(c) = Smoke(d) => c = d
BY DEF Actors, Threads, Tick, Finish, Order, Smoke

LEMMA TypedParts == TypeOK <=> RecordsTyped /\ doing \in [Actors -> Doings]
BY DEF TypeOK, RecordsTyped, Doings

LEMMA RestingType == Resting \in Doings /\ Resting.at = "idle" /\ NoRollup \in Rollups
BY DEF Resting, Doings, Steps, Rollups, NoRollup

LEMMA DoesType ==
  ASSUME Typed, NEW a \in Actors, NEW next \in Doings, Does(a, next),
         next.at # "idle" => next.period \in Periods,
         a = Tick /\ next.at \in Merging => next.child \in Children
  PROVE  /\ doing' \in [Actors -> Doings]
         /\ \A b \in Actors : Carries(b)'
BY TypedParts DEF Typed, Does, Carries, Idle, At

LEMMA GoesType ==
  ASSUME Typed, NEW a \in Actors, NEW step \in Steps, Goes(a, step), ~Idle(a),
         a = Tick /\ step \in Merging => doing[a].at \in Merging
  PROVE  /\ doing' \in [Actors -> Doings]
         /\ \A b \in Actors : Carries(b)'
<1> DEFINE next == [doing[a] EXCEPT !.at = step]
<1>1. next \in Doings /\ next.period = doing[a].period /\ next.child = doing[a].child /\ next.at = step
  BY TypedParts DEF Typed, Doings
<1>2. doing[a].period \in Periods /\ (a = Tick /\ step \in Merging => doing[a].child \in Children)
  BY DEF Typed, Carries
<1> QED
  BY <1>1, <1>2, DoesType DEF Goes

LEMMA EndsType ==
  ASSUME Typed, NEW a \in Actors, Ends(a)
  PROVE  /\ doing' \in [Actors -> Doings]
         /\ \A b \in Actors : Carries(b)'
BY TypedParts, RestingType DEF Typed, Ends, Carries, Idle, At, Merging

LEMMA StillType ==
  ASSUME Typed, UNCHANGED doing
  PROVE  /\ doing' \in [Actors -> Doings]
         /\ \A b \in Actors : Carries(b)'
BY TypedParts DEF Typed, Carries, Idle, At

-----------------------------------------------------------------------------
(* The types are kept: first what every step relies on.                     *)
LEMMA TypedFacts ==
  ASSUME Typed
  PROVE  /\ RecordsTyped /\ doing \in [Actors -> Doings]
         /\ \A a \in Actors : /\ doing[a] \in Doings /\ doing[a].at \in Steps /\ doing[a].list \subseteq Entries
                              /\ doing[a].info \in Rollups /\ doing[a].period \in Periods \cup {None}
                              /\ doing[a].child \in Children \cup {Nobody}
BY TypedParts DEF Typed, Doings

LEMMA TypedAgain ==
  ASSUME RecordsTyped', doing' \in [Actors -> Doings], \A b \in Actors : Carries(b)'
  PROVE  Typed'
BY TypedParts DEF Typed, TypeOK, RecordsTyped, Doings

LEMMA MishapTypes ==
  /\ \A read, now : Overlap(read, now) \subseteq {"overlap"}
  /\ \A p : Behind(p) \subseteq {"overlap"} /\ TooLate(p) \subseteq {"late"} /\ Displaced(p) \subseteq {"displaced"}
  /\ \A a : Missed(a) \subseteq {"overlap"}
<1>1. \A read, now : Overlap(read, now) \subseteq {"overlap"}
  BY DEF Overlap
<1>2. \A p : Behind(p) \subseteq {"overlap"} /\ TooLate(p) \subseteq {"late"} /\ Displaced(p) \subseteq {"displaced"}
  BY DEF Behind, TooLate, Displaced
<1> QED
  BY <1>1, <1>2 DEF Missed

LEMMA IssuesType ==
  ASSUME NEW es \in SUBSET Entries
  PROVE  IssuesOf(es) \subseteq Children
BY DEF IssuesOf, Entries

LEMMA CalendarTyped ==
  ASSUME RecordsTyped
  PROVE  CalendarPeriod \in Periods \cup {None}
<1>1. day \in Nat /\ day <= 2 * MaxPeriods + 1 /\ day >= 1 /\ MaxPeriods \in Nat
  BY BoundsAssumption DEF RecordsTyped
<1>2. CASE day % 2 = 0
  <2>1. day = 2 * (day \div 2) /\ day \div 2 \in Int
    BY <1>1, <1>2
  <2> QED
    BY <1>1, <1>2, <2>1 DEF CalendarPeriod, Periods
<1>3. CASE day % 2 # 0
  BY <1>3 DEF CalendarPeriod
<1> QED
  BY <1>2, <1>3

LEMMA TroubleType == ASSUME RecordsTyped, Trouble PROVE troubles' \in 0 .. MaxTroubles
BY BoundsAssumption DEF RecordsTyped, Trouble

(* check_period and end_period.                                             *)
LEMMA PeriodsTyped ==
  ASSUME Typed, FollowsEnd \/ StartsPeriod \/ TickEndsPeriod \/ OrderEndsPeriod
  PROVE  Typed'
<1>1. CASE FollowsEnd
  BY <1>1, TypedFacts, StillType, TypedAgain DEF FollowsEnd, RecordsTyped, meta, github
<1>2. CASE StartsPeriod
  <2>1. CalendarPeriod \in Periods
    BY <1>2, TypedFacts, CalendarTyped DEF StartsPeriod, RecordsTyped, None, Periods
  <2> QED
    BY <1>2, <2>1, TypedFacts, StillType, TypedAgain DEF StartsPeriod, RecordsTyped, meta, github
<1>3. CASE TickEndsPeriod
  <2> DEFINE next == [doing[Tick] EXCEPT !.at = "close", !.period = mine, !.list = OfBranch(mine)]
  <2>1. mine \in Periods /\ OfBranch(mine) \subseteq Entries
    BY <1>3, TypedFacts DEF TickEndsPeriod, RecordsTyped, OfBranch
  <2>2. next \in Doings /\ next.period = mine /\ next.at = "close"
    <3>1. doing[Tick] \in Doings /\ "close" \in Steps
      BY TypedFacts, ActorsApart DEF Steps
    <3> QED
      BY <2>1, <3>1 DEF Doings
  <2>3. doing' \in [Actors -> Doings] /\ \A b \in Actors : Carries(b)'
    BY <1>3, <2>1, <2>2, ActorsApart, DoesType DEF TickEndsPeriod, ReadsChildren, Merging
  <2> QED
    BY <1>3, <2>3, TypedFacts, TypedAgain DEF TickEndsPeriod, RecordsTyped, meta, github
<1>4. CASE OrderEndsPeriod
  <2> DEFINE next == [doing[Order] EXCEPT !.at = "close", !.period = period, !.list = OfBranch(period)]
  <2>1. period \in Periods /\ OfBranch(period) \subseteq Entries
    BY <1>4, TypedFacts DEF OrderEndsPeriod, RecordsTyped, OfBranch
  <2>2. next \in Doings /\ next.period = period /\ next.at = "close"
    <3>1. doing[Order] \in Doings /\ "close" \in Steps
      BY TypedFacts, ActorsApart DEF Steps
    <3> QED
      BY <2>1, <3>1 DEF Doings
  <2>3. doing' \in [Actors -> Doings] /\ \A b \in Actors : Carries(b)'
    BY <1>4, <2>1, <2>2, ActorsApart, DoesType DEF OrderEndsPeriod, ReadsChildren, Merging
  <2>4. troubles' \in 0 .. MaxTroubles
    BY <1>4, TypedFacts, TroubleType DEF OrderEndsPeriod
  <2> QED
    BY <1>4, <2>3, <2>4, TypedFacts, TypedAgain DEF OrderEndsPeriod, RecordsTyped, meta, github
<1> QED
  BY <1>1, <1>2, <1>3, <1>4

LEMMA AtWork ==
  ASSUME Typed, NEW a \in Actors, doing[a].at # "idle"
  PROVE  ~Idle(a) /\ doing[a].period \in Periods
BY DEF Typed, Carries, Idle, At

LEMMA DeleteType ==
  ASSUME RecordsTyped, NEW b, NEW mishap \in SUBSET {"cut", "overlap", "late", "displaced", "kept"},
         Delete(b, mishap)
  PROVE  /\ branches' \subseteq Periods /\ pr' \in [Children -> {"none", "open", "merged", "closed"}]
         /\ mishaps' \subseteq {"cut", "overlap", "late", "displaced", "kept"}
         /\ troubles' \in 0 .. MaxTroubles
BY TroubleType DEF Delete, RecordsTyped, Befalls

LEMMA EndPeriodTyped ==
  ASSUME Typed, NEW a \in {Tick, Order}, EndPeriod(a)
  PROVE  Typed'
<1>1. a \in Actors /\ RecordsTyped
  BY ActorsApart, TypedFacts
<1>2. CASE Closes(a) \/ MarksClosed(a)
  <2>1. doing' \in [Actors -> Doings] /\ \A b \in Actors : Carries(b)'
    BY <1>1, <1>2, AtWork, GoesType DEF Closes, MarksClosed, At, Steps, Merging
  <2>2. doing[a].period \in Periods
    BY <1>1, <1>2, AtWork DEF Closes, MarksClosed, At
  <2>3. mishaps' \subseteq {"cut", "overlap", "late", "displaced", "kept"}
    BY <1>1, <1>2 DEF Closes, MarksClosed, Befalls, RecordsTyped
  <2> QED
    BY <1>1, <1>2, <2>1, <2>2, <2>3, TypedAgain DEF Closes, MarksClosed, RecordsTyped, meta, github
<1>3. CASE LooksForRollup(a)
  <2> DEFINE at == IF rollup.period = doing[a].period THEN "refresh"
                   ELSE IF doing[a].list = {} THEN "drop" ELSE "open"
             next == [doing[a] EXCEPT !.info = rollup, !.at = at]
  <2>1. at \in {"refresh", "drop", "open"}
    OBVIOUS
  <2> HIDE DEF at
  <2>2. next \in Doings /\ next.period = doing[a].period /\ next.at = at
    <3>1. doing[a] \in Doings /\ at \in Steps /\ rollup \in Rollups
      BY <1>1, <2>1, TypedFacts DEF Steps, RecordsTyped
    <3> QED
      BY <3>1 DEF Doings
  <2>3. doing[a].period \in Periods
    BY <1>1, <1>3, AtWork DEF LooksForRollup, At
  <2>4. Does(a, next)
    BY <1>3 DEF LooksForRollup, at
  <2>5. doing' \in [Actors -> Doings] /\ \A b \in Actors : Carries(b)'
    BY <1>1, <2>1, <2>2, <2>3, <2>4, DoesType DEF Merging
  <2> QED
    BY <1>1, <1>3, <2>5, TypedAgain DEF LooksForRollup, RecordsTyped, meta, github
<1>4. CASE RefreshesRollup(a) \/ FilesRollup(a)
  <2>1. doing' \in [Actors -> Doings] /\ \A b \in Actors : Carries(b)'
    BY <1>1, <1>4, EndsType DEF RefreshesRollup, FilesRollup
  <2>2. Listed(a) \subseteq Children
    BY <1>1, TypedFacts, IssuesType DEF Listed
  <2>3. rollup' \in Rollups
    BY <1>1, <1>4, <2>2, TypedFacts DEF RefreshesRollup, FilesRollup, Rollups
  <2>4. mishaps' \subseteq {"cut", "overlap", "late", "displaced", "kept"}
    BY <1>1, <1>4, MishapTypes DEF RefreshesRollup, FilesRollup, Befalls, RecordsTyped
  <2> QED
    BY <1>1, <1>4, <2>1, <2>3, <2>4, TypedAgain DEF RefreshesRollup, FilesRollup, RecordsTyped, meta, github
<1>5. CASE DropsBranch(a)
  <2>1. doing' \in [Actors -> Doings] /\ \A b \in Actors : Carries(b)'
    BY <1>1, <1>5, EndsType DEF DropsBranch
  <2>2. /\ branches' \subseteq Periods /\ pr' \in [Children -> {"none", "open", "merged", "closed"}]
        /\ mishaps' \subseteq {"cut", "overlap", "late", "displaced", "kept"}
        /\ troubles' \in 0 .. MaxTroubles
    BY <1>1, <1>5, MishapTypes, DeleteType DEF DropsBranch
  <2> QED
    BY <1>1, <1>5, <2>1, <2>2, TypedAgain DEF DropsBranch, RecordsTyped, meta
<1>6. CASE OpensRollup(a)
  <2>1. doing' \in [Actors -> Doings] /\ \A b \in Actors : Carries(b)'
    BY <1>1, <1>6, AtWork, GoesType DEF OpensRollup, At, Steps, Merging
  <2> QED
    BY <1>1, <1>6, <2>1, TypedAgain DEF OpensRollup, RecordsTyped, meta, github
<1>7. CASE RollupRefused(a)
  <2>1. doing' \in [Actors -> Doings] /\ \A b \in Actors : Carries(b)'
    BY <1>1, <1>7, EndsType DEF RollupRefused
  <2>2. troubles' \in 0 .. MaxTroubles /\ mishaps' \subseteq {"cut", "overlap", "late", "displaced", "kept"}
    BY <1>1, <1>7, TroubleType DEF RollupRefused, RecordsTyped, Befalls
  <2> QED
    BY <1>1, <1>7, <2>1, <2>2, TypedAgain DEF RollupRefused, RecordsTyped, meta, github
<1> QED
  BY <1>2, <1>3, <1>4, <1>5, <1>6, <1>7 DEF EndPeriod

(* Merging a child.                                                         *)
LEMMA MoveType ==
  ASSUME RecordsTyped, NEW c, NEW to \in {"INTEGRATED", "BLOCKED", "FIX_REQUIRED", "DONE"}, MoveOrRaise(c, to)
  PROVE  state' \in [Children -> {"WORKING", "REVIEW", "READY_FOR_OWNER", "INTEGRATED", "FIX_REQUIRED",
                                  "BLOCKED", "DONE"}]
BY DEF MoveOrRaise, RecordsTyped

LEMMA ReadsTyped ==
  ASSUME Typed, NEW a \in Actors, NEW from \in Steps \ {"idle"}, NEW to \in Steps, ReadsIntegrations(a, from, to),
         a = Tick /\ to \in Merging => from \in Merging
  PROVE  Typed'
<1> DEFINE next == [doing[a] EXCEPT !.at = to, !.list = integrations]
<1>1. RecordsTyped /\ doing[a] \in Doings /\ integrations \subseteq Entries
  BY TypedFacts DEF RecordsTyped
<1>2. next \in Doings /\ next.at = to /\ next.period = doing[a].period /\ next.child = doing[a].child
  BY <1>1 DEF Doings
<1>3. doing[a].period \in Periods /\ (a = Tick /\ from \in Merging => doing[a].child \in Children)
  BY DEF Typed, Carries, ReadsIntegrations, Idle, At
<1>4. doing' \in [Actors -> Doings] /\ \A b \in Actors : Carries(b)'
  BY <1>2, <1>3, DoesType DEF ReadsIntegrations
<1> QED
  BY <1>1, <1>4, TypedAgain DEF ReadsIntegrations, RecordsTyped, meta, github

LEMMA SubjectType ==
  ASSUME Typed, doing[Tick].at \in Merging
  PROVE  Subject \in Children /\ Target \in Periods
BY ActorsApart DEF Typed, Carries, Idle, At, Merging, Subject, Target

LEMMA SmokeBegins ==
  ASSUME Typed, doing[Tick].at \in Merging, EndsWithSmoke
  PROVE  doing' \in [Actors -> Doings] /\ \A b \in Actors : Carries(b)'
<1>1. CASE Ends(Tick)
  BY <1>1, ActorsApart, EndsType
<1>2. CASE doing' = [doing EXCEPT ![Tick] = Resting, ![Smoke(Subject)] = [Resting EXCEPT !.at = "run", !.period = Target]]
  <2> DEFINE run == [Resting EXCEPT !.at = "run", !.period = Target]
  <2>1. Subject \in Children /\ Target \in Periods
    BY SubjectType
  <2>2. run \in Doings /\ run.period \in Periods
    BY <2>1, RestingType DEF Doings, Steps
  <2>3. doing' = [doing EXCEPT ![Tick] = Resting, ![Smoke(Subject)] = run]
    BY <1>2
  <2> HIDE DEF run
  <2>4. Smoke(Subject) \in Actors /\ Tick \in Actors /\ Smoke(Subject) # Tick
    BY <2>1, ActorsApart
  <2>5. doing' \in [Actors -> Doings]
    BY <2>2, <2>3, RestingType, TypedFacts
  <2>6. ASSUME NEW b \in Actors PROVE Carries(b)'
    <3>1. doing'[b] = (IF b = Smoke(Subject) THEN run ELSE IF b = Tick THEN Resting ELSE doing[b])
      BY <2>3, <2>4, TypedFacts
    <3> QED
      BY <2>2, <2>4, <3>1, RestingType DEF Typed, Carries, Idle, At, Merging
  <2> QED
    BY <2>5, <2>6
<1> QED
  BY <1>1, <1>2 DEF EndsWithSmoke

LEMMA AimsTyped == ASSUME Typed, NEW c \in Children, Aims(c) PROVE Typed'
<1> DEFINE p == IF mine # None THEN mine ELSE rollup.period
           next == [doing[Tick] EXCEPT !.at = "merge", !.child = c, !.period = p]
<1>1. RecordsTyped /\ doing[Tick] \in Doings
  BY TypedFacts, ActorsApart
<1>2. p \in Periods
  BY <1>1 DEF Aims, Late, RecordsTyped, Rollups
<1>3. Does(Tick, next) /\ base' = [base EXCEPT ![c] = p]
  BY DEF Aims
<1> HIDE DEF p
<1>4. next \in Doings /\ next.at = "merge" /\ next.child = c /\ next.period = p
  BY <1>1, <1>2 DEF Doings, Steps
<1>5. doing' \in [Actors -> Doings] /\ \A b \in Actors : Carries(b)'
  BY <1>2, <1>3, <1>4, ActorsApart, DoesType
<1> QED
  BY <1>1, <1>2, <1>3, <1>5, TypedAgain DEF Aims, RecordsTyped, meta

LEMMA MergesChildTyped == ASSUME Typed, MergesChild PROVE Typed'
<1>1. RecordsTyped /\ Subject \in Children /\ ~Idle(Tick)
  BY TypedFacts, SubjectType DEF MergesChild, At, Merging, Idle
<1>2. doing' \in [Actors -> Doings] /\ \A b \in Actors : Carries(b)'
  BY <1>1, ActorsApart, GoesType DEF MergesChild, At, Steps, Merging
<1>3. mishaps' \subseteq {"cut", "overlap", "late", "displaced", "kept"}
  BY <1>1, MishapTypes DEF MergesChild, Befalls, RecordsTyped
<1>4. base[Subject] \in Periods \cup {None}
  BY <1>1 DEF RecordsTyped
<1>5. /\ main' \subseteq Children /\ on' \in [Periods -> SUBSET Children] /\ stale' \subseteq Periods
      /\ pr' \in [Children -> {"none", "open", "merged", "closed"}]
  BY <1>1, <1>4 DEF MergesChild, RecordsTyped
<1> QED
  BY <1>1, <1>2, <1>3, <1>5, TypedAgain DEF MergesChild, RecordsTyped, meta

LEMMA IntegrateTyped == ASSUME Typed, Integrate PROVE Typed'
<1>1. RecordsTyped /\ Tick \in Actors /\ doing[Tick] \in Doings
  BY ActorsApart, TypedFacts
<1>2. CASE MergeRefused
  <2>1. doing' \in [Actors -> Doings] /\ \A b \in Actors : Carries(b)'
    BY <1>1, <1>2, EndsType DEF MergeRefused
  <2>2. troubles' \in 0 .. MaxTroubles
    BY <1>1, <1>2, TroubleType DEF MergeRefused, RecordsTyped
  <2> QED
    BY <1>1, <1>2, <2>1, <2>2, MoveType, TypedAgain DEF MergeRefused, RecordsTyped, meta, github
<1>3. CASE RecordsIntegrated
  <2>1. doing' \in [Actors -> Doings] /\ \A b \in Actors : Carries(b)'
    BY <1>1, <1>3, EndsType, GoesType DEF RecordsIntegrated, At, Idle, Steps, Merging
  <2> QED
    BY <1>1, <1>3, <2>1, MoveType, TypedAgain DEF RecordsIntegrated, RecordsTyped, meta, github
<1>4. CASE AddsIntegration
  <2> DEFINE next == [doing[Tick] EXCEPT !.at = "ask", !.list = {}]
  <2>1. Subject \in Children /\ Target \in Periods
    BY <1>4, SubjectType DEF AddsIntegration, At, Merging
  <2>2. next \in Doings /\ next.at = "ask" /\ next.child = Subject /\ next.period = Target
    BY <1>1 DEF Doings, Steps, Subject, Target
  <2>3. doing' \in [Actors -> Doings] /\ \A b \in Actors : Carries(b)'
    BY <1>1, <1>4, <2>1, <2>2, DoesType DEF AddsIntegration
  <2>4. integrations' \subseteq Entries
    BY <1>1, <1>4, <2>1, TypedFacts DEF AddsIntegration, Without, Entries
  <2>5. mishaps' \subseteq {"cut", "overlap", "late", "displaced", "kept"}
    BY <1>1, <1>4, MishapTypes DEF AddsIntegration, Befalls, RecordsTyped
  <2> QED
    BY <1>1, <1>4, <2>3, <2>4, <2>5, TypedAgain DEF AddsIntegration, RecordsTyped, github
<1>5. CASE AsksRollup
  <2>1. doing' \in [Actors -> Doings] /\ \A b \in Actors : Carries(b)'
    <3>1. CASE EndsWithSmoke
      BY <1>5, <3>1, SmokeBegins DEF AsksRollup, At, Merging
    <3>2. CASE Does(Tick, [doing[Tick] EXCEPT !.at = "carry", !.info = rollup])
      <4> DEFINE next == [doing[Tick] EXCEPT !.at = "carry", !.info = rollup]
      <4>1. Subject \in Children /\ Target \in Periods
        BY <1>5, SubjectType DEF AsksRollup, At, Merging
      <4>2. next \in Doings /\ next.at = "carry" /\ next.child = Subject /\ next.period = Target
        BY <1>1 DEF Doings, Steps, Subject, Target, RecordsTyped
      <4> QED
        BY <1>1, <3>2, <4>1, <4>2, DoesType
    <3> QED
      BY <1>5, <3>1, <3>2 DEF AsksRollup
  <2> QED
    BY <1>1, <1>5, <2>1, TypedAgain DEF AsksRollup, RecordsTyped, meta, github
<1>6. CASE CarriesToRollup
  <2>1. Subject \in Children
    BY <1>6, SubjectType DEF CarriesToRollup, At, Merging
  <2>2. doing' \in [Actors -> Doings] /\ \A b \in Actors : Carries(b)'
    BY <1>6, SmokeBegins DEF CarriesToRollup, At, Merging
  <2>3. rollup' \in Rollups
    BY <1>1, <1>6, <2>1, TypedFacts DEF CarriesToRollup, Rollups
  <2>4. mishaps' \subseteq {"cut", "overlap", "late", "displaced", "kept"}
    BY <1>1, <1>6, MishapTypes DEF CarriesToRollup, Befalls, RecordsTyped
  <2> QED
    BY <1>1, <1>6, <2>2, <2>3, <2>4, TypedAgain DEF CarriesToRollup, RecordsTyped, github
<1>7. CASE ReadsIntegrations(Tick, "read", "add")
  BY <1>1, <1>7, ReadsTyped DEF Steps, Merging
<1>8. CASE AnswerLost
  <2>1. doing' \in [Actors -> Doings] /\ \A b \in Actors : Carries(b)'
    BY <1>1, <1>8, EndsType DEF AnswerLost
  <2>2. troubles' \in 0 .. MaxTroubles /\ mishaps' \subseteq {"cut", "overlap", "late", "displaced", "kept"}
    BY <1>1, <1>8, TroubleType DEF AnswerLost, Befalls, RecordsTyped
  <2> QED
    BY <1>1, <1>8, <2>1, <2>2, MoveType, TypedAgain DEF AnswerLost, RecordsTyped, meta, github
<1> QED
  BY <1>2, <1>3, <1>4, <1>5, <1>6, <1>7, <1>8, AimsTyped, MergesChildTyped DEF Integrate

(* Reverting, forgetting and excluding.                                     *)
LEMMA RevertType ==
  ASSUME RecordsTyped, NEW c, NEW p \in Periods, NEW mishap \in SUBSET {"overlap"}, Reverts(c, p, mishap)
  PROVE  /\ on' \in [Periods -> SUBSET Children] /\ stale' \subseteq Periods /\ branches' \subseteq Periods
         /\ tree' \in Periods \cup {None}
         /\ mishaps' \subseteq {"cut", "overlap", "late", "displaced", "kept"}
BY MishapTypes DEF Reverts, RecordsTyped, Befalls

LEMMA ForgetsTyped ==
  ASSUME Typed, NEW a \in Actors \ {Tick}, NEW c, NEW next \in Steps, Forgets(a, c, next)
  PROVE  Typed'
<1> DEFINE after == [doing[a] EXCEPT !.at = next, !.list = {}]
<1>1. RecordsTyped /\ doing[a] \in Doings /\ doing[a].list \subseteq Entries
  BY TypedFacts
<1>2. after \in Doings /\ after.at = next /\ after.period = doing[a].period
  BY <1>1 DEF Doings
<1>3. doing[a].period \in Periods
  BY AtWork DEF Forgets, At
<1>4. doing' \in [Actors -> Doings] /\ \A b \in Actors : Carries(b)'
  BY <1>2, <1>3, DoesType DEF Forgets
<1>5. integrations' \subseteq Entries /\ mishaps' \subseteq {"cut", "overlap", "late", "displaced", "kept"}
  BY <1>1, MishapTypes DEF Forgets, Without, Befalls, RecordsTyped
<1> QED
  BY <1>1, <1>4, <1>5, TypedAgain DEF Forgets, RecordsTyped, github

LEMMA SmokeTyped == ASSUME Typed, NEW c \in Children, SmokeStep(c) PROVE Typed'
<1>1. RecordsTyped /\ Smoke(c) \in Actors \ {Tick}
  BY ActorsApart, TypedFacts
<1>2. CASE SmokeEnds(c) \/ SmokeCannotRevert(c)
  <2>1. doing' \in [Actors -> Doings] /\ \A b \in Actors : Carries(b)'
    BY <1>1, <1>2, EndsType, GoesType DEF SmokeEnds, SmokeCannotRevert, At, Idle, Steps
  <2>2. troubles' \in 0 .. MaxTroubles
    BY <1>1, <1>2, TroubleType DEF SmokeEnds, SmokeCannotRevert, RecordsTyped
  <2> QED
    BY <1>1, <1>2, <2>1, <2>2, TypedAgain DEF SmokeEnds, SmokeCannotRevert, RecordsTyped, meta, github
<1>3. CASE SmokeReverts(c)
  <2>1. doing' \in [Actors -> Doings] /\ \A b \in Actors : Carries(b)'
    BY <1>1, <1>3, GoesType DEF SmokeReverts, At, Idle, Steps
  <2>2. doing[Smoke(c)].period \in Periods
    BY <1>1, <1>3, AtWork DEF SmokeReverts, At
  <2>3. /\ on' \in [Periods -> SUBSET Children] /\ stale' \subseteq Periods /\ branches' \subseteq Periods
        /\ tree' \in Periods \cup {None}
        /\ mishaps' \subseteq {"cut", "overlap", "late", "displaced", "kept"}
    BY <1>1, <1>3, <2>2, RevertType DEF SmokeReverts
  <2> QED
    BY <1>1, <1>3, <2>1, <2>3, TypedAgain DEF SmokeReverts, RecordsTyped, meta
<1>4. CASE SmokeSendsBack(c)
  <2>1. doing' \in [Actors -> Doings] /\ \A b \in Actors : Carries(b)'
    BY <1>1, <1>4, EndsType DEF SmokeSendsBack
  <2>2. mishaps' \subseteq {"cut", "overlap", "late", "displaced", "kept"}
    BY <1>1, <1>4 DEF SmokeSendsBack, Befalls, RecordsTyped
  <2> QED
    BY <1>1, <1>4, <2>1, <2>2, MoveType, TypedAgain DEF SmokeSendsBack, RecordsTyped, meta, github
<1>5. CASE ReadsIntegrations(Smoke(c), "forget", "erase")
  BY <1>1, <1>5, ReadsTyped DEF Steps
<1>6. CASE Forgets(Smoke(c), c, "back")
  BY <1>1, <1>6, ForgetsTyped DEF Steps
<1> QED
  BY <1>2, <1>3, <1>4, <1>5, <1>6 DEF SmokeStep

LEMMA ExcludeBeginsTyped == ASSUME Typed, NEW c \in Children, ExcludeBegins(c) PROVE Typed'
<1>1. RecordsTyped /\ Order \in Actors /\ Order # Tick /\ doing[Order] \in Doings
  BY ActorsApart, TypedFacts
<1>2. PICK e \in integrations :
        Does(Order, [doing[Order] EXCEPT !.at = "undo", !.child = c, !.period = e.branch, !.info = rollup])
  BY DEF ExcludeBegins
<1> DEFINE next == [doing[Order] EXCEPT !.at = "undo", !.child = c, !.period = e.branch, !.info = rollup]
<1>3. e.branch \in Periods /\ rollup \in Rollups /\ troubles' \in 0 .. MaxTroubles
  BY <1>1, TroubleType DEF RecordsTyped, Entries, ExcludeBegins
<1>4. next \in Doings /\ next.at = "undo" /\ next.period = e.branch
  BY <1>1, <1>3 DEF Doings, Steps
<1>5. doing' \in [Actors -> Doings] /\ \A b \in Actors : Carries(b)'
  BY <1>1, <1>2, <1>3, <1>4, DoesType
<1> QED
  BY <1>1, <1>3, <1>5, TypedAgain DEF ExcludeBegins, RecordsTyped, meta, github

LEMMA ExcludeTyped == ASSUME Typed, ExcludeStep PROVE Typed'
<1>1. RecordsTyped /\ Order \in Actors \ {Tick} /\ doing[Order] \in Doings /\ doing[Order].info \in Rollups
  BY ActorsApart, TypedFacts
<1>2. CASE ExcludeReverts
  <2>1. doing' \in [Actors -> Doings] /\ \A b \in Actors : Carries(b)'
    BY <1>1, <1>2, GoesType DEF ExcludeReverts, At, Idle, Steps
  <2>2. doing[Order].period \in Periods
    BY <1>1, <1>2, AtWork DEF ExcludeReverts, At
  <2>3. PICK c \in {doing[Order].child}, p \in Periods : p = doing[Order].period /\ Reverts(c, p, Behind(p))
    BY <1>2, <2>2 DEF ExcludeReverts
  <2>4. /\ on' \in [Periods -> SUBSET Children] /\ stale' \subseteq Periods /\ branches' \subseteq Periods
        /\ tree' \in Periods \cup {None}
        /\ mishaps' \subseteq {"cut", "overlap", "late", "displaced", "kept"}
    BY <1>1, <2>3, RevertType, MishapTypes
  <2> QED
    BY <1>1, <1>2, <2>1, <2>4, TypedAgain DEF ExcludeReverts, RecordsTyped, meta
<1>3. CASE ExcludeRefused
  BY <1>1, <1>3, EndsType, TypedAgain DEF ExcludeRefused, RecordsTyped, meta, github
<1>4. CASE ReadsIntegrations(Order, "strike", "erase")
  BY <1>1, <1>4, ReadsTyped DEF Steps
<1>5. CASE Forgets(Order, doing[Order].child, "unlist")
  BY <1>1, <1>5, ForgetsTyped DEF Steps
<1>6. CASE ExcludeUnlists
  <2> DEFINE next == [doing[Order] EXCEPT !.at = "exclude", !.info = NoRollup]
  <2>1. next \in Doings /\ next.at = "exclude" /\ next.period = doing[Order].period
    BY <1>1, RestingType DEF Doings, Steps
  <2>2. doing[Order].period \in Periods
    BY <1>1, <1>6, AtWork DEF ExcludeUnlists, At
  <2>3. doing' \in [Actors -> Doings] /\ \A b \in Actors : Carries(b)'
    BY <1>1, <1>6, <2>1, <2>2, DoesType DEF ExcludeUnlists
  <2>4. rollup' \in Rollups /\ mishaps' \subseteq {"cut", "overlap", "late", "displaced", "kept"}
    BY <1>1, <1>6, MishapTypes DEF ExcludeUnlists, Rollups, Befalls, RecordsTyped
  <2> QED
    BY <1>1, <1>6, <2>3, <2>4, TypedAgain DEF ExcludeUnlists, RecordsTyped, github
<1>7. CASE ExcludeBlocks
  <2>1. doing' \in [Actors -> Doings] /\ \A b \in Actors : Carries(b)'
    BY <1>1, <1>7, EndsType DEF ExcludeBlocks
  <2>2. state' \in [Children -> {"WORKING", "REVIEW", "READY_FOR_OWNER", "INTEGRATED", "FIX_REQUIRED",
                                 "BLOCKED", "DONE"}]
    BY <1>1, <1>7 DEF ExcludeBlocks, RecordsTyped
  <2> QED
    BY <1>1, <1>7, <2>1, <2>2, TypedAgain DEF ExcludeBlocks, RecordsTyped, meta, github
<1> QED
  BY <1>2, <1>3, <1>4, <1>5, <1>6, <1>7 DEF ExcludeStep

(* Finishing a rollup.                                                      *)
LEMMA FinishTyped == ASSUME Typed, FinishStep PROVE Typed'
<1>1. RecordsTyped /\ Finish \in Actors \ {Tick} /\ doing[Finish] \in Doings
      /\ doing[Finish].list \subseteq Entries
  BY ActorsApart, TypedFacts
<1>2. CASE FinishGathers
  <2> DEFINE p == IF rollup.period # None THEN rollup.period ELSE doing[Finish].period
             next == [doing[Finish] EXCEPT !.at = "retarget", !.info = rollup, !.period = p]
  <2>1. doing[Finish].period \in Periods
    BY <1>1, <1>2, AtWork DEF FinishGathers, At
  <2>2. p \in Periods /\ rollup \in Rollups
    BY <1>1, <2>1 DEF RecordsTyped, Rollups
  <2>3. Does(Finish, next)
    BY <1>1, <1>2 DEF FinishGathers, Doings
  <2> HIDE DEF p
  <2>4. next \in Doings /\ next.at = "retarget" /\ next.period = p
    BY <1>1, <2>2 DEF Doings, Steps
  <2>5. doing' \in [Actors -> Doings] /\ \A b \in Actors : Carries(b)'
    BY <1>1, <2>2, <2>3, <2>4, DoesType
  <2>6. state' \in [Children -> {"WORKING", "REVIEW", "READY_FOR_OWNER", "INTEGRATED", "FIX_REQUIRED",
                                 "BLOCKED", "DONE"}]
    BY <1>1, <1>2 DEF FinishGathers, RecordsTyped
  <2>7. mishaps' \subseteq {"cut", "overlap", "late", "displaced", "kept"}
    BY <1>1, <1>2, MishapTypes DEF FinishGathers, Befalls, RecordsTyped
  <2> QED
    BY <1>1, <1>2, <2>5, <2>6, <2>7, TypedAgain DEF FinishGathers, RecordsTyped, meta, github
<1>3. CASE FinishRetargets
  <2>1. doing' \in [Actors -> Doings] /\ \A b \in Actors : Carries(b)'
    BY <1>1, <1>3, GoesType DEF FinishRetargets, At, Idle, Steps
  <2>2. base' \in [Children -> Periods \cup {None}] /\ troubles' \in 0 .. MaxTroubles
    BY <1>1, <1>3, TroubleType DEF FinishRetargets, RecordsTyped
  <2> QED
    BY <1>1, <1>3, <2>1, <2>2, TypedAgain DEF FinishRetargets, RecordsTyped, meta
<1>4. CASE FinishDeletes
  <2>1. doing' \in [Actors -> Doings] /\ \A b \in Actors : Carries(b)'
    BY <1>1, <1>4, GoesType DEF FinishDeletes, At, Idle, Steps
  <2>2. /\ branches' \subseteq Periods /\ pr' \in [Children -> {"none", "open", "merged", "closed"}]
        /\ mishaps' \subseteq {"cut", "overlap", "late", "displaced", "kept"}
        /\ troubles' \in 0 .. MaxTroubles
    BY <1>1, <1>4, DeleteType DEF FinishDeletes
  <2> QED
    BY <1>1, <1>4, <2>1, <2>2, TypedAgain DEF FinishDeletes, RecordsTyped, meta
<1>5. CASE FinishClears
  <2> DEFINE next == [doing[Finish] EXCEPT !.at = "tidy", !.info = NoRollup]
  <2>1. next \in Doings /\ next.at = "tidy" /\ next.period = doing[Finish].period
    BY <1>1, RestingType DEF Doings, Steps
  <2>2. doing[Finish].period \in Periods
    BY <1>1, <1>5, AtWork DEF FinishClears, At
  <2>3. doing' \in [Actors -> Doings] /\ \A b \in Actors : Carries(b)'
    BY <1>1, <1>5, <2>1, <2>2, DoesType DEF FinishClears
  <2>4. rollup' \in Rollups /\ mishaps' \subseteq {"cut", "overlap", "late", "displaced", "kept"}
    BY <1>1, <1>5, RestingType, MishapTypes DEF FinishClears, Befalls, RecordsTyped
  <2> QED
    BY <1>1, <1>5, <2>3, <2>4, TypedAgain DEF FinishClears, RecordsTyped, github
<1>6. CASE ReadsIntegrations(Finish, "tidy", "prune")
  BY <1>1, <1>6, ReadsTyped DEF Steps
<1>7. CASE FinishTidies
  <2>1. doing' \in [Actors -> Doings] /\ \A b \in Actors : Carries(b)'
    BY <1>1, <1>7, EndsType DEF FinishTidies
  <2>2. integrations' \subseteq Entries /\ mishaps' \subseteq {"cut", "overlap", "late", "displaced", "kept"}
    BY <1>1, <1>7, MishapTypes DEF FinishTidies, Befalls, RecordsTyped
  <2> QED
    BY <1>1, <1>7, <2>1, <2>2, TypedAgain DEF FinishTidies, RecordsTyped, github
<1> QED
  BY <1>2, <1>3, <1>4, <1>5, <1>6, <1>7 DEF FinishStep

LEMMA RollupTyped ==
  ASSUME Typed, NEW p \in Periods,
         RollupReadies(p) \/ RollupInvalidated(p) \/ RollupClosed(p) \/ OwnerMerges(p) \/ MainSmokeEnds(p)
  PROVE  Typed'
<1>1. RecordsTyped /\ Finish \in Actors \ {Tick} /\ doing[Finish] \in Doings
  BY ActorsApart, TypedFacts
<1>2. roll' \in [Periods -> {"none", "CI", "READY_FOR_OWNER", "MERGED", "DONE", "BLOCKED"}]
  BY <1>1 DEF RollupReadies, RollupInvalidated, RollupClosed, OwnerMerges, MainSmokeEnds, RecordsTyped
<1>3. CASE RollupReadies(p) \/ RollupInvalidated(p) \/ RollupClosed(p)
  BY <1>1, <1>2, <1>3, StillType, TypedAgain
  DEF RollupReadies, RollupInvalidated, RollupClosed, RecordsTyped, meta, github
<1>4. CASE OwnerMerges(p)
  <2>1. main' \subseteq Children
    BY <1>1, <1>4 DEF OwnerMerges, RecordsTyped
  <2> QED
    BY <1>1, <1>2, <1>4, <2>1, StillType, TypedAgain DEF OwnerMerges, RecordsTyped, meta
<1>5. CASE MainSmokeEnds(p)
  <2>1. doing' \in [Actors -> Doings] /\ \A b \in Actors : Carries(b)'
    <3>1. CASE UNCHANGED doing
      BY <3>1, StillType
    <3>2. CASE Does(Finish, [doing[Finish] EXCEPT !.at = "gather", !.period = p])
      <4> DEFINE next == [doing[Finish] EXCEPT !.at = "gather", !.period = p]
      <4>1. next \in Doings /\ next.at = "gather" /\ next.period = p
        BY <1>1 DEF Doings, Steps
      <4> QED
        BY <1>1, <3>2, <4>1, DoesType
    <3> QED
      BY <1>5, <3>1, <3>2 DEF MainSmokeEnds
  <2>2. troubles' \in 0 .. MaxTroubles /\ mishaps' \subseteq {"cut", "overlap", "late", "displaced", "kept"}
    BY <1>1, <1>5, TroubleType DEF MainSmokeEnds, RecordsTyped, Befalls
  <2> QED
    BY <1>1, <1>2, <1>5, <2>1, <2>2, TypedAgain DEF MainSmokeEnds, RecordsTyped, meta, github
<1> QED
  BY <1>3, <1>4, <1>5

LEMMA ChildTyped ==
  ASSUME Typed, NEW c \in Children, OpensPR(c) \/ Reconciles(c) \/ Readies(c)
  PROVE  Typed'
<1>1. RecordsTyped
  BY TypedFacts
<1>2. CASE OpensPR(c)
  <2>1. /\ base' \in [Children -> Periods \cup {None}]
        /\ pr' \in [Children -> {"none", "open", "merged", "closed"}]
        /\ state' \in [Children -> {"WORKING", "REVIEW", "READY_FOR_OWNER", "INTEGRATED", "FIX_REQUIRED",
                                    "BLOCKED", "DONE"}]
    BY <1>1, <1>2 DEF OpensPR, RecordsTyped
  <2> QED
    BY <1>1, <1>2, <2>1, StillType, TypedAgain DEF OpensPR, RecordsTyped, meta
<1>3. CASE Reconciles(c) \/ Readies(c)
  <2>1. state' \in [Children -> {"WORKING", "REVIEW", "READY_FOR_OWNER", "INTEGRATED", "FIX_REQUIRED",
                                 "BLOCKED", "DONE"}]
    BY <1>1, <1>3 DEF Reconciles, Readies, RecordsTyped
  <2>2. UNCHANGED <<day, period, closedThrough, integrations, rollup, mine, roll, pr, base, branches, on, main,
                    stale, tree, doing, troubles, mishaps>>
    BY <1>3 DEF Reconciles, Readies, meta, github
  <2>3. RecordsTyped'
    BY <1>1, <2>1, <2>2 DEF RecordsTyped
  <2> QED
    BY <2>2, <2>3, StillType, TypedAgain
<1> QED
  BY <1>2, <1>3

LEMMA KillTyped == ASSUME Typed, Kill PROVE Typed'
<1>1. RecordsTyped /\ Threads \subseteq Actors
  BY TypedFacts DEF Actors
<1>2. \A a \in Actors : doing'[a] = (IF a \in Threads THEN Resting ELSE doing[a])
  BY DEF Kill
<1>3. doing' \in [Actors -> Doings]
  BY TypedFacts, RestingType DEF Kill
<1>4. ASSUME NEW a \in Actors PROVE Carries(a)'
  BY <1>2, <1>4, RestingType DEF Typed, Carries, Idle, At, Merging
<1>5. troubles' \in 0 .. MaxTroubles
  BY <1>1, TroubleType DEF Kill
<1>6. mine' \in Periods \cup {None} /\ mishaps' \subseteq {"cut", "overlap", "late", "displaced", "kept"}
  BY <1>1 DEF Kill, Befalls, RecordsTyped
<1> QED
  BY <1>1, <1>3, <1>4, <1>5, <1>6, TypedAgain DEF Kill, RecordsTyped, meta, github

LEMMA TypedInit == Init => Typed
<1> SUFFICES ASSUME Init PROVE Typed
  OBVIOUS
<1>1. doing \in [Actors -> Doings] /\ \A a \in Actors : doing[a].at = "idle"
  BY RestingType DEF Init
<1>2. RecordsTyped
  <2>1. day \in 1 .. 2 * MaxPeriods + 1 /\ troubles \in 0 .. MaxTroubles
    BY BoundsAssumption DEF Init
  <2>2. {period, closedThrough, mine, tree} \subseteq Periods \cup {None}
    BY DEF Init, None
  <2>3. rollup \in Rollups /\ integrations \subseteq Entries
    BY RestingType DEF Init
  <2> QED
    BY <2>1, <2>2, <2>3 DEF Init, RecordsTyped
<1> QED
  BY <1>1, <1>2, TypedParts DEF Typed, Carries, Idle, At, Merging

LEMMA TypedNext == Typed /\ [Next]_vars => Typed'
<1> SUFFICES ASSUME Typed, [Next]_vars PROVE Typed'
  OBVIOUS
<1>1. CASE TickStep
  BY <1>1, PeriodsTyped, EndPeriodTyped, IntegrateTyped DEF TickStep
<1>2. CASE FinishStep
  BY <1>2, FinishTyped
<1>3. CASE NextDay
  <2>1. day' \in 1 .. 2 * MaxPeriods + 1
    BY <1>3, TypedFacts, BoundsAssumption DEF NextDay, RecordsTyped
  <2> QED
    BY <1>3, <2>1, TypedFacts, StillType, TypedAgain DEF NextDay, RecordsTyped, meta, github
<1>4. CASE Kill
  BY <1>4, KillTyped
<1>5. CASE OrderEndsPeriod \/ EndPeriod(Order) \/ ExcludeStep
  BY <1>5, PeriodsTyped, EndPeriodTyped, ExcludeTyped
<1>6. ASSUME NEW c \in Children,
             OpensPR(c) \/ Reconciles(c) \/ Readies(c) \/ SmokeStep(c) \/ ExcludeBegins(c)
      PROVE  Typed'
  BY <1>6, ChildTyped, SmokeTyped, ExcludeBeginsTyped
<1>7. ASSUME NEW p \in Periods,
             RollupReadies(p) \/ RollupInvalidated(p) \/ RollupClosed(p) \/ OwnerMerges(p) \/ MainSmokeEnds(p)
      PROVE  Typed'
  BY <1>7, RollupTyped
<1>8. CASE UNCHANGED vars
  BY <1>8, TypedFacts, StillType, TypedAgain DEF vars, RecordsTyped, meta, github
<1> QED
  BY <1>1, <1>2, <1>3, <1>4, <1>5, <1>6, <1>7, <1>8 DEF Next

(* Every variable keeps its type, and what an actor carries between two of  *)
(* its steps is what the code's local variables hold.                       *)
THEOREM TypeCorrect == Spec => []TypeOK
<1>1. Typed => TypeOK
  BY DEF Typed
<1> QED
  BY TypedInit, TypedNext, <1>1, PTL DEF Spec

-----------------------------------------------------------------------------
(* What main depends on.  A child the Team Lead is merging is in REVIEW and *)
(* none of its smoke tests is still at work (so nothing sends it back and   *)
(* opens its pull request anew), and the pull request aims at the branch it *)
(* was aimed at, unless the rollup of that very branch turned it to main.   *)
Settled == {"INTEGRATED", "BLOCKED", "DONE"}

Justified(p) == roll[p] = "DONE" \/ "displaced" \in mishaps

Watched == \A c \in Children : ~Idle(Smoke(c)) => state[c] \in Settled

InHand ==
  /\ doing[Tick].at \in {"merge", "record"} => state[Subject] = "REVIEW"
  /\ doing[Tick].at \in {"read", "add", "ask", "carry"} => state[Subject] \in Settled
  /\ doing[Tick].at \in Merging => Idle(Smoke(Subject))

Aimed == At(Tick, "merge") => base[Subject] = Target \/ (base[Subject] = None /\ Justified(Target))

Landing == ~Idle(Finish) => Justified(doing[Finish].period)

KInv == Typed /\ Watched /\ InHand /\ Aimed /\ Landing

(* A finished rollup stays finished, and what befell stays on record.       *)
Lasts ==
  /\ \A p \in Periods : roll[p] = "DONE" => roll'[p] = "DONE"
  /\ mishaps \subseteq mishaps'

LEMMA LastsNext == ASSUME Typed, [Next]_vars PROVE Lasts
<1>1. RecordsTyped
  BY TypedFacts
<1>2. CASE FollowsEnd \/ StartsPeriod \/ TickEndsPeriod \/ OrderEndsPeriod \/ NextDay \/ UNCHANGED vars
  BY <1>2 DEF FollowsEnd, StartsPeriod, TickEndsPeriod, OrderEndsPeriod, NextDay, vars, Lasts
<1>3. ASSUME NEW a, EndPeriod(a) PROVE Lasts
  <2>1. CASE OpensRollup(a)
    BY <1>1, <2>1 DEF OpensRollup, Lasts, RecordsTyped
  <2>2. CASE ~OpensRollup(a)
    BY <1>3, <2>2 DEF EndPeriod, Closes, MarksClosed, LooksForRollup, RefreshesRollup, DropsBranch, Delete,
                      RollupRefused, FilesRollup, Befalls, Lasts
  <2> QED
    BY <2>1, <2>2
<1>4. CASE Integrate
  <2>1. ASSUME NEW c \in Children, Aims(c) PROVE Lasts
    BY <2>1 DEF Aims, Lasts
  <2>2. CASE MergesChild \/ MergeRefused \/ AnswerLost \/ RecordsIntegrated \/ ReadsIntegrations(Tick, "read", "add")
             \/ AddsIntegration \/ AsksRollup \/ CarriesToRollup
    BY <2>2 DEF MergesChild, MergeRefused, AnswerLost, RecordsIntegrated, ReadsIntegrations, AddsIntegration, AsksRollup,
                CarriesToRollup, Befalls, Lasts
  <2> QED
    BY <1>4, <2>1, <2>2 DEF Integrate
<1>5. CASE FinishStep
  BY <1>5 DEF FinishStep, FinishGathers, FinishRetargets, FinishDeletes, Delete, FinishClears, ReadsIntegrations,
              FinishTidies, Befalls, Lasts
<1>6. CASE Kill
  BY <1>6 DEF Kill, Befalls, Lasts
<1>7. CASE ExcludeStep
  BY <1>7 DEF ExcludeStep, ExcludeReverts, Reverts, ExcludeRefused, ReadsIntegrations, Forgets, ExcludeUnlists,
              ExcludeBlocks, Befalls, Lasts
<1>8. ASSUME NEW c \in Children,
             OpensPR(c) \/ Reconciles(c) \/ Readies(c) \/ SmokeStep(c) \/ ExcludeBegins(c)
      PROVE  Lasts
  <2>1. CASE SmokeStep(c)
    BY <2>1 DEF SmokeStep, SmokeEnds, SmokeReverts, Reverts, SmokeCannotRevert, ReadsIntegrations, Forgets,
                SmokeSendsBack, Befalls, Lasts
  <2> QED
    BY <1>8, <2>1 DEF OpensPR, Reconciles, Readies, ExcludeBegins, Lasts
<1>9. ASSUME NEW p \in Periods,
             RollupReadies(p) \/ RollupInvalidated(p) \/ RollupClosed(p) \/ OwnerMerges(p) \/ MainSmokeEnds(p)
      PROVE  Lasts
  BY <1>1, <1>9 DEF RollupReadies, RollupInvalidated, RollupClosed, OwnerMerges, MainSmokeEnds, Befalls, Lasts,
                    RecordsTyped
<1> QED
  BY <1>2, <1>3, <1>4, <1>5, <1>6, <1>7, <1>8, <1>9 DEF Next, TickStep

LEMMA JustifiedStays ==
  ASSUME Lasts, NEW p \in Periods, Justified(p)
  PROVE  Justified(p)'
BY DEF Lasts, Justified

(* What one actor's step leaves alone.                                      *)
LEMMA MovesOne ==
  ASSUME Typed, NEW a \in Actors, NEW next, Does(a, next)
  PROVE  doing'[a] = next /\ \A b \in Actors \ {a} : doing'[b] = doing[b]
BY TypedFacts DEF Does

LEMMA EndsOne ==
  ASSUME Typed, NEW a \in Actors, Ends(a)
  PROVE  doing'[a].at = "idle" /\ \A b \in Actors \ {a} : doing'[b] = doing[b]
BY TypedFacts, RestingType DEF Ends

LEMMA GoesOne ==
  ASSUME Typed, NEW a \in Actors, NEW step, Goes(a, step)
  PROVE  /\ doing'[a].at = step /\ doing'[a].period = doing[a].period /\ doing'[a].child = doing[a].child
         /\ \A b \in Actors \ {a} : doing'[b] = doing[b]
<1>1. doing[a] \in Doings
  BY TypedFacts
<1>2. doing'[a] = [doing[a] EXCEPT !.at = step] /\ \A b \in Actors \ {a} : doing'[b] = doing[b]
  BY MovesOne DEF Goes
<1> QED
  BY <1>1, <1>2 DEF Doings

(* A step of anyone that does not take a merge further, start a smoke test  *)
(* or send a child back.                                                    *)
Tame(c) ==
  \/ state'[c] = state[c]
  \/ /\ state[c] \in Settled => state'[c] \in Settled
     /\ state[c] = "REVIEW" => doing'[Tick].at \notin Merging

TickApart  == doing'[Tick] = doing[Tick] \/ doing'[Tick].at \notin Merging
NoNewSmoke == \A c \in Children : Idle(Smoke(c))' \/ ~Idle(Smoke(c))

LEMMA TameStep ==
  ASSUME KInv, Typed', Lasts, TickApart, NoNewSmoke, Landing', \A c \in Children : Tame(c),
         At(Tick, "merge") /\ doing'[Tick] = doing[Tick] =>
           base'[Subject] = base[Subject] \/ (base'[Subject] = None /\ Justified(Target)')
  PROVE  KInv'
<1>1. CASE doing'[Tick].at \notin Merging
  <2>1. Watched'
    BY DEF KInv, Watched, NoNewSmoke, Tame
  <2>2. InHand' /\ Aimed'
    BY <1>1 DEF InHand, Aimed, Merging, At
  <2> QED
    BY <2>1, <2>2 DEF KInv
<1>2. CASE doing'[Tick].at \in Merging /\ doing'[Tick] = doing[Tick]
  <2>1. Subject \in Children /\ Target \in Periods /\ Subject' = Subject /\ Target' = Target
    BY <1>2, SubjectType DEF KInv, Subject, Target
  <2>2. Watched'
    BY DEF KInv, Watched, NoNewSmoke, Tame
  <2>3. state[Subject] = "REVIEW" => state'[Subject] = "REVIEW"
    BY <1>2, <2>1 DEF Tame
  <2>4. state[Subject] \in Settled => state'[Subject] \in Settled
    BY <2>1 DEF Tame
  <2>5. Idle(Smoke(Subject)) => Idle(Smoke(Subject))'
    BY <2>1 DEF NoNewSmoke
  <2>6. InHand'
    BY <1>2, <2>1, <2>3, <2>4, <2>5 DEF KInv, InHand
  <2>7. Aimed'
    BY <1>2, <2>1, JustifiedStays DEF KInv, Aimed, At
  <2> QED
    BY <2>2, <2>6, <2>7 DEF KInv
<1> QED
  BY <1>1, <1>2 DEF TickApart

LEMMA LandingStays ==
  ASSUME KInv, Lasts,
         Idle(Finish)' \/ (~Idle(Finish) /\ doing'[Finish].period = doing[Finish].period)
  PROVE  Landing'
<1>1. CASE Idle(Finish)'
  BY <1>1 DEF Landing
<1>2. CASE ~Idle(Finish) /\ doing'[Finish].period = doing[Finish].period
  <2>1. doing[Finish].period \in Periods
    BY <1>2, ActorsApart DEF KInv, Typed, Carries
  <2>2. Justified(doing[Finish].period)'
    BY <1>2, <2>1 DEF KInv, Landing, Lasts, Justified
  <2> QED
    BY <1>2, <2>2 DEF Landing, Justified
<1> QED
  BY <1>1, <1>2

(* The step of an actor that is not at a merge, with the children's states  *)
(* and the pull requests' bases left alone.                                 *)
LEMMA ApartStep ==
  ASSUME KInv, Typed', Lasts, UNCHANGED <<state, base>>,
         NEW a \in Actors, \A b \in Actors \ {a} : doing'[b] = doing[b],
         a = Tick => doing'[Tick].at \notin Merging,
         a # Tick /\ a # Order => ~Idle(a) /\ (Idle(a)' \/ doing'[a].period = doing[a].period)
  PROVE  KInv'
<1>1. TickApart
  BY ActorsApart DEF TickApart
<1>2. NoNewSmoke
  <2> SUFFICES ASSUME NEW c \in Children PROVE Idle(Smoke(c))' \/ ~Idle(Smoke(c))
    BY DEF NoNewSmoke
  <2> QED
    BY ActorsApart DEF Idle, At
<1>3. Idle(Finish)' \/ (~Idle(Finish) /\ doing'[Finish].period = doing[Finish].period)
  BY ActorsApart DEF Idle, At
<1>4. \A c \in Children : Tame(c)
  BY DEF Tame
<1> QED
  BY <1>1, <1>2, <1>3, <1>4, LandingStays, TameStep

(* The end of a period, by the tick or by an order.                         *)
LEMMA PeriodsKeep ==
  ASSUME KInv, Typed', Lasts,
         FollowsEnd \/ StartsPeriod \/ TickEndsPeriod \/ OrderEndsPeriod \/ EndPeriod(Tick) \/ EndPeriod(Order)
  PROVE  KInv'
<1>1. Typed /\ Tick \in Actors /\ Order \in Actors
  BY ActorsApart DEF KInv
<1>2. CASE FollowsEnd \/ StartsPeriod
  <2>1. UNCHANGED <<state, base, doing>> /\ Idle(Tick)
    BY <1>2 DEF FollowsEnd, StartsPeriod, github
  <2>2. doing'[Tick].at \notin Merging
    BY <2>1 DEF Idle, At, Merging
  <2> QED
    BY <1>1, <2>1, <2>2, ActorsApart, ApartStep
<1>3. CASE TickEndsPeriod
  <2>1. UNCHANGED <<state, base>> /\ ReadsChildren(Tick, mine)
    BY <1>3 DEF TickEndsPeriod, github
  <2>2. /\ doing'[Tick] = [doing[Tick] EXCEPT !.at = "close", !.period = mine, !.list = OfBranch(mine)]
        /\ \A b \in Actors \ {Tick} : doing'[b] = doing[b]
    BY <1>1, <2>1, MovesOne DEF ReadsChildren
  <2>3. doing'[Tick].at = "close"
    BY <1>1, <2>2, TypedFacts DEF Doings
  <2> QED
    BY <1>1, <2>1, <2>2, <2>3, ActorsApart, ApartStep DEF Merging
<1>4. CASE OrderEndsPeriod
  <2>1. UNCHANGED <<state, base>> /\ ReadsChildren(Order, period)
    BY <1>4 DEF OrderEndsPeriod, github
  <2>2. \A b \in Actors \ {Order} : doing'[b] = doing[b]
    BY <1>1, <2>1, MovesOne DEF ReadsChildren
  <2> QED
    BY <1>1, <2>1, <2>2, ActorsApart, ApartStep
<1>5. ASSUME NEW a \in {Tick, Order}, EndPeriod(a) PROVE KInv'
  <2>1. UNCHANGED <<state, base>> /\ a \in Actors
    BY <1>1, <1>5 DEF EndPeriod, Closes, MarksClosed, LooksForRollup, RefreshesRollup, DropsBranch, Delete,
                      OpensRollup, RollupRefused, FilesRollup, github
  <2>2. doing'[a].at \notin Merging /\ \A b \in Actors \ {a} : doing'[b] = doing[b]
    <3>1. CASE LooksForRollup(a)
      <4> DEFINE at == IF rollup.period = doing[a].period THEN "refresh"
                       ELSE IF doing[a].list = {} THEN "drop" ELSE "open"
      <4>1. Does(a, [doing[a] EXCEPT !.info = rollup, !.at = at])
        BY <3>1 DEF LooksForRollup
      <4>2. doing'[a] = [doing[a] EXCEPT !.info = rollup, !.at = at] /\ \A b \in Actors \ {a} : doing'[b] = doing[b]
        BY <1>1, <2>1, <4>1, MovesOne
      <4>3. at \notin Merging
        BY DEF Merging
      <4> HIDE DEF at
      <4> QED
        BY <1>1, <2>1, <4>2, <4>3, TypedFacts DEF Doings
    <3>2. CASE Closes(a) \/ MarksClosed(a) \/ OpensRollup(a)
      <4>1. Goes(a, "mark") \/ Goes(a, "look") \/ Goes(a, "file")
        BY <3>2 DEF Closes, MarksClosed, OpensRollup
      <4> QED
        BY <1>1, <2>1, <4>1, GoesOne DEF Merging
    <3>3. CASE RefreshesRollup(a) \/ DropsBranch(a) \/ RollupRefused(a) \/ FilesRollup(a)
      <4>1. Ends(a)
        BY <3>3 DEF RefreshesRollup, DropsBranch, RollupRefused, FilesRollup
      <4> QED
        BY <1>1, <2>1, <4>1, EndsOne DEF Merging
    <3> QED
      BY <1>5, <3>1, <3>2, <3>3 DEF EndPeriod
  <2> QED
    BY <2>1, <2>2, ActorsApart, ApartStep
<1> QED
  BY <1>2, <1>3, <1>4, <1>5

(* The steps of a smoke thread that leave the child's state alone.          *)
LEMMA ReadsOne ==
  ASSUME Typed, NEW a \in Actors, NEW from, NEW to, ReadsIntegrations(a, from, to)
  PROVE  /\ doing[a].at = from /\ doing'[a].at = to
         /\ doing'[a].period = doing[a].period /\ doing'[a].child = doing[a].child
         /\ \A b \in Actors \ {a} : doing'[b] = doing[b]
         /\ UNCHANGED <<state, base, roll, mishaps, main>>
<1>1. doing[a] \in Doings /\ doing[a].at = from
  BY TypedFacts DEF ReadsIntegrations, At
<1>2. doing'[a] = [doing[a] EXCEPT !.at = to, !.list = integrations] /\ \A b \in Actors \ {a} : doing'[b] = doing[b]
  BY MovesOne DEF ReadsIntegrations
<1> QED
  BY <1>1, <1>2 DEF Doings, ReadsIntegrations, github

LEMMA ForgetsOne ==
  ASSUME Typed, NEW a \in Actors, NEW c, NEW next, Forgets(a, c, next)
  PROVE  /\ doing[a].at = "erase" /\ doing'[a].at = next /\ doing'[a].period = doing[a].period
         /\ \A b \in Actors \ {a} : doing'[b] = doing[b]
         /\ UNCHANGED <<state, base>>
<1>1. doing[a] \in Doings /\ doing[a].at = "erase"
  BY TypedFacts DEF Forgets, At
<1>2. doing'[a] = [doing[a] EXCEPT !.at = next, !.list = {}] /\ \A b \in Actors \ {a} : doing'[b] = doing[b]
  BY MovesOne DEF Forgets
<1> QED
  BY <1>1, <1>2 DEF Doings, Forgets, github

LEMMA SmokeKeeps ==
  ASSUME KInv, Typed', Lasts, NEW c \in Children, SmokeStep(c)
  PROVE  KInv'
<1> DEFINE a == Smoke(c)
<1>1. Typed /\ a \in Actors /\ a \notin {Tick, Finish, Order}
  BY ActorsApart DEF KInv
<1> HIDE DEF a
<1>2. CASE ~SmokeSendsBack(c)
  <2>1. UNCHANGED <<state, base>> /\ ~Idle(a)
    BY <1>2 DEF SmokeStep, SmokeEnds, SmokeReverts, SmokeCannotRevert, ReadsIntegrations, Forgets, github, At, Idle, a
  <2>2. /\ Idle(a)' \/ doing'[a].period = doing[a].period
        /\ \A b \in Actors \ {a} : doing'[b] = doing[b]
    <3>1. CASE SmokeEnds(c) \/ SmokeReverts(c) \/ SmokeCannotRevert(c)
      <4>1. Ends(a) \/ Goes(a, "revert") \/ Goes(a, "forget") \/ Goes(a, "stuck")
        BY <3>1 DEF SmokeEnds, SmokeReverts, SmokeCannotRevert, a
      <4> QED
        BY <1>1, <4>1, EndsOne, GoesOne DEF Idle, At
    <3>2. CASE ReadsIntegrations(a, "forget", "erase") \/ Forgets(a, c, "back")
      BY <1>1, <3>2, ReadsOne, ForgetsOne
    <3> QED
      BY <1>2, <3>1, <3>2 DEF SmokeStep, a
  <2> QED
    BY <1>1, <2>1, <2>2, ApartStep
<1>3. CASE SmokeSendsBack(c)
  <2>1. Ends(a) /\ ~Idle(a) /\ base' = base
    BY <1>3 DEF SmokeSendsBack, github, Idle, At, a
  <2>2. doing'[a].at = "idle" /\ \A b \in Actors \ {a} : doing'[b] = doing[b]
    BY <1>1, <2>1, EndsOne
  <2>3. \A d \in Children \ {c} : state'[d] = state[d] /\ doing'[Smoke(d)] = doing[Smoke(d)]
    <3> TAKE d \in Children \ {c}
    <3>1. Smoke(d) \in Actors \ {a}
      BY ActorsApart DEF a, Smoke
    <3> QED
      BY <1>1, <1>3, <2>2, <3>1, TypedFacts DEF SmokeSendsBack, MoveOrRaise, RecordsTyped
  <2>4. doing'[Tick] = doing[Tick] /\ doing'[Finish] = doing[Finish]
    BY <1>1, <2>2, ActorsApart
  <2>5. Watched'
    BY <2>2, <2>3 DEF KInv, Watched, Idle, At, a
  <2>6. InHand' /\ Aimed'
    <3>1. CASE doing[Tick].at \notin Merging
      BY <2>4, <3>1 DEF InHand, Aimed, Merging, At
    <3>2. CASE doing[Tick].at \in Merging
      <4>1. Subject \in Children /\ Target \in Periods /\ Subject' = Subject /\ Target' = Target
        BY <1>1, <2>4, <3>2, SubjectType DEF Subject, Target
      <4>2. Idle(Smoke(Subject))
        BY <3>2 DEF KInv, InHand
      <4>3. Subject # c
        BY <2>1, <4>2 DEF a
      <4>4. state'[Subject] = state[Subject] /\ Idle(Smoke(Subject))'
        BY <2>3, <4>1, <4>2, <4>3 DEF Idle, At
      <4>5. InHand'
        BY <2>4, <4>1, <4>4 DEF KInv, InHand
      <4>6. Aimed'
        BY <2>1, <2>4, <4>1, JustifiedStays DEF KInv, Aimed, At
      <4> QED
        BY <4>5, <4>6
    <3> QED
      BY <3>1, <3>2
  <2>7. Landing'
    BY <2>4, LandingStays DEF Idle, At
  <2> QED
    BY <2>5, <2>6, <2>7 DEF KInv
<1> QED
  BY <1>2, <1>3

(* A child taken out of the rollup is not the one being merged.             *)
LEMMA ExcludeKeeps ==
  ASSUME KInv, Typed', Lasts, ExcludeStep \/ \E c \in Children : ExcludeBegins(c)
  PROVE  KInv'
<1>1. Typed /\ Order \in Actors /\ Order \notin {Tick, Finish} /\ \A c \in Children : Smoke(c) \in Actors \ {Order}
  BY ActorsApart DEF KInv
<1>2. \A b \in Actors \ {Order} : doing'[b] = doing[b]
  <2>1. ASSUME NEW c \in Children, ExcludeBegins(c) PROVE \A b \in Actors \ {Order} : doing'[b] = doing[b]
    BY <1>1, <2>1, MovesOne DEF ExcludeBegins
  <2>2. CASE ExcludeReverts \/ ExcludeRefused \/ ExcludeBlocks
    <3>1. Goes(Order, "strike") \/ Ends(Order)
      BY <2>2 DEF ExcludeReverts, ExcludeRefused, ExcludeBlocks
    <3> QED
      BY <1>1, <3>1, GoesOne, EndsOne
  <2>3. CASE ReadsIntegrations(Order, "strike", "erase") \/ Forgets(Order, doing[Order].child, "unlist")
    BY <1>1, <2>3, ReadsOne, ForgetsOne
  <2>4. CASE ExcludeUnlists
    BY <1>1, <2>4, MovesOne DEF ExcludeUnlists
  <2> QED
    BY <2>1, <2>2, <2>3, <2>4 DEF ExcludeStep
<1>3. base' = base
  BY DEF ExcludeStep, ExcludeBegins, ExcludeReverts, Reverts, ExcludeRefused, ReadsIntegrations, Forgets, ExcludeUnlists,
         ExcludeBlocks, github
<1>4. \A c \in Children : Tame(c)
  <2> TAKE c \in Children
  <2>1. CASE ExcludeBlocks
    BY <1>1, <2>1, TypedFacts DEF ExcludeBlocks, Tame, RecordsTyped, Settled
  <2>2. CASE ~ExcludeBlocks
    BY <2>2 DEF ExcludeStep, ExcludeBegins, ExcludeReverts, ExcludeRefused, ReadsIntegrations, Forgets, ExcludeUnlists, Tame
  <2> QED
    BY <2>1, <2>2
<1>5. TickApart /\ NoNewSmoke
  BY <1>1, <1>2, ActorsApart DEF TickApart, NoNewSmoke, Idle, At
<1>6. Landing'
  BY <1>1, <1>2, ActorsApart, LandingStays DEF Idle, At
<1> QED
  BY <1>3, <1>4, <1>5, <1>6, TameStep

(* Finishing a merged rollup: its branch is that of a rollup on main, or    *)
(* another one's record was in the place of its own.                        *)
LEMMA GathersOne ==
  ASSUME Typed, FinishGathers
  PROVE  /\ ~Idle(Finish) /\ \A b \in Actors \ {Finish} : doing'[b] = doing[b]
         /\ doing'[Finish].period = (IF rollup.period # None THEN rollup.period ELSE doing[Finish].period)
<1>1. Finish \in Actors /\ doing[Finish] \in Doings
  BY ActorsApart, TypedFacts
<1> DEFINE p == IF rollup.period # None THEN rollup.period ELSE doing[Finish].period
<1>2. Does(Finish, [doing[Finish] EXCEPT !.at = "retarget", !.info = rollup, !.period = p])
  BY <1>1 DEF FinishGathers, Doings
<1>3. /\ doing'[Finish] = [doing[Finish] EXCEPT !.at = "retarget", !.info = rollup, !.period = p]
      /\ \A b \in Actors \ {Finish} : doing'[b] = doing[b]
  BY <1>1, <1>2, MovesOne
<1> HIDE DEF p
<1>4. doing'[Finish].period = p
  BY <1>1, <1>3 DEF Doings
<1> QED
  BY <1>3, <1>4 DEF FinishGathers, Idle, At, p

LEMMA FinishKeeps ==
  ASSUME KInv, Typed', Lasts, FinishStep
  PROVE  KInv'
<1>1. Typed /\ Finish \in Actors /\ Finish \notin {Tick, Order} /\ doing[Finish] \in Doings
  BY ActorsApart, TypedFacts DEF KInv
<1>2. CASE FinishGathers
  <2>1. TickApart /\ NoNewSmoke
    BY <1>1, <1>2, GathersOne, ActorsApart DEF TickApart, NoNewSmoke, Idle, At
  <2>2. \A c \in Children : Tame(c)
    BY <1>2 DEF FinishGathers, Tame, Settled
  <2>3. Landing'
    <3>1. CASE Displaced(doing[Finish].period) = {}
      <4>1. rollup.period = doing[Finish].period
        BY <3>1 DEF Displaced
      <4>2. doing'[Finish].period = doing[Finish].period /\ ~Idle(Finish)
        BY <1>1, <1>2, <4>1, GathersOne
      <4> QED
        BY <4>2, LandingStays
    <3>2. CASE Displaced(doing[Finish].period) # {}
      <4>1. "displaced" \in mishaps'
        BY <1>2, <3>2 DEF FinishGathers, Befalls, Displaced
      <4> QED
        BY <4>1 DEF Landing, Justified
    <3> QED
      BY <3>1, <3>2
  <2>4. base' = base
    BY <1>2 DEF FinishGathers, github
  <2> QED
    BY <2>1, <2>2, <2>3, <2>4, TameStep
<1>3. CASE FinishRetargets
  <2>1. ~Idle(Finish) /\ doing'[Finish].period = doing[Finish].period /\ \A b \in Actors \ {Finish} : doing'[b] = doing[b]
    BY <1>1, <1>3, GoesOne DEF FinishRetargets, Idle, At
  <2>2. TickApart /\ NoNewSmoke /\ Landing'
    BY <1>1, <2>1, ActorsApart, LandingStays DEF TickApart, NoNewSmoke, Idle, At
  <2>3. \A c \in Children : Tame(c)
    BY <1>3 DEF FinishRetargets, Tame
  <2>4. ASSUME At(Tick, "merge")
        PROVE  base'[Subject] = base[Subject] \/ (base'[Subject] = None /\ Justified(Target)')
    <3>1. Subject \in Children /\ Target \in Periods
      BY <1>1, <2>4, SubjectType DEF At, Merging
    <3>2. CASE base'[Subject] = base[Subject]
      BY <3>2
    <3>3. CASE base'[Subject] # base[Subject]
      <4>1. base'[Subject] = None /\ base[Subject] = doing[Finish].period
        BY <1>3, <3>1, <3>3 DEF FinishRetargets
      <4>2. Justified(doing[Finish].period)
        BY <2>1 DEF KInv, Landing
      <4>3. Justified(Target)
        BY <2>4, <4>1, <4>2 DEF KInv, Aimed
      <4>4. Target' = Target
        BY <1>1, <2>1, ActorsApart DEF Target
      <4> QED
        BY <3>1, <4>1, <4>3, <4>4, JustifiedStays DEF Lasts, Justified
    <3> QED
      BY <3>2, <3>3
  <2> QED
    BY <2>2, <2>3, <2>4, TameStep
<1>4. CASE FinishDeletes \/ FinishClears \/ ReadsIntegrations(Finish, "tidy", "prune") \/ FinishTidies
  <2>1. UNCHANGED <<state, base>> /\ ~Idle(Finish)
    BY <1>4 DEF FinishDeletes, Delete, FinishClears, ReadsIntegrations, FinishTidies, github, Idle, At
  <2>2. /\ Idle(Finish)' \/ doing'[Finish].period = doing[Finish].period
        /\ \A b \in Actors \ {Finish} : doing'[b] = doing[b]
    <3>1. CASE FinishClears
      <4>1. /\ doing'[Finish] = [doing[Finish] EXCEPT !.at = "tidy", !.info = NoRollup]
            /\ \A b \in Actors \ {Finish} : doing'[b] = doing[b]
        BY <1>1, <3>1, MovesOne DEF FinishClears
      <4> QED
        BY <1>1, <4>1 DEF Doings
    <3>2. CASE FinishDeletes
      BY <1>1, <3>2, GoesOne DEF FinishDeletes
    <3>3. CASE FinishTidies
      BY <1>1, <3>3, EndsOne DEF FinishTidies, Idle, At
    <3>4. CASE ReadsIntegrations(Finish, "tidy", "prune")
      BY <1>1, <3>4, ReadsOne
    <3> QED
      BY <1>4, <3>1, <3>2, <3>3, <3>4
  <2> QED
    BY <1>1, <2>1, <2>2, ApartStep
<1> QED
  BY <1>2, <1>3, <1>4 DEF FinishStep

(* The children's pull requests, the rollups, the owner and the kill.       *)
LEMMA ChildKeeps ==
  ASSUME KInv, Typed', Lasts, NEW c \in Children, OpensPR(c) \/ Reconciles(c) \/ Readies(c)
  PROVE  KInv'
<1>1. Typed /\ RecordsTyped /\ doing' = doing
  BY TypedFacts DEF KInv, OpensPR, Reconciles, Readies
<1>2. TickApart /\ NoNewSmoke /\ Landing'
  BY <1>1, LandingStays DEF TickApart, NoNewSmoke, Idle, At
<1>3. CASE OpensPR(c)
  <2>1. At(Tick, "merge") => base'[Subject] = base[Subject]
    <3> SUFFICES ASSUME At(Tick, "merge") PROVE base'[Subject] = base[Subject]
      OBVIOUS
    <3>1. Subject \in Children /\ state[Subject] = "REVIEW"
      BY <1>1, SubjectType DEF KInv, InHand, At, Merging
    <3> QED
      BY <1>1, <1>3, <3>1 DEF OpensPR, RecordsTyped
  <2>2. \A d \in Children : Tame(d)
    BY <1>1, <1>3 DEF OpensPR, RecordsTyped, Tame, Settled
  <2> QED
    BY <1>2, <2>1, <2>2, TameStep
<1>4. CASE Reconciles(c) \/ Readies(c)
  <2>1. doing'[Tick].at \notin Merging /\ base' = base
    BY <1>1, <1>4 DEF Reconciles, Readies, Idle, At, Merging, github
  <2>2. \A d \in Children : Tame(d)
    BY <1>1, <1>4, <2>1 DEF Reconciles, Readies, RecordsTyped, Tame, Settled
  <2> QED
    BY <1>2, <2>1, <2>2, TameStep
<1> QED
  BY <1>3, <1>4

LEMMA RollupKeeps ==
  ASSUME KInv, Typed', Lasts, NEW p \in Periods,
         RollupReadies(p) \/ RollupInvalidated(p) \/ RollupClosed(p) \/ OwnerMerges(p) \/ MainSmokeEnds(p)
  PROVE  KInv'
<1>1. Typed /\ RecordsTyped /\ Finish \in Actors /\ Finish \notin {Tick, Order}
  BY TypedFacts, ActorsApart DEF KInv
<1>2. UNCHANGED <<state, base>>
  BY DEF RollupReadies, RollupInvalidated, RollupClosed, OwnerMerges, MainSmokeEnds, github
<1>3. \A c \in Children : Tame(c)
  BY <1>2 DEF Tame
<1>4. CASE UNCHANGED doing
  <2>1. TickApart /\ NoNewSmoke /\ Landing'
    BY <1>4, LandingStays DEF TickApart, NoNewSmoke, Idle, At
  <2> QED
    BY <1>2, <1>3, <2>1, TameStep
<1>5. CASE ~(UNCHANGED doing)
  <2>1. MainSmokeEnds(p) /\ Does(Finish, [doing[Finish] EXCEPT !.at = "gather", !.period = p])
    BY <1>5 DEF RollupReadies, RollupInvalidated, RollupClosed, OwnerMerges, MainSmokeEnds
  <2>2. roll'[p] = "DONE"
    BY <1>1, <1>5, <2>1 DEF MainSmokeEnds, RecordsTyped
  <2>3. /\ doing'[Finish] = [doing[Finish] EXCEPT !.at = "gather", !.period = p]
        /\ \A b \in Actors \ {Finish} : doing'[b] = doing[b]
    BY <1>1, <2>1, MovesOne
  <2>4. doing'[Finish].period = p
    BY <1>1, <2>3, TypedFacts DEF Doings
  <2>5. Landing'
    BY <2>2, <2>4 DEF Landing, Justified
  <2>6. TickApart /\ NoNewSmoke
    BY <1>1, <2>3, ActorsApart DEF TickApart, NoNewSmoke, Idle, At
  <2> QED
    BY <1>2, <1>3, <2>5, <2>6, TameStep
<1> QED
  BY <1>4, <1>5

LEMMA KillKeeps == ASSUME KInv, Typed', Lasts, Kill PROVE KInv'
<1>1. \A a \in Threads : doing'[a] = Resting
  BY DEF Kill, Actors
<1>2. TickApart /\ NoNewSmoke /\ Landing'
  BY <1>1, RestingType DEF TickApart, NoNewSmoke, Landing, Idle, At, Threads, Merging
<1>3. UNCHANGED <<state, base>>
  BY DEF Kill, github
<1> QED
  BY <1>2, <1>3, TameStep DEF Tame

(* The Team Lead's merge, step by step.                                     *)
LEMMA AimsKeeps == ASSUME KInv, Typed', Lasts, NEW c \in Children, Aims(c) PROVE KInv'
<1> DEFINE p == IF mine # None THEN mine ELSE rollup.period
           next == [doing[Tick] EXCEPT !.at = "merge", !.child = c, !.period = p]
<1>1. Typed /\ RecordsTyped /\ Tick \in Actors /\ doing[Tick] \in Doings
  BY ActorsApart, TypedFacts DEF KInv
<1>2. Does(Tick, next) /\ base' = [base EXCEPT ![c] = p] /\ state' = state /\ state[c] = "REVIEW"
  BY DEF Aims
<1>3. doing'[Tick] = next /\ \A b \in Actors \ {Tick} : doing'[b] = doing[b]
  BY <1>1, <1>2, MovesOne
<1>4. next.at = "merge" /\ next.child = c /\ next.period = p
  BY <1>1 DEF Doings
<1> HIDE DEF p, next
<1>5. \A d \in Children : doing'[Smoke(d)] = doing[Smoke(d)]
  BY <1>3, ActorsApart
<1>6. Watched'
  BY <1>2, <1>5 DEF KInv, Watched, Idle, At
<1>7. Idle(Smoke(c))
  BY <1>2 DEF KInv, Watched, Settled
<1>8. InHand'
  BY <1>2, <1>3, <1>4, <1>5, <1>7 DEF InHand, Subject, Idle, At
<1>9. Aimed'
  <2>1. base'[c] = p
    BY <1>1, <1>2 DEF RecordsTyped
  <2> QED
    BY <1>3, <1>4, <2>1 DEF Aimed, Subject, Target
<1>10. Landing'
  BY <1>3, ActorsApart, LandingStays DEF Idle, At
<1> QED
  BY <1>6, <1>8, <1>9, <1>10 DEF KInv

LEMMA OnwardStep ==
  ASSUME KInv, Typed', Lasts, UNCHANGED <<state, base>>,
         \A b \in Actors \ {Tick} : doing'[b] = doing[b], Subject' = Subject,
         \/ At(Tick, "merge") /\ At(Tick, "record")'
         \/ doing[Tick].at \in {"read", "add", "ask", "carry"} /\ doing'[Tick].at \in {"read", "add", "ask", "carry"}
  PROVE  KInv'
<1>1. Subject \in Children /\ Smoke(Subject) \in Actors \ {Tick}
  BY SubjectType, ActorsApart DEF KInv, At, Merging
<1>2. \A d \in Children : doing'[Smoke(d)] = doing[Smoke(d)]
  BY ActorsApart
<1>3. Watched'
  BY <1>2 DEF KInv, Watched, Idle, At
<1>4. InHand'
  BY <1>1, <1>2 DEF KInv, InHand, Merging, Idle, At
<1>5. Aimed'
  BY DEF Aimed, At
<1>6. Landing'
  BY ActorsApart, LandingStays DEF Idle, At
<1> QED
  BY <1>3, <1>4, <1>5, <1>6 DEF KInv

LEMMA MergeEnds ==
  ASSUME KInv, Typed', Lasts, UNCHANGED <<state, base>>,
         doing[Tick].at \in {"ask", "carry"}, EndsWithSmoke
  PROVE  KInv'
<1>1. Typed /\ Tick \in Actors /\ Subject \in Children /\ Smoke(Subject) \in Actors \ {Tick, Finish}
  BY SubjectType, ActorsApart DEF KInv, Merging
<1>2. CASE Ends(Tick)
  <2>1. doing'[Tick].at = "idle" /\ \A b \in Actors \ {Tick} : doing'[b] = doing[b]
    BY <1>1, <1>2, EndsOne
  <2> QED
    BY <1>1, <2>1, ActorsApart, ApartStep DEF Merging
<1>3. CASE doing' = [doing EXCEPT ![Tick] = Resting, ![Smoke(Subject)] = [Resting EXCEPT !.at = "run", !.period = Target]]
  <2>1. /\ doing'[Tick] = Resting
        /\ \A b \in Actors \ {Tick, Smoke(Subject)} : doing'[b] = doing[b]
    BY <1>1, <1>3, TypedFacts
  <2>2. doing'[Tick].at \notin Merging
    BY <2>1, RestingType DEF Merging
  <2>3. state[Subject] \in Settled
    BY DEF KInv, InHand
  <2>4. \A d \in Children \ {Subject} : doing'[Smoke(d)] = doing[Smoke(d)]
    BY <1>1, <2>1, ActorsApart DEF Smoke
  <2>5. Watched'
    BY <2>3, <2>4 DEF KInv, Watched, Idle, At
  <2>6. InHand' /\ Aimed'
    BY <2>2 DEF InHand, Aimed, At, Merging
  <2>7. Landing'
    BY <1>1, <2>1, ActorsApart, LandingStays DEF Idle, At
  <2> QED
    BY <2>5, <2>6, <2>7 DEF KInv
<1> QED
  BY <1>2, <1>3 DEF EndsWithSmoke

LEMMA RecordsKeeps == ASSUME KInv, Typed', Lasts, RecordsIntegrated PROVE KInv'
<1>1. Typed /\ RecordsTyped /\ Tick \in Actors /\ Subject \in Children /\ doing[Tick].at = "record"
  BY SubjectType, TypedFacts, ActorsApart DEF KInv, RecordsIntegrated, At, Merging
<1>2. state[Subject] = "REVIEW" /\ Idle(Smoke(Subject))
  BY <1>1 DEF KInv, InHand, Merging
<1>3. MayBecome(Subject, "INTEGRATED")
  BY <1>2 DEF MayBecome
<1>4. state' = [state EXCEPT ![Subject] = "INTEGRATED"] /\ base' = base /\ Goes(Tick, "read")
  BY <1>3 DEF RecordsIntegrated, MoveOrRaise, github
<1>5. /\ doing'[Tick].at = "read" /\ doing'[Tick].child = Subject
      /\ \A b \in Actors \ {Tick} : doing'[b] = doing[b]
  BY <1>1, <1>4, GoesOne DEF Subject
<1>6. Subject' = Subject
  BY <1>5 DEF Subject
<1>7. \A d \in Children : doing'[Smoke(d)] = doing[Smoke(d)]
  BY <1>5, ActorsApart
<1>8. state'[Subject] = "INTEGRATED" /\ \A d \in Children \ {Subject} : state'[d] = state[d]
  BY <1>1, <1>4 DEF RecordsTyped
<1>9. Watched'
  BY <1>7, <1>8 DEF KInv, Watched, Settled, Idle, At
<1>10. InHand'
  BY <1>1, <1>2, <1>5, <1>6, <1>7, <1>8 DEF InHand, Settled, Idle, At
<1>11. Aimed'
  BY <1>5 DEF Aimed, At
<1>12. Landing'
  BY <1>5, ActorsApart, LandingStays DEF Idle, At
<1> QED
  BY <1>9, <1>10, <1>11, <1>12 DEF KInv

LEMMA IntegrateKeeps == ASSUME KInv, Typed', Lasts, Integrate PROVE KInv'
<1>1. Typed /\ RecordsTyped /\ Tick \in Actors /\ doing[Tick] \in Doings
  BY TypedFacts, ActorsApart DEF KInv
<1>2. CASE MergesChild
  <2>1. At(Tick, "merge") /\ Goes(Tick, "record") /\ UNCHANGED <<state, base>>
    BY <1>2 DEF MergesChild
  <2> QED
    BY <1>1, <2>1, GoesOne, OnwardStep DEF Subject, At
<1>3. CASE MergeRefused \/ AnswerLost
  <2>1. doing'[Tick].at = "idle" /\ \A b \in Actors \ {Tick} : doing'[b] = doing[b]
    BY <1>1, <1>3, EndsOne DEF MergeRefused, AnswerLost
  <2>2. \A d \in Children : Tame(d)
    BY <1>1, <1>3, <2>1 DEF MergeRefused, AnswerLost, MoveOrRaise, RecordsTyped, Tame, Settled, Merging
  <2>3. TickApart /\ NoNewSmoke /\ Landing'
    BY <2>1, ActorsApart, LandingStays DEF TickApart, NoNewSmoke, Idle, At, Merging
  <2>4. base' = base
    BY <1>3 DEF MergeRefused, AnswerLost, github
  <2> QED
    BY <2>2, <2>3, <2>4, TameStep
<1>4. CASE ReadsIntegrations(Tick, "read", "add")
  BY <1>1, <1>4, ReadsOne, OnwardStep DEF Subject
<1>5. CASE AddsIntegration
  <2>1. UNCHANGED <<state, base>> /\ doing[Tick].at = "add"
    BY <1>5 DEF AddsIntegration, github, At
  <2>2. /\ doing'[Tick] = [doing[Tick] EXCEPT !.at = "ask", !.list = {}]
        /\ \A b \in Actors \ {Tick} : doing'[b] = doing[b]
    BY <1>1, <1>5, MovesOne DEF AddsIntegration
  <2>3. doing'[Tick].at = "ask" /\ Subject' = Subject
    BY <1>1, <2>2 DEF Doings, Subject
  <2> QED
    BY <2>1, <2>2, <2>3, OnwardStep
<1>6. CASE AsksRollup
  <2>1. UNCHANGED <<state, base>> /\ doing[Tick].at = "ask"
    BY <1>6 DEF AsksRollup, github, At
  <2>2. CASE EndsWithSmoke
    BY <2>1, <2>2, MergeEnds
  <2>3. CASE Does(Tick, [doing[Tick] EXCEPT !.at = "carry", !.info = rollup])
    <3>1. /\ doing'[Tick] = [doing[Tick] EXCEPT !.at = "carry", !.info = rollup]
          /\ \A b \in Actors \ {Tick} : doing'[b] = doing[b]
      BY <1>1, <2>3, MovesOne
    <3>2. doing'[Tick].at = "carry" /\ Subject' = Subject
      BY <1>1, <3>1 DEF Doings, Subject
    <3> QED
      BY <2>1, <3>1, <3>2, OnwardStep
  <2> QED
    BY <1>6, <2>2, <2>3 DEF AsksRollup
<1>7. CASE CarriesToRollup
  BY <1>7, MergeEnds DEF CarriesToRollup, github, At
<1> QED
  BY <1>2, <1>3, <1>4, <1>5, <1>6, <1>7, AimsKeeps, RecordsKeeps DEF Integrate

-----------------------------------------------------------------------------
LEMMA KInvInit == Init => KInv
<1> SUFFICES ASSUME Init PROVE KInv
  OBVIOUS
<1>1. \A a \in Actors : doing[a] = Resting
  BY DEF Init
<1>2. Idle(Tick) /\ Idle(Finish) /\ \A c \in Children : Idle(Smoke(c))
  BY <1>1, RestingType, ActorsApart DEF Idle, At
<1> QED
  BY <1>2, TypedInit DEF KInv, Watched, InHand, Aimed, Landing, Idle, At, Merging

LEMMA KInvNext == KInv /\ [Next]_vars => KInv'
<1> SUFFICES ASSUME KInv, [Next]_vars PROVE KInv'
  OBVIOUS
<1>1. Typed' /\ Lasts
  BY TypedNext, LastsNext DEF KInv
<1>2. CASE TickStep
  BY <1>1, <1>2, PeriodsKeep, IntegrateKeeps DEF TickStep
<1>3. CASE OrderEndsPeriod \/ EndPeriod(Order)
  BY <1>1, <1>3, PeriodsKeep
<1>4. CASE FinishStep \/ Kill \/ ExcludeStep
  BY <1>1, <1>4, FinishKeeps, KillKeeps, ExcludeKeeps
<1>5. CASE NextDay \/ UNCHANGED vars
  <2>1. UNCHANGED <<state, base, doing>>
    BY <1>5 DEF NextDay, vars, github
  <2>2. TickApart /\ NoNewSmoke /\ Landing'
    BY <1>1, <2>1, LandingStays DEF TickApart, NoNewSmoke, Idle, At
  <2> QED
    BY <1>1, <2>1, <2>2, TameStep DEF Tame
<1>6. ASSUME NEW c \in Children,
             OpensPR(c) \/ Reconciles(c) \/ Readies(c) \/ SmokeStep(c) \/ ExcludeBegins(c)
      PROVE  KInv'
  BY <1>1, <1>6, ChildKeeps, SmokeKeeps, ExcludeKeeps
<1>7. ASSUME NEW p \in Periods,
             RollupReadies(p) \/ RollupInvalidated(p) \/ RollupClosed(p) \/ OwnerMerges(p) \/ MainSmokeEnds(p)
      PROVE  KInv'
  BY <1>1, <1>7, RollupKeeps
<1> QED
  BY <1>2, <1>3, <1>4, <1>5, <1>6, <1>7 DEF Next

(* Only the owner's merge and a merge of the Team Lead's change main.       *)
LEMMA MainChanges ==
  ASSUME [Next]_vars, ~MergesChild, main' # main
  PROVE  \E p \in Periods : OwnerMerges(p)
<1>1. CASE TickStep
  BY <1>1 DEF TickStep, FollowsEnd, StartsPeriod, TickEndsPeriod, EndPeriod, Closes, MarksClosed, LooksForRollup,
              RefreshesRollup, DropsBranch, OpensRollup, RollupRefused, FilesRollup, Integrate, Aims, MergeRefused, AnswerLost,
              RecordsIntegrated, ReadsIntegrations, AddsIntegration, AsksRollup, CarriesToRollup, github
<1>2. CASE OrderEndsPeriod \/ EndPeriod(Order) \/ ExcludeStep
  BY <1>2 DEF OrderEndsPeriod, EndPeriod, Closes, MarksClosed, LooksForRollup, RefreshesRollup, DropsBranch, OpensRollup,
              RollupRefused, FilesRollup, ExcludeStep, ExcludeReverts, ExcludeRefused, ReadsIntegrations, Forgets,
              ExcludeUnlists, ExcludeBlocks, github
<1>3. CASE FinishStep \/ Kill \/ NextDay \/ UNCHANGED vars
  BY <1>3 DEF FinishStep, FinishGathers, FinishRetargets, FinishDeletes, FinishClears, ReadsIntegrations, FinishTidies,
              Kill, NextDay, vars, github
<1>4. ASSUME NEW c \in Children,
             OpensPR(c) \/ Reconciles(c) \/ Readies(c) \/ SmokeStep(c) \/ ExcludeBegins(c)
      PROVE  FALSE
  BY <1>4 DEF OpensPR, Reconciles, Readies, SmokeStep, SmokeEnds, SmokeReverts, SmokeCannotRevert, ReadsIntegrations,
              Forgets, SmokeSendsBack, ExcludeBegins, github
<1>5. ASSUME NEW p \in Periods, RollupReadies(p) \/ RollupInvalidated(p) \/ RollupClosed(p) \/ MainSmokeEnds(p)
      PROVE  FALSE
  BY <1>5 DEF RollupReadies, RollupInvalidated, RollupClosed, MainSmokeEnds, github
<1> QED
  BY <1>1, <1>2, <1>3, <1>4, <1>5 DEF Next

(* What reaches main came with the owner's merge of a rollup whose branch   *)
(* had not moved since its gates were green; the Team Lead's own merge puts *)
(* a child there only if the finishing of its very branch has turned the    *)
(* child's pull request to main, or of another one under a foreign record.  *)
THEOREM OnlyTheOwnersMain == Spec => MainIsTheOwnersUnlessTurned
<1>1. ASSUME KInv, [Next]_vars, NEW c \in main' \ main
      PROVE  \/ \E p \in Periods \ stale : roll[p] = "READY_FOR_OWNER" /\ c \in on[p]
             \/ At(Tick, "merge") /\ c = Subject /\ (roll[Target] = "DONE" \/ "displaced" \in mishaps)
  <2>1. CASE MergesChild
    <3>1. At(Tick, "merge") /\ c = Subject /\ base[Subject] = None
      BY <1>1, <2>1 DEF MergesChild
    <3>2. Target \in Periods
      BY <1>1, <3>1, SubjectType DEF KInv, At, Merging
    <3>3. Justified(Target)
      BY <1>1, <3>1, <3>2 DEF KInv, Aimed, Periods, None
    <3> QED
      BY <3>1, <3>3 DEF Justified
  <2>2. CASE ~MergesChild
    <3>1. PICK p \in Periods : OwnerMerges(p)
      BY <1>1, <2>2, MainChanges
    <3> QED
      BY <1>1, <3>1 DEF OwnerMerges
  <2> QED
    BY <2>1, <2>2
<1>2. KInv /\ [Next]_vars =>
        [\A c \in main' \ main :
           \/ \E p \in Periods \ stale : roll[p] = "READY_FOR_OWNER" /\ c \in on[p]
           \/ At(Tick, "merge") /\ c = Subject /\ (roll[Target] = "DONE" \/ "displaced" \in mishaps)]_vars
  BY <1>1
<1> QED
  BY KInvInit, KInvNext, <1>2, PTL DEF Spec, MainIsTheOwnersUnlessTurned

=============================================================================
