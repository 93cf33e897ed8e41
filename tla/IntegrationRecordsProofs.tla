---------------------- MODULE IntegrationRecordsProofs ----------------------
(***************************************************************************)
(* What IntegrationMode's records promise of the branches, for any number  *)
(* of children, any calendar and any number of troubles.                   *)
(***************************************************************************)
EXTENDS IntegrationModeProofs

(* Nothing was cut short and nothing was overwritten.                       *)
Calm == Barring({"overlap", "cut"})

LEMMA CalmBefore == ASSUME Lasts, NEW these, Barring(these)' PROVE Barring(these)
BY DEF Lasts, Barring

-----------------------------------------------------------------------------
(* What a step of one actor does to what it carries.                        *)
Others(a) == \A b \in Actors \ {a} : doing'[b] = doing[b]

LEMMA GoesAll ==
  ASSUME Typed, NEW a \in Actors, NEW step, Goes(a, step)
  PROVE  /\ doing'[a].at = step /\ doing'[a].child = doing[a].child /\ doing'[a].period = doing[a].period
         /\ doing'[a].list = doing[a].list /\ doing'[a].info = doing[a].info
         /\ Others(a)
<1>1. doing[a] \in Doings /\ doing'[a] = [doing[a] EXCEPT !.at = step] /\ Others(a)
  BY TypedFacts, MovesOne DEF Goes, Others
<1> QED
  BY <1>1 DEF Doings

LEMMA EndsAll ==
  ASSUME Typed, NEW a \in Actors, Ends(a)
  PROVE  /\ doing'[a] = Resting /\ doing'[a].at = "idle"
         /\ Others(a)
BY TypedFacts, RestingType DEF Ends, Others

LEMMA ReadsAll ==
  ASSUME Typed, NEW a \in Actors, NEW from, NEW to, ReadsIntegrations(a, from, to)
  PROVE  /\ doing[a].at = from /\ doing'[a].at = to
         /\ doing'[a].child = doing[a].child /\ doing'[a].period = doing[a].period
         /\ doing'[a].list = integrations /\ doing'[a].info = doing[a].info
         /\ Others(a)
<1>1. doing[a] \in Doings /\ doing[a].at = from /\ Others(a)
      /\ doing'[a] = [doing[a] EXCEPT !.at = to, !.list = integrations]
  BY TypedFacts, MovesOne DEF ReadsIntegrations, Others, At
<1> QED
  BY <1>1 DEF Doings

LEMMA ForgetsAll ==
  ASSUME Typed, NEW a \in Actors, NEW c, NEW next, Forgets(a, c, next)
  PROVE  /\ doing[a].at = "erase" /\ doing'[a].at = next
         /\ doing'[a].child = doing[a].child /\ doing'[a].period = doing[a].period
         /\ doing'[a].info = doing[a].info
         /\ Others(a)
<1>1. doing[a] \in Doings /\ doing[a].at = "erase" /\ Others(a)
      /\ doing'[a] = [doing[a] EXCEPT !.at = next, !.list = {}]
  BY TypedFacts, MovesOne DEF Forgets, Others, At
<1> QED
  BY <1>1 DEF Doings

LEMMA ReadsChildrenAll ==
  ASSUME Typed, NEW a \in Actors, NEW p, ReadsChildren(a, p)
  PROVE  /\ doing'[a].at = "close" /\ doing'[a].period = p /\ doing'[a].list = OfBranch(p)
         /\ Others(a)
<1>1. doing[a] \in Doings /\ Others(a)
      /\ doing'[a] = [doing[a] EXCEPT !.at = "close", !.period = p, !.list = OfBranch(p)]
  BY TypedFacts, MovesOne DEF ReadsChildren, Others
<1> QED
  BY <1>1 DEF Doings

LEMMA LooksAll ==
  ASSUME Typed, NEW a \in Actors, LooksForRollup(a)
  PROVE  /\ doing[a].at = "look" /\ doing'[a].info = rollup
         /\ doing'[a].period = doing[a].period /\ doing'[a].list = doing[a].list
         /\ \/ doing'[a].at = "refresh" /\ rollup.period = doing[a].period
            \/ doing'[a].at = "drop" /\ rollup.period # doing[a].period /\ doing[a].list = {}
            \/ doing'[a].at = "open" /\ rollup.period # doing[a].period /\ doing[a].list # {}
         /\ Others(a)
<1> DEFINE step == IF rollup.period = doing[a].period THEN "refresh"
                   ELSE IF doing[a].list = {} THEN "drop" ELSE "open"
<1>1. doing[a] \in Doings /\ doing[a].at = "look" /\ Others(a)
      /\ doing'[a] = [doing[a] EXCEPT !.info = rollup, !.at = step]
  BY TypedFacts, MovesOne DEF LooksForRollup, Others, At
<1>2. \/ step = "refresh" /\ rollup.period = doing[a].period
      \/ step = "drop" /\ rollup.period # doing[a].period /\ doing[a].list = {}
      \/ step = "open" /\ rollup.period # doing[a].period /\ doing[a].list # {}
  OBVIOUS
<1> HIDE DEF step
<1> QED
  BY <1>1, <1>2 DEF Doings

LEMMA AimsAll ==
  ASSUME Typed, NEW c \in Children, Aims(c)
  PROVE  /\ doing[Tick].at = "idle" /\ doing'[Tick].at = "merge" /\ doing'[Tick].child = c
         /\ doing'[Tick].period = (IF mine # None THEN mine ELSE rollup.period)
         /\ Others(Tick)
<1> DEFINE p == IF mine # None THEN mine ELSE rollup.period
<1>1. Does(Tick, [doing[Tick] EXCEPT !.at = "merge", !.child = c, !.period = p])
  BY DEF Aims
<1>2. doing[Tick] \in Doings /\ doing[Tick].at = "idle" /\ Others(Tick)
      /\ doing'[Tick] = [doing[Tick] EXCEPT !.at = "merge", !.child = c, !.period = p]
  BY <1>1, TypedFacts, MovesOne, ActorsApart DEF Aims, Others, At, Idle
<1> HIDE DEF p
<1> QED
  BY <1>2 DEF Doings, p

LEMMA AddsAll ==
  ASSUME Typed, AddsIntegration
  PROVE  /\ doing[Tick].at = "add" /\ doing'[Tick].at = "ask"
         /\ doing'[Tick].child = doing[Tick].child /\ doing'[Tick].period = doing[Tick].period
         /\ Others(Tick)
<1>1. doing[Tick] \in Doings /\ doing[Tick].at = "add" /\ Others(Tick)
      /\ doing'[Tick] = [doing[Tick] EXCEPT !.at = "ask", !.list = {}]
  BY TypedFacts, MovesOne, ActorsApart DEF AddsIntegration, Others, At
<1> QED
  BY <1>1 DEF Doings

LEMMA SmokeBeginsAll ==
  ASSUME Typed, doing[Tick].at \in Merging, EndsWithSmoke
  PROVE  /\ doing'[Tick].at = "idle"
         /\ \A b \in Actors \ {Tick, Smoke(Subject)} : doing'[b] = doing[b]
         /\ \/ doing'[Smoke(Subject)] = doing[Smoke(Subject)]
            \/ doing'[Smoke(Subject)].at = "run" /\ doing'[Smoke(Subject)].period = Target
<1>1. Tick \in Actors /\ Subject \in Children /\ Smoke(Subject) \in Actors \ {Tick} /\ Target \in Periods
  BY SubjectType, ActorsApart
<1>2. CASE Ends(Tick)
  BY <1>1, <1>2, EndsAll DEF Others
<1>3. CASE doing' = [doing EXCEPT ![Tick] = Resting, ![Smoke(Subject)] = [Resting EXCEPT !.at = "run", !.period = Target]]
  <2>1. /\ doing'[Tick] = Resting
        /\ doing'[Smoke(Subject)] = [Resting EXCEPT !.at = "run", !.period = Target]
        /\ \A b \in Actors \ {Tick, Smoke(Subject)} : doing'[b] = doing[b]
    BY <1>1, <1>3, TypedFacts
  <2> QED
    BY <2>1, RestingType DEF Resting
<1> QED
  BY <1>2, <1>3 DEF EndsWithSmoke

LEMMA AsksAll ==
  ASSUME Typed, AsksRollup
  PROVE  /\ doing[Tick].at = "ask"
         /\ \/ EndsWithSmoke /\ (rollup.period # Target \/ Subject \in rollup.children)
            \/ /\ rollup.period = Target
               /\ doing'[Tick].at = "carry" /\ doing'[Tick].info = rollup
               /\ doing'[Tick].child = doing[Tick].child /\ doing'[Tick].period = doing[Tick].period
               /\ Others(Tick)
<1>1. CASE rollup.period = Target /\ Subject \notin rollup.children
  <2>1. doing[Tick] \in Doings /\ doing[Tick].at = "ask" /\ Others(Tick)
        /\ doing'[Tick] = [doing[Tick] EXCEPT !.at = "carry", !.info = rollup]
    BY <1>1, TypedFacts, MovesOne, ActorsApart DEF AsksRollup, Others, At
  <2> QED
    BY <1>1, <2>1 DEF Doings
<1>2. CASE ~(rollup.period = Target /\ Subject \notin rollup.children)
  BY <1>2 DEF AsksRollup, At
<1> QED
  BY <1>1, <1>2

LEMMA UnlistsAll ==
  ASSUME Typed, ExcludeUnlists
  PROVE  /\ doing[Order].at = "unlist" /\ doing'[Order].at = "exclude"
         /\ doing'[Order].child = doing[Order].child /\ doing'[Order].period = doing[Order].period
         /\ Others(Order)
<1>1. doing[Order] \in Doings /\ doing[Order].at = "unlist" /\ Others(Order)
      /\ doing'[Order] = [doing[Order] EXCEPT !.at = "exclude", !.info = NoRollup]
  BY TypedFacts, MovesOne, ActorsApart DEF ExcludeUnlists, Others, At
<1> QED
  BY <1>1 DEF Doings

LEMMA ExcludeBeginsAll ==
  ASSUME Typed, NEW c \in Children, ExcludeBegins(c)
  PROVE  /\ doing[Order].at = "idle" /\ doing'[Order].at = "undo" /\ doing'[Order].child = c
         /\ doing'[Order].info = rollup
         /\ Others(Order)
<1>1. PICK e \in integrations :
        Does(Order, [doing[Order] EXCEPT !.at = "undo", !.child = c, !.period = e.branch, !.info = rollup])
  BY DEF ExcludeBegins
<1>2. doing[Order] \in Doings /\ doing[Order].at = "idle" /\ Others(Order)
      /\ doing'[Order] = [doing[Order] EXCEPT !.at = "undo", !.child = c, !.period = e.branch, !.info = rollup]
  BY <1>1, TypedFacts, MovesOne, ActorsApart DEF ExcludeBegins, Others, Idle, At
<1> QED
  BY <1>2 DEF Doings

LEMMA GathersAll ==
  ASSUME Typed, FinishGathers
  PROVE  /\ doing[Finish].at = "gather" /\ doing'[Finish].at = "retarget" /\ doing'[Finish].info = rollup
         /\ doing'[Finish].period = (IF rollup.period # None THEN rollup.period ELSE doing[Finish].period)
         /\ Others(Finish)
<1> DEFINE p == IF rollup.period # None THEN rollup.period ELSE doing[Finish].period
<1>1. Does(Finish, [doing[Finish] EXCEPT !.at = "retarget", !.info = rollup, !.period = p])
  BY TypedFacts, ActorsApart DEF FinishGathers, Doings
<1>2. doing[Finish] \in Doings /\ doing[Finish].at = "gather" /\ Others(Finish)
      /\ doing'[Finish] = [doing[Finish] EXCEPT !.at = "retarget", !.info = rollup, !.period = p]
  BY <1>1, TypedFacts, MovesOne, ActorsApart DEF FinishGathers, Others, At
<1> HIDE DEF p
<1> QED
  BY <1>2 DEF Doings, p

LEMMA ClearsAll ==
  ASSUME Typed, FinishClears
  PROVE  /\ doing[Finish].at = "clear" /\ doing'[Finish].at = "tidy"
         /\ doing'[Finish].period = doing[Finish].period
         /\ Others(Finish)
<1>1. doing[Finish] \in Doings /\ doing[Finish].at = "clear" /\ Others(Finish)
      /\ doing'[Finish] = [doing[Finish] EXCEPT !.at = "tidy", !.info = NoRollup]
  BY TypedFacts, MovesOne, ActorsApart DEF FinishClears, Others, At
<1> QED
  BY <1>1 DEF Doings

LEMMA MainSmokeAll ==
  ASSUME Typed, NEW p \in Periods, MainSmokeEnds(p)
  PROVE  /\ doing[Finish].at = "idle" /\ Others(Finish) /\ roll[p] = "MERGED"
         /\ \/ UNCHANGED doing /\ "cut" \in mishaps' /\ roll' = [roll EXCEPT ![p] = "BLOCKED"]
            \/ /\ doing'[Finish].at = "gather" /\ doing'[Finish].period = p
               /\ roll' = [roll EXCEPT ![p] = "DONE"] /\ UNCHANGED mishaps
<1>1. doing[Finish].at = "idle" /\ doing[Finish] \in Doings /\ Finish \in Actors
  BY TypedFacts, ActorsApart DEF MainSmokeEnds, Idle, At
<1>2. CASE UNCHANGED doing /\ Befalls({"cut"}) /\ roll' = [roll EXCEPT ![p] = "BLOCKED"]
  BY <1>1, <1>2 DEF Others, Befalls, MainSmokeEnds
<1>3. CASE Does(Finish, [doing[Finish] EXCEPT !.at = "gather", !.period = p]) /\ roll' = [roll EXCEPT ![p] = "DONE"]
           /\ UNCHANGED mishaps
  <2>1. Others(Finish) /\ doing'[Finish] = [doing[Finish] EXCEPT !.at = "gather", !.period = p]
    BY <1>1, <1>3, MovesOne DEF Others
  <2> QED
    BY <1>1, <1>3, <2>1 DEF Doings, MainSmokeEnds
<1> QED
  BY <1>2, <1>3 DEF MainSmokeEnds

(* A kill that cuts nothing short finds the threads idle or testing.        *)
LEMMA KillAll ==
  ASSUME Typed, Kill, Calm'
  PROVE  /\ \A a \in Threads : doing[a].at \in {"idle", "run"} /\ doing'[a] = Resting /\ doing'[a].at = "idle"
         /\ doing'[Order] = doing[Order]
<1>1. \A a \in Threads : doing[a].at \in {"idle", "run"}
  BY DEF Kill, Calm, Barring, Befalls
<1>2. Order \notin Threads
  BY DEF Threads, Order, Tick, Finish, Smoke
<1> QED
  BY <1>1, <1>2, RestingType, ActorsApart DEF Kill, Actors

-----------------------------------------------------------------------------
(* Who changes what.                                                        *)
OnChanges == MergesChild \/ ExcludeReverts \/ \E c \in Children : SmokeReverts(c)

StateChanges ==
  \/ MergeRefused \/ AnswerLost \/ RecordsIntegrated \/ ExcludeBlocks \/ FinishGathers
  \/ \E c \in Children : OpensPR(c) \/ Reconciles(c) \/ Readies(c) \/ SmokeSendsBack(c)

RollChanges ==
  \/ \E a \in {Tick, Order} : OpensRollup(a)
  \/ \E p \in Periods : RollupReadies(p) \/ RollupInvalidated(p) \/ RollupClosed(p) \/ OwnerMerges(p) \/ MainSmokeEnds(p)

PrChanges == MergesChild \/ FinishDeletes \/ (\E a \in {Tick, Order} : DropsBranch(a)) \/ \E c \in Children : OpensPR(c)

BaseChanges == FinishRetargets \/ \E c \in Children : OpensPR(c) \/ Aims(c)

BranchesChange ==
  \/ StartsPeriod \/ FinishDeletes \/ ExcludeReverts
  \/ (\E a \in {Tick, Order} : DropsBranch(a)) \/ \E c \in Children : SmokeReverts(c)

EntriesChange ==
  \/ AddsIntegration \/ FinishTidies \/ Forgets(Order, doing[Order].child, "unlist")
  \/ \E c \in Children : Forgets(Smoke(c), c, "back")

RollupChanges ==
  \/ CarriesToRollup \/ ExcludeUnlists \/ FinishClears
  \/ \E a \in {Tick, Order} : RefreshesRollup(a) \/ FilesRollup(a)

MainOrMine ==
  /\ main' = main \/ MergesChild \/ \E p \in Periods : OwnerMerges(p)
  /\ period' = period \/ StartsPeriod \/ \E a \in {Tick, Order} : Closes(a)
  /\ mine' = mine \/ FollowsEnd \/ StartsPeriod \/ TickEndsPeriod \/ Kill
  /\ closedThrough' = closedThrough \/ \E a \in {Tick, Order} : MarksClosed(a)

Touched ==
  /\ on' = on \/ OnChanges
  /\ state' = state \/ StateChanges
  /\ roll' = roll \/ RollChanges
  /\ pr' = pr \/ PrChanges
  /\ base' = base \/ BaseChanges
  /\ branches' = branches \/ BranchesChange
  /\ integrations' = integrations \/ EntriesChange
  /\ rollup' = rollup \/ RollupChanges
  /\ MainOrMine

LEMMA WhoTouches == ASSUME [Next]_vars PROVE Touched
<1> USE DEF Touched, MainOrMine
<1>1. CASE FollowsEnd \/ StartsPeriod \/ TickEndsPeriod \/ OrderEndsPeriod \/ NextDay \/ Kill \/ UNCHANGED vars
  BY <1>1 DEF FollowsEnd, StartsPeriod, TickEndsPeriod, OrderEndsPeriod, NextDay, Kill, vars, meta, github, BranchesChange
<1>2. ASSUME NEW a \in {Tick, Order}, EndPeriod(a) PROVE Touched
  <2>1. CASE Closes(a) \/ MarksClosed(a) \/ LooksForRollup(a) \/ RollupRefused(a)
    BY <2>1 DEF Closes, MarksClosed, LooksForRollup, RollupRefused, meta, github
  <2>2. CASE RefreshesRollup(a) \/ FilesRollup(a)
    BY <2>2 DEF RefreshesRollup, FilesRollup, RollupChanges, github
  <2>3. CASE DropsBranch(a) \/ OpensRollup(a)
    BY <2>3 DEF DropsBranch, OpensRollup, BranchesChange, PrChanges, RollChanges, meta, github
  <2> QED
    BY <1>2, <2>1, <2>2, <2>3 DEF EndPeriod
<1>3. CASE Integrate
  <2>1. ASSUME NEW c \in Children, Aims(c) PROVE Touched
    BY <2>1 DEF Aims, BaseChanges, meta
  <2>2. CASE MergesChild \/ MergeRefused \/ AnswerLost \/ RecordsIntegrated
    BY <2>2 DEF MergesChild, MergeRefused, AnswerLost, RecordsIntegrated, OnChanges, PrChanges, StateChanges, meta, github
  <2>3. CASE ReadsIntegrations(Tick, "read", "add") \/ AddsIntegration \/ AsksRollup \/ CarriesToRollup
    BY <2>3 DEF ReadsIntegrations, AddsIntegration, AsksRollup, CarriesToRollup, EntriesChange, RollupChanges, meta, github
  <2> QED
    BY <1>3, <2>1, <2>2, <2>3 DEF Integrate
<1>4. CASE FinishStep
  <2>1. CASE FinishGathers \/ FinishRetargets \/ FinishDeletes
    BY <2>1 DEF FinishGathers, FinishRetargets, FinishDeletes, StateChanges, BaseChanges, BranchesChange, PrChanges,
                meta, github
  <2>2. CASE FinishClears \/ ReadsIntegrations(Finish, "tidy", "prune") \/ FinishTidies
    BY <2>2 DEF FinishClears, ReadsIntegrations, FinishTidies, EntriesChange, RollupChanges, meta, github
  <2> QED
    BY <1>4, <2>1, <2>2 DEF FinishStep
<1>5. ASSUME NEW c \in Children, SmokeStep(c) PROVE Touched
  BY <1>5 DEF SmokeStep, SmokeEnds, SmokeReverts, Reverts, SmokeCannotRevert, ReadsIntegrations, Forgets, SmokeSendsBack,
              OnChanges, BranchesChange, EntriesChange, StateChanges, meta, github
<1>6. CASE ExcludeStep
  BY <1>6 DEF ExcludeStep, ExcludeReverts, Reverts, ExcludeRefused, ReadsIntegrations, Forgets, ExcludeUnlists,
              ExcludeBlocks, OnChanges, BranchesChange, EntriesChange, StateChanges, RollupChanges, meta, github
<1>7. ASSUME NEW c \in Children, OpensPR(c) \/ Reconciles(c) \/ Readies(c) \/ ExcludeBegins(c) PROVE Touched
  BY <1>7 DEF OpensPR, Reconciles, Readies, ExcludeBegins, StateChanges, PrChanges, BaseChanges, meta, github
<1>8. ASSUME NEW p \in Periods,
             RollupReadies(p) \/ RollupInvalidated(p) \/ RollupClosed(p) \/ OwnerMerges(p) \/ MainSmokeEnds(p)
      PROVE  Touched
  BY <1>8 DEF RollupReadies, RollupInvalidated, RollupClosed, OwnerMerges, MainSmokeEnds, RollChanges, meta, github
<1> QED
  BY <1>1, <1>2, <1>3, <1>4, <1>5, <1>6, <1>7, <1>8 DEF Next, TickStep

(* Who moves: each actor on its own, but a smoke thread is started by the   *)
(* tick and all threads end with the process.                               *)
TickMoves   == TickEndsPeriod \/ EndPeriod(Tick) \/ Integrate
OrderMoves  == OrderEndsPeriod \/ EndPeriod(Order) \/ ExcludeStep \/ \E c \in Children : ExcludeBegins(c)
FinishMoves == FinishStep \/ \E p \in Periods : MainSmokeEnds(p)

Moved ==
  /\ doing'[Tick] = doing[Tick] \/ TickMoves \/ Kill
  /\ doing'[Order] = doing[Order] \/ OrderMoves
  /\ doing'[Finish] = doing[Finish] \/ FinishMoves \/ Kill
  /\ \A c \in Children : \/ doing'[Smoke(c)] = doing[Smoke(c)]
                         \/ SmokeStep(c) \/ Kill
                         \/ c = Subject /\ doing'[Smoke(c)].at = "run" /\ (AsksRollup \/ CarriesToRollup)

LEMMA SmokeAlone ==
  ASSUME Typed, NEW c \in Children, SmokeStep(c)
  PROVE  Others(Smoke(c))
<1>1. Smoke(c) \in Actors
  BY ActorsApart
<1>2. CASE SmokeEnds(c) \/ SmokeReverts(c) \/ SmokeCannotRevert(c) \/ SmokeSendsBack(c)
  <2>1. Ends(Smoke(c)) \/ Goes(Smoke(c), "revert") \/ Goes(Smoke(c), "forget") \/ Goes(Smoke(c), "stuck")
    BY <1>2 DEF SmokeEnds, SmokeReverts, SmokeCannotRevert, SmokeSendsBack
  <2> QED
    BY <1>1, <2>1, GoesAll, EndsAll
<1> QED
  BY <1>1, <1>2, ReadsAll, ForgetsAll DEF SmokeStep

LEMMA FinishAlone ==
  ASSUME Typed, FinishStep
  PROVE  Others(Finish)
<1>1. Finish \in Actors
  BY ActorsApart
<1>2. CASE FinishRetargets \/ FinishDeletes \/ FinishTidies
  <2>1. Ends(Finish) \/ Goes(Finish, "delete") \/ Goes(Finish, "clear")
    BY <1>2 DEF FinishRetargets, FinishDeletes, FinishTidies
  <2> QED
    BY <1>1, <2>1, GoesAll, EndsAll
<1> QED
  BY <1>1, <1>2, GathersAll, ClearsAll, ReadsAll DEF FinishStep

LEMMA ExcludeAlone ==
  ASSUME Typed, ExcludeStep \/ \E c \in Children : ExcludeBegins(c)
  PROVE  Others(Order)
<1>1. Order \in Actors
  BY ActorsApart
<1>2. CASE ExcludeReverts \/ ExcludeRefused \/ ExcludeBlocks
  <2>1. Ends(Order) \/ Goes(Order, "strike")
    BY <1>2 DEF ExcludeReverts, ExcludeRefused, ExcludeBlocks
  <2> QED
    BY <1>1, <2>1, GoesAll, EndsAll
<1> QED
  BY <1>1, <1>2, ExcludeBeginsAll, UnlistsAll, ReadsAll, ForgetsAll DEF ExcludeStep

LEMMA EndPeriodAlone ==
  ASSUME Typed, NEW a \in {Tick, Order}, EndPeriod(a)
  PROVE  Others(a)
<1>1. a \in Actors
  BY ActorsApart
<1>2. CASE Closes(a) \/ MarksClosed(a) \/ OpensRollup(a) \/ RefreshesRollup(a) \/ DropsBranch(a) \/ RollupRefused(a)
           \/ FilesRollup(a)
  <2>1. Ends(a) \/ Goes(a, "mark") \/ Goes(a, "look") \/ Goes(a, "file")
    BY <1>2 DEF Closes, MarksClosed, OpensRollup, RefreshesRollup, DropsBranch, RollupRefused, FilesRollup
  <2> QED
    BY <1>1, <2>1, GoesAll, EndsAll
<1> QED
  BY <1>1, <1>2, LooksAll DEF EndPeriod

LEMMA IntegrateAlone ==
  ASSUME Typed, Integrate
  PROVE  /\ \A b \in Actors \ {Tick} : b = Smoke(Subject) \/ doing'[b] = doing[b]
         /\ \A c \in Children : \/ doing'[Smoke(c)] = doing[Smoke(c)]
                                \/ c = Subject /\ doing'[Smoke(c)].at = "run" /\ (AsksRollup \/ CarriesToRollup)
<1>1. Tick \in Actors /\ \A c \in Children : Smoke(c) \in Actors \ {Tick}
  BY ActorsApart
<1>2. CASE Others(Tick)
  BY <1>1, <1>2 DEF Others
<1>3. CASE (AsksRollup \/ CarriesToRollup) /\ EndsWithSmoke
  <2>1. doing[Tick].at \in Merging
    BY <1>3 DEF AsksRollup, CarriesToRollup, At, Merging
  <2>2. Subject \in Children /\ \A c \in Children : Smoke(c) = Smoke(Subject) => c = Subject
    BY <2>1, SubjectType, ActorsApart
  <2> QED
    BY <1>1, <1>3, <2>1, <2>2, SmokeBeginsAll
<1>4. CASE MergesChild \/ MergeRefused \/ AnswerLost \/ RecordsIntegrated
  <2>1. Ends(Tick) \/ Goes(Tick, "record") \/ Goes(Tick, "read")
    BY <1>4 DEF MergesChild, MergeRefused, AnswerLost, RecordsIntegrated
  <2> QED
    BY <1>1, <1>2, <2>1, GoesAll, EndsAll
<1>5. CASE AsksRollup
  BY <1>2, <1>3, <1>5, AsksAll
<1>6. CASE CarriesToRollup
  BY <1>3, <1>6 DEF CarriesToRollup
<1> QED
  BY <1>1, <1>2, <1>4, <1>5, <1>6, AimsAll, AddsAll, ReadsAll DEF Integrate

LEMMA WhoMoves == ASSUME Typed, [Next]_vars PROVE Moved
<1>1. /\ Tick \in Actors /\ Finish \in Actors /\ Order \in Actors /\ \A c \in Children : Smoke(c) \in Actors
      /\ Tick # Finish /\ Tick # Order /\ Finish # Order
      /\ \A c \in Children : Smoke(c) # Tick /\ Smoke(c) # Finish /\ Smoke(c) # Order
      /\ \A c, d \in Children : Smoke(c) = Smoke(d) => c = d
  BY ActorsApart
<1>2. CASE UNCHANGED doing
  BY <1>2 DEF Moved
<1>3. CASE FollowsEnd \/ StartsPeriod \/ NextDay \/ UNCHANGED vars
  BY <1>2, <1>3 DEF FollowsEnd, StartsPeriod, NextDay, vars
<1>4. CASE TickEndsPeriod \/ EndPeriod(Tick)
  <2>1. Others(Tick)
    BY <1>1, <1>4, EndPeriodAlone, ReadsChildrenAll DEF TickEndsPeriod
  <2> QED
    BY <1>1, <1>4, <2>1 DEF Moved, Others, TickMoves
<1>5. CASE OrderEndsPeriod \/ EndPeriod(Order) \/ ExcludeStep \/ \E c \in Children : ExcludeBegins(c)
  <2>1. Others(Order)
    BY <1>1, <1>5, EndPeriodAlone, ExcludeAlone, ReadsChildrenAll DEF OrderEndsPeriod
  <2> QED
    BY <1>1, <1>5, <2>1 DEF Moved, Others, OrderMoves
<1>6. CASE Integrate
  <2>1. Smoke(Subject) # Order /\ Smoke(Subject) # Finish
    BY DEF Smoke, Order, Finish
  <2> QED
    BY <1>1, <1>6, <2>1, IntegrateAlone DEF Moved, TickMoves
<1>7. CASE FinishStep
  BY <1>1, <1>7, FinishAlone DEF Moved, Others, FinishMoves
<1>8. CASE Kill
  <2>1. doing'[Order] = doing[Order]
    <3>1. Order \notin Threads
      BY DEF Threads, Order, Tick, Finish, Smoke
    <3> QED
      BY <1>1, <1>8, <3>1 DEF Kill
  <2> QED
    BY <1>8, <2>1 DEF Moved
<1>9. ASSUME NEW c \in Children, SmokeStep(c) PROVE Moved
  <2>1. Others(Smoke(c))
    BY <1>9, SmokeAlone
  <2> QED
    BY <1>1, <1>9, <2>1 DEF Moved, Others
<1>10. ASSUME NEW p \in Periods, MainSmokeEnds(p) PROVE Moved
  <2>1. Others(Finish)
    BY <1>10, MainSmokeAll
  <2> QED
    BY <1>1, <1>10, <2>1 DEF Moved, Others, FinishMoves
<1>11. ASSUME NEW c \in Children, OpensPR(c) \/ Reconciles(c) \/ Readies(c) PROVE Moved
  BY <1>2, <1>11 DEF OpensPR, Reconciles, Readies
<1>12. ASSUME NEW p \in Periods, RollupReadies(p) \/ RollupInvalidated(p) \/ RollupClosed(p) \/ OwnerMerges(p)
       PROVE  Moved
  BY <1>2, <1>12 DEF RollupReadies, RollupInvalidated, RollupClosed, OwnerMerges
<1> QED
  BY <1>3, <1>4, <1>5, <1>6, <1>7, <1>8, <1>9, <1>10, <1>11, <1>12 DEF Next, TickStep

-----------------------------------------------------------------------------
(* The way of each actor, step by step.                                     *)
Keeps(a) == doing'[a].child = doing[a].child /\ doing'[a].period = doing[a].period

LEMMA IntegrateMoves ==
  ASSUME Typed, Integrate
  PROVE  \/ doing[Tick].at = "idle" /\ doing'[Tick].at = "merge" /\ \E c \in Children : Aims(c)
         \/ MergesChild /\ doing[Tick].at = "merge" /\ doing'[Tick].at = "record" /\ Keeps(Tick)
         \/ MergeRefused /\ doing[Tick].at = "merge" /\ doing'[Tick].at = "idle"
         \/ AnswerLost /\ "cut" \in mishaps' /\ doing[Tick].at = "record" /\ doing'[Tick].at = "idle"
         \/ RecordsIntegrated /\ doing[Tick].at = "record" /\ (doing'[Tick].at = "idle" \/ (doing'[Tick].at = "read" /\ Keeps(Tick)))
         \/ doing[Tick].at = "read" /\ doing'[Tick].at = "add" /\ doing'[Tick].list = integrations /\ Keeps(Tick)
         \/ AddsIntegration /\ doing[Tick].at = "add" /\ doing'[Tick].at = "ask" /\ Keeps(Tick)
         \/ /\ AsksRollup /\ doing[Tick].at = "ask"
            /\ \/ doing'[Tick].at = "idle"
               \/ doing'[Tick].at = "carry" /\ rollup.period = Target /\ doing'[Tick].info = rollup /\ Keeps(Tick)
         \/ CarriesToRollup /\ doing[Tick].at = "carry" /\ doing'[Tick].at = "idle"
<1> USE DEF Keeps
<1>1. Tick \in Actors
  BY ActorsApart
<1>2. ASSUME NEW c \in Children, Aims(c)
      PROVE  doing[Tick].at = "idle" /\ doing'[Tick].at = "merge"
  BY <1>2, AimsAll
<1>3. CASE MergesChild
  BY <1>1, <1>3, GoesAll DEF MergesChild, At
<1>4. CASE MergeRefused
  BY <1>1, <1>4, EndsAll DEF MergeRefused, At
<1>5. CASE RecordsIntegrated
  <2>1. Goes(Tick, "read") \/ Ends(Tick)
    BY <1>5 DEF RecordsIntegrated
  <2> QED
    BY <1>1, <1>5, <2>1, GoesAll, EndsAll DEF RecordsIntegrated, At
<1>6. CASE ReadsIntegrations(Tick, "read", "add")
  BY <1>1, <1>6, ReadsAll
<1>7. CASE AddsIntegration
  BY <1>7, AddsAll
<1>8. CASE AsksRollup
  <2>1. doing[Tick].at \in Merging
    BY <1>8 DEF AsksRollup, At, Merging
  <2> QED
    BY <1>8, <2>1, AsksAll, SmokeBeginsAll
<1>9. CASE CarriesToRollup
  <2>1. doing[Tick].at \in Merging /\ EndsWithSmoke /\ doing[Tick].at = "carry"
    BY <1>9 DEF CarriesToRollup, At, Merging
  <2> QED
    BY <1>9, <2>1, SmokeBeginsAll
<1>10. CASE AnswerLost
  BY <1>1, <1>10, EndsAll DEF AnswerLost, Befalls, At
<1> QED
  BY <1>2, <1>3, <1>4, <1>5, <1>6, <1>7, <1>8, <1>9, <1>10 DEF Integrate

LEMMA EndPeriodMoves ==
  ASSUME Typed, NEW a \in {Tick, Order}, EndPeriod(a)
  PROVE  \/ /\ Closes(a) /\ doing[a].at = "close" /\ doing'[a].at = "mark"
            /\ doing'[a].period = doing[a].period /\ doing'[a].list = doing[a].list
         \/ /\ MarksClosed(a) /\ doing[a].at = "mark" /\ doing'[a].at = "look"
            /\ doing'[a].period = doing[a].period /\ doing'[a].list = doing[a].list
         \/ /\ LooksForRollup(a) /\ doing[a].at = "look" /\ doing'[a].info = rollup
            /\ doing'[a].period = doing[a].period /\ doing'[a].list = doing[a].list
            /\ \/ doing'[a].at = "refresh" /\ rollup.period = doing[a].period
               \/ doing'[a].at = "drop" /\ rollup.period # doing[a].period /\ doing[a].list = {}
               \/ doing'[a].at = "open" /\ rollup.period # doing[a].period /\ doing[a].list # {}
         \/ RefreshesRollup(a) /\ doing[a].at = "refresh" /\ doing'[a].at = "idle"
         \/ DropsBranch(a) /\ doing[a].at = "drop" /\ doing'[a].at = "idle"
         \/ /\ OpensRollup(a) /\ doing[a].at = "open" /\ doing'[a].at = "file"
            /\ doing'[a].period = doing[a].period /\ doing'[a].list = doing[a].list
         \/ RollupRefused(a) /\ doing[a].at = "open" /\ doing'[a].at = "idle"
         \/ FilesRollup(a) /\ doing[a].at = "file" /\ doing'[a].at = "idle"
<1>1. a \in Actors
  BY ActorsApart
<1>2. CASE Closes(a) \/ MarksClosed(a) \/ OpensRollup(a)
  BY <1>1, <1>2, GoesAll DEF Closes, MarksClosed, OpensRollup, At
<1>3. CASE RefreshesRollup(a) \/ DropsBranch(a) \/ RollupRefused(a) \/ FilesRollup(a)
  BY <1>1, <1>3, EndsAll DEF RefreshesRollup, DropsBranch, RollupRefused, FilesRollup, At
<1>4. CASE LooksForRollup(a)
  BY <1>1, <1>4, LooksAll
<1> QED
  BY <1>2, <1>3, <1>4 DEF EndPeriod

LEMMA SmokeMoves ==
  ASSUME Typed, NEW c \in Children, SmokeStep(c)
  PROVE  \/ /\ SmokeEnds(c) /\ doing[Smoke(c)].at = "run"
            /\ (doing'[Smoke(c)].at = "idle" \/ (doing'[Smoke(c)].at = "revert" /\ Keeps(Smoke(c))))
         \/ SmokeReverts(c) /\ doing[Smoke(c)].at = "revert" /\ doing'[Smoke(c)].at = "forget" /\ Keeps(Smoke(c))
         \/ SmokeCannotRevert(c) /\ doing[Smoke(c)].at = "revert" /\ doing'[Smoke(c)].at = "stuck" /\ Keeps(Smoke(c))
         \/ /\ doing[Smoke(c)].at = "forget" /\ doing'[Smoke(c)].at = "erase" /\ Keeps(Smoke(c))
            /\ doing'[Smoke(c)].list = integrations
         \/ Forgets(Smoke(c), c, "back") /\ doing[Smoke(c)].at = "erase" /\ doing'[Smoke(c)].at = "back" /\ Keeps(Smoke(c))
         \/ SmokeSendsBack(c) /\ doing[Smoke(c)].at \in {"back", "stuck"} /\ doing'[Smoke(c)].at = "idle"
<1> USE DEF Keeps
<1>1. Smoke(c) \in Actors
  BY ActorsApart
<1>2. CASE SmokeEnds(c)
  <2>1. Ends(Smoke(c)) \/ Goes(Smoke(c), "revert")
    BY <1>2 DEF SmokeEnds
  <2> QED
    BY <1>1, <1>2, <2>1, GoesAll, EndsAll DEF SmokeEnds, At
<1>3. CASE SmokeReverts(c) \/ SmokeCannotRevert(c)
  BY <1>1, <1>3, GoesAll DEF SmokeReverts, SmokeCannotRevert, At
<1>4. CASE SmokeSendsBack(c)
  BY <1>1, <1>4, EndsAll DEF SmokeSendsBack
<1>5. CASE ReadsIntegrations(Smoke(c), "forget", "erase") \/ Forgets(Smoke(c), c, "back")
  BY <1>1, <1>5, ReadsAll, ForgetsAll
<1> QED
  BY <1>2, <1>3, <1>4, <1>5 DEF SmokeStep

LEMMA ExcludeMoves ==
  ASSUME Typed, ExcludeStep
  PROVE  \/ ExcludeReverts /\ doing[Order].at = "undo" /\ doing'[Order].at = "strike" /\ Keeps(Order)
         \/ ExcludeRefused /\ doing[Order].at = "undo" /\ doing'[Order].at = "idle"
         \/ /\ doing[Order].at = "strike" /\ doing'[Order].at = "erase" /\ Keeps(Order)
            /\ doing'[Order].list = integrations
         \/ /\ Forgets(Order, doing[Order].child, "unlist") /\ doing[Order].at = "erase" /\ doing'[Order].at = "unlist"
            /\ Keeps(Order)
         \/ ExcludeUnlists /\ doing[Order].at = "unlist" /\ doing'[Order].at = "exclude" /\ Keeps(Order)
         \/ ExcludeBlocks /\ doing[Order].at = "exclude" /\ doing'[Order].at = "idle"
<1> USE DEF Keeps
<1>1. Order \in Actors
  BY ActorsApart
<1>2. CASE ExcludeReverts
  BY <1>1, <1>2, GoesAll DEF ExcludeReverts, At
<1>3. CASE ExcludeRefused \/ ExcludeBlocks
  BY <1>1, <1>3, EndsAll DEF ExcludeRefused, ExcludeBlocks, At
<1>4. CASE ReadsIntegrations(Order, "strike", "erase") \/ Forgets(Order, doing[Order].child, "unlist")
  BY <1>1, <1>4, ReadsAll, ForgetsAll
<1>5. CASE ExcludeUnlists
  BY <1>5, UnlistsAll
<1> QED
  BY <1>2, <1>3, <1>4, <1>5 DEF ExcludeStep

LEMMA FinishMovesOn ==
  ASSUME Typed, FinishStep
  PROVE  \/ /\ FinishGathers /\ doing[Finish].at = "gather" /\ doing'[Finish].at = "retarget" /\ doing'[Finish].info = rollup
            /\ doing'[Finish].period = (IF rollup.period # None THEN rollup.period ELSE doing[Finish].period)
         \/ /\ FinishRetargets /\ doing[Finish].at = "retarget" /\ doing'[Finish].at = "delete" /\ Keeps(Finish)
            /\ doing'[Finish].info = doing[Finish].info
         \/ /\ FinishDeletes /\ doing[Finish].at = "delete" /\ doing'[Finish].at = "clear" /\ Keeps(Finish)
            /\ doing'[Finish].info = doing[Finish].info
         \/ FinishClears /\ doing[Finish].at = "clear" /\ doing'[Finish].at = "tidy" /\ doing'[Finish].period = doing[Finish].period
         \/ doing[Finish].at = "tidy" /\ doing'[Finish].at = "prune" /\ Keeps(Finish) /\ doing'[Finish].list = integrations
         \/ FinishTidies /\ doing[Finish].at = "prune" /\ doing'[Finish].at = "idle"
<1> USE DEF Keeps
<1>1. Finish \in Actors
  BY ActorsApart
<1>2. CASE FinishRetargets
  BY <1>1, <1>2, GoesAll DEF FinishRetargets, At
<1>3. CASE FinishDeletes
  BY <1>1, <1>3, GoesAll DEF FinishDeletes, At
<1>4. CASE FinishTidies
  BY <1>1, <1>4, EndsAll DEF FinishTidies, At
<1>5. CASE ReadsIntegrations(Finish, "tidy", "prune")
  BY <1>1, <1>5, ReadsAll
<1> QED
  BY <1>2, <1>3, <1>4, <1>5, GathersAll, ClearsAll DEF FinishStep

-----------------------------------------------------------------------------
(* Where a child's change is.  A child that can still be worked on is on no *)
(* branch, a change is on one branch at most, and one that was taken off a  *)
(* branch is on none until its records are put right.                       *)
Held    == doing[Tick].at \in {"record", "read", "add", "ask", "carry"}
Sent(c) == doing[Smoke(c)].at \in {"forget", "erase", "back"}
Struck  == doing[Order].at \in {"strike", "erase", "unlist", "exclude"}
Struckee == doing[Order].child

Nowhere(c) == \A p \in Periods : c \notin on[p]

LooseNowhere == \A c \in Children : state[c] \notin Settled /\ ~(At(Tick, "record") /\ c = Subject) => Nowhere(c)
OneBranch    == \A p, q \in Periods : p # q => on[p] \cap on[q] = {}
HeldThere    == Held => \A p \in Periods : Subject \in on[p] => p = Target
SentNowhere  == \A c \in Children : Sent(c) => Nowhere(c)
StruckNowhere == Struck => Struckee \in Children /\ Nowhere(Struckee) /\ state[Struckee] \in Settled /\ ~Sent(Struckee)

Placed == Calm => LooseNowhere /\ OneBranch /\ HeldThere /\ SentNowhere /\ StruckNowhere

LEMMA OnMoves ==
  ASSUME Typed, [Next]_vars, NEW p \in Periods, NEW c
  PROVE  /\ c \in on'[p] /\ c \notin on[p] => MergesChild /\ c = Subject /\ p = base[Subject]
         /\ c \in on[p] /\ c \notin on'[p] =>
              \/ c \in Children /\ SmokeReverts(c) /\ p = doing[Smoke(c)].period
              \/ ExcludeReverts /\ c = Struckee /\ p = doing[Order].period
<1>1. RecordsTyped /\ (on' = on \/ OnChanges)
  BY WhoTouches, TypedFacts DEF Touched
<1>2. CASE MergesChild
  BY <1>1, <1>2 DEF MergesChild, RecordsTyped
<1>3. ASSUME NEW d \in Children, SmokeReverts(d)
      PROVE  on' = [on EXCEPT ![doing[Smoke(d)].period] = @ \ {d}]
  BY <1>3 DEF SmokeReverts, Reverts
<1>4. CASE ExcludeReverts
  <2>1. on' = [on EXCEPT ![doing[Order].period] = @ \ {Struckee}]
    BY <1>4 DEF ExcludeReverts, Reverts, Struckee
  <2> QED
    BY <1>1, <1>4, <2>1 DEF RecordsTyped
<1>5. CASE \E d \in Children : SmokeReverts(d)
  <2>1. PICK d \in Children : SmokeReverts(d)
    BY <1>5
  <2>2. on' = [on EXCEPT ![doing[Smoke(d)].period] = @ \ {d}]
    BY <1>3, <2>1
  <2> QED
    BY <1>1, <2>1, <2>2 DEF RecordsTyped
<1> QED
  BY <1>1, <1>2, <1>4, <1>5 DEF OnChanges

LEMMA Unsettles ==
  ASSUME Typed, [Next]_vars, NEW c \in Children, state[c] \in Settled, state'[c] \notin Settled
  PROVE  SmokeSendsBack(c) /\ doing[Smoke(c)].at = "back"
<1>1. RecordsTyped /\ (state' = state \/ StateChanges)
  BY WhoTouches, TypedFacts DEF Touched
<1>2. ~(MergeRefused \/ AnswerLost \/ RecordsIntegrated \/ ExcludeBlocks \/ FinishGathers)
  BY <1>1 DEF MergeRefused, AnswerLost, RecordsIntegrated, ExcludeBlocks, FinishGathers, MoveOrRaise, RecordsTyped, Settled
<1>3. PICK d \in Children : OpensPR(d) \/ Reconciles(d) \/ Readies(d) \/ SmokeSendsBack(d)
  BY <1>1, <1>2 DEF StateChanges
<1>4. ~OpensPR(d) /\ ~Reconciles(d) /\ ~Readies(d)
  BY <1>1 DEF OpensPR, Reconciles, Readies, RecordsTyped, Settled
<1>5. SmokeSendsBack(d) /\ d = c
  BY <1>1, <1>3, <1>4 DEF SmokeSendsBack, MoveOrRaise, RecordsTyped
<1> QED
  BY <1>1, <1>5 DEF SmokeSendsBack, MoveOrRaise, RecordsTyped, Settled, At

LEMMA TickHolds ==
  ASSUME Typed, [Next]_vars, Calm'
  PROVE  /\ Held' => Keeps(Tick) /\ (Held \/ (MergesChild /\ doing[Tick].at = "merge"))
         /\ At(Tick, "record") => (At(Tick, "record")' /\ Keeps(Tick)) \/ RecordsIntegrated
         /\ At(Tick, "record")' => At(Tick, "record") \/ MergesChild
<1>1. CASE doing'[Tick] = doing[Tick]
  BY <1>1 DEF Held, Keeps, At
<1>2. CASE Kill
  BY <1>2, KillAll DEF Held, At, Threads
<1>3. CASE TickEndsPeriod
  BY <1>3, ReadsChildrenAll, ActorsApart DEF TickEndsPeriod, Held, At, Idle
<1>4. CASE EndPeriod(Tick)
  BY <1>4, EndPeriodMoves DEF Held, At
<1>5. CASE Integrate
  <2>1. "cut" \notin mishaps'
    BY DEF Calm, Barring
  <2> QED
    BY <1>5, <2>1, IntegrateMoves DEF Held, At, Keeps
<1> QED
  BY <1>1, <1>2, <1>3, <1>4, <1>5, WhoMoves DEF Moved, TickMoves

LEMMA SentHolds ==
  ASSUME Typed, [Next]_vars, Calm', NEW c \in Children
  PROVE  /\ Sent(c)' => Keeps(Smoke(c)) /\ (Sent(c) \/ SmokeReverts(c))
         /\ Sent(c) => (Sent(c)' /\ Keeps(Smoke(c))) \/ SmokeSendsBack(c) \/ (c = Subject /\ doing[Tick].at \in Merging)
<1>1. CASE doing'[Smoke(c)] = doing[Smoke(c)]
  BY <1>1 DEF Sent, Keeps
<1>2. CASE Kill
  BY <1>2, KillAll DEF Sent, Threads
<1>3. CASE SmokeStep(c)
  BY <1>3, SmokeMoves DEF Sent, Keeps
<1>4. CASE c = Subject /\ doing'[Smoke(c)].at = "run" /\ (AsksRollup \/ CarriesToRollup)
  BY <1>4 DEF Sent, AsksRollup, CarriesToRollup, At, Merging
<1> QED
  BY <1>1, <1>2, <1>3, <1>4, WhoMoves DEF Moved

LEMMA StruckHolds ==
  ASSUME Typed, [Next]_vars
  PROVE  /\ Struck' => Keeps(Order) /\ (Struck \/ ExcludeReverts)
         /\ Struck => (Struck' /\ Keeps(Order)) \/ ExcludeBlocks
<1>1. CASE doing'[Order] = doing[Order]
  BY <1>1 DEF Struck, Keeps
<1>2. CASE OrderEndsPeriod
  BY <1>2, ReadsChildrenAll, ActorsApart DEF OrderEndsPeriod, Struck, At, Idle
<1>3. CASE EndPeriod(Order)
  BY <1>3, EndPeriodMoves DEF Struck
<1>4. CASE ExcludeStep
  BY <1>4, ExcludeMoves DEF Struck, Keeps
<1>5. CASE \E c \in Children : ExcludeBegins(c)
  BY <1>5, ExcludeBeginsAll DEF Struck
<1> QED
  BY <1>1, <1>2, <1>3, <1>4, <1>5, WhoMoves DEF Moved, OrderMoves

LEMMA MergesNew ==
  ASSUME KInv, Placed, Calm, MergesChild
  PROVE  /\ doing[Tick].at = "merge" /\ Subject \in Children /\ Target \in Periods
         /\ state[Subject] = "REVIEW" /\ Nowhere(Subject) /\ Idle(Smoke(Subject))
         /\ \A p \in Periods : p = base[Subject] => p = Target
<1>1. doing[Tick].at = "merge"
  BY DEF MergesChild, At
<1>2. Subject \in Children /\ Target \in Periods /\ state[Subject] = "REVIEW" /\ Idle(Smoke(Subject))
  BY <1>1, SubjectType DEF KInv, InHand, Merging
<1>3. Nowhere(Subject)
  BY <1>1, <1>2 DEF Placed, LooseNowhere, Settled, At
<1>4. \A p \in Periods : p = base[Subject] => p = Target
  BY <1>1 DEF KInv, Aimed, At, Periods, None
<1> QED
  BY <1>1, <1>2, <1>3, <1>4

(* A child that is taken off a branch is off every branch.                  *)
LEMMA RevertsAll ==
  ASSUME KInv, Placed, Calm, NEW p \in Periods, NEW c, c \in on[p], on' = [on EXCEPT ![p] = @ \ {c}]
  PROVE  c \in Children /\ Nowhere(c)' /\ ~Sent(c)
<1>1. RecordsTyped
  BY TypedFacts DEF KInv
<1>2. c \in on[p] /\ c \in Children
  BY <1>1 DEF RecordsTyped
<1>3. \A q \in Periods : c \notin on'[q]
  <2> TAKE q \in Periods
  <2>1. q # p => c \notin on[q]
    BY <1>2 DEF Placed, OneBranch
  <2> QED
    BY <1>1, <2>1 DEF RecordsTyped
<1>4. ~Sent(c)
  BY <1>2 DEF Placed, SentNowhere, Nowhere
<1> QED
  BY <1>2, <1>3, <1>4 DEF Nowhere

LEMMA PlacedNext ==
  ASSUME KInv, Placed, [Next]_vars, Lasts
  PROVE  Placed'
<1> SUFFICES ASSUME Calm' PROVE (LooseNowhere /\ OneBranch /\ HeldThere /\ SentNowhere /\ StruckNowhere)'
  BY DEF Placed
<1>1. Typed /\ RecordsTyped /\ Calm
  BY TypedFacts, CalmBefore DEF KInv, Calm
<1>2. LooseNowhere /\ OneBranch /\ HeldThere /\ SentNowhere /\ StruckNowhere
  BY <1>1 DEF Placed
<1>3. \A p \in Periods, c \in Children : c \in on'[p] /\ c \notin on[p] =>
         MergesChild /\ c = Subject /\ p = Target /\ Nowhere(c) /\ Idle(Smoke(c)) /\ state[c] = "REVIEW"
  BY <1>1, OnMoves, MergesNew
<1>4. \A p \in Periods : on'[p] \subseteq Children
  <2>1. \A c : \A p \in Periods : c \in on'[p] /\ c \notin on[p] => c \in Children
    BY <1>1, OnMoves, MergesNew
  <2> QED
    BY <1>1, <2>1 DEF RecordsTyped
<1>5. LooseNowhere'
  <2> SUFFICES ASSUME NEW c \in Children, NEW p \in Periods, state'[c] \notin Settled, ~(At(Tick, "record") /\ c = Subject)',
                      c \in on'[p]
               PROVE  FALSE
    BY DEF LooseNowhere, Nowhere
  <2>1. c \in on[p]
    <3>1. MergesChild /\ c = Subject => At(Tick, "record")' /\ Subject' = Subject
      BY <1>1, GoesAll, ActorsApart DEF MergesChild, At, Subject
    <3> QED
      BY <1>3, <3>1
  <2>2. CASE state[c] \in Settled
    <3>1. Sent(c)
      BY <1>1, <2>2, Unsettles DEF Sent
    <3> QED
      BY <1>2, <2>1, <3>1 DEF SentNowhere, Nowhere
  <2>3. CASE state[c] \notin Settled
    <3>1. At(Tick, "record") /\ c = Subject
      BY <1>2, <2>1, <2>3 DEF LooseNowhere, Nowhere
    <3>2. RecordsIntegrated
      BY <1>1, <3>1, TickHolds DEF Keeps, Subject
    <3>3. state[c] = "REVIEW"
      BY <3>1 DEF KInv, InHand, At
    <3>4. state'[c] = "INTEGRATED"
      BY <1>1, <3>1, <3>2, <3>3 DEF RecordsIntegrated, MoveOrRaise, MayBecome, RecordsTyped
    <3> QED
      BY <3>4 DEF Settled
  <2> QED
    BY <2>2, <2>3
<1>6. OneBranch'
  <2> SUFFICES ASSUME NEW p \in Periods, NEW q \in Periods, p # q, NEW c, c \in on'[p], c \in on'[q]
               PROVE  FALSE
    BY DEF OneBranch
  <2>1. c \in Children
    BY <1>4
  <2>2. c \in on[p] \/ c \in on[q]
    BY <1>3, <2>1
  <2>3. ~(c \in on[p] /\ c \in on[q])
    BY <1>2 DEF OneBranch
  <2> QED
    BY <1>3, <2>1, <2>2, <2>3 DEF Nowhere
<1>7. HeldThere'
  <2> SUFFICES ASSUME Held', NEW p \in Periods, Subject' \in on'[p]
               PROVE  p = Target'
    BY DEF HeldThere
  <2>1. Subject' = Subject /\ Target' = Target /\ (Held \/ (MergesChild /\ doing[Tick].at = "merge"))
    BY <1>1, TickHolds DEF Keeps, Subject, Target
  <2>2. Subject \in Children
    BY <1>4, <2>1
  <2>3. CASE Subject \in on[p]
    BY <1>1, <1>2, <2>1, <2>3, MergesNew DEF HeldThere, Nowhere
  <2>4. CASE Subject \notin on[p]
    BY <1>3, <2>1, <2>2, <2>4
  <2> QED
    BY <2>3, <2>4
<1>8. SentNowhere'
  <2> SUFFICES ASSUME NEW c \in Children, Sent(c)' PROVE Nowhere(c)'
    BY DEF SentNowhere
  <2>1. CASE Sent(c)
    <3>1. Nowhere(c) /\ ~Idle(Smoke(c))
      BY <1>2, <2>1 DEF SentNowhere, Sent, Idle, At
    <3> QED
      BY <1>3, <3>1 DEF Nowhere
  <2>2. CASE SmokeReverts(c)
    <3>1. doing[Smoke(c)].period \in Periods
      BY <1>1, <2>2, AtWork, ActorsApart DEF SmokeReverts, At
    <3> QED
      BY <1>1, <2>2, <3>1, RevertsAll DEF SmokeReverts, Reverts, CanRevert
  <2> QED
    BY <1>1, <2>1, <2>2, SentHolds
<1>9. StruckNowhere'
  <2> SUFFICES ASSUME Struck'
               PROVE  Struckee' \in Children /\ Nowhere(Struckee)' /\ state'[Struckee'] \in Settled /\ ~Sent(Struckee)'
    BY DEF StruckNowhere
  <2>1. Struckee' = Struckee /\ (Struck \/ ExcludeReverts)
    BY <1>1, StruckHolds DEF Keeps, Struckee
  <2>2. CASE Struck
    <3>1. Struckee \in Children /\ Nowhere(Struckee) /\ state[Struckee] \in Settled /\ ~Sent(Struckee)
      BY <1>2, <2>2 DEF StruckNowhere
    <3>2. Nowhere(Struckee)'
      BY <1>3, <2>1, <3>1 DEF Nowhere, Settled
    <3>3. state'[Struckee] \in Settled
      BY <1>1, <3>1, Unsettles DEF Sent
    <3>4. ~Sent(Struckee)'
      <4>1. doing[Smoke(Struckee)].period \in Periods \/ ~SmokeReverts(Struckee)
        BY <1>1, <3>1, AtWork, ActorsApart DEF SmokeReverts, At
      <4>2. ~SmokeReverts(Struckee)
        BY <3>1, <4>1 DEF SmokeReverts, CanRevert, Nowhere
      <4> QED
        BY <1>1, <2>1, <3>1, <4>2, SentHolds DEF Sent
    <3> QED
      BY <2>1, <3>1, <3>2, <3>3, <3>4
  <2>3. CASE ExcludeReverts
    <3> DEFINE p == doing[Order].period
    <3>1. /\ p \in Periods /\ state' = state /\ Goes(Order, "strike") /\ Befalls(TooLate(p) \cup Behind(p))
          /\ Struckee \in on[p] /\ on' = [on EXCEPT ![p] = @ \ {Struckee}]
      BY <1>1, <2>3, AtWork, ActorsApart DEF ExcludeReverts, CanRevert, Reverts, At, Struckee
    <3> HIDE DEF p
    <3>2. Struckee \in Children /\ Nowhere(Struckee)' /\ ~Sent(Struckee)
      <4>1. PICK c : c = Struckee
        OBVIOUS
      <4>2. c \in on[p] /\ on' = [on EXCEPT ![p] = @ \ {c}]
        BY <3>1, <4>1
      <4>3. c \in Children /\ Nowhere(c)' /\ ~Sent(c)
        BY <1>1, <3>1, <4>2, RevertsAll
      <4>4. Nowhere(Struckee)'
        BY <2>1, <4>1, <4>3 DEF Nowhere
      <4> QED
        BY <4>1, <4>3, <4>4
    <3>3. doing'[Smoke(Struckee)] = doing[Smoke(Struckee)]
      BY <1>1, <3>1, <3>2, GoesAll, ActorsApart DEF Others
    <3>4. state[Struckee] \in Settled
      <4> SUFFICES ASSUME state[Struckee] \notin Settled PROVE FALSE
        OBVIOUS
      <4>1. At(Tick, "record") /\ Struckee = Subject
        BY <1>2, <3>1, <3>2 DEF LooseNowhere, Nowhere
      <4>2. p = Target
        BY <1>2, <3>1, <3>2, <4>1 DEF HeldThere, Held, At
      <4>3. Behind(p) = {"overlap"}
        BY <4>1, <4>2, ActorsApart DEF Behind, Halfway, At, Target
      <4> QED
        BY <3>1, <4>3 DEF Befalls, Calm, Barring
    <3> QED
      BY <2>1, <3>1, <3>2, <3>3, <3>4 DEF Sent
  <2> QED
    BY <2>1, <2>2, <2>3
<1> QED
  BY <1>5, <1>6, <1>7, <1>8, <1>9

-----------------------------------------------------------------------------
(* How the records change while nothing is cut short or overwritten.        *)
LEMMA NothingMissed ==
  ASSUME NEW what, Befalls(what), Calm'
  PROVE  "overlap" \notin what /\ "cut" \notin what
BY DEF Befalls, Calm, Barring

LEMMA Unmissed ==
  ASSUME NEW a, NEW more, Befalls(Missed(a) \cup more), Calm'
  PROVE  doing[a].list = OfBranch(doing[a].period) /\ Behind(doing[a].period) = {}
BY DEF Befalls, Calm, Barring, Missed, Overlap, Behind

Carried ==
  /\ CarriesToRollup /\ doing[Tick].at = "carry" /\ doing[Tick].info = rollup
  /\ rollup'.period = rollup.period /\ rollup'.children = rollup.children \cup {Subject}
Unlisted ==
  /\ ExcludeUnlists /\ doing[Order].at = "unlist"
  /\ rollup'.period = rollup.period /\ rollup'.children = rollup.children \ {Struckee}
Cleared ==
  /\ FinishClears /\ doing[Finish].at = "clear" /\ doing[Finish].info = rollup
  /\ rollup'.period = None /\ rollup'.children = {}
Refreshed(a) ==
  /\ RefreshesRollup(a) /\ doing[a].at = "refresh" /\ doing[a].info = rollup
  /\ rollup'.period = rollup.period /\ rollup'.children = IssuesOf(OfBranch(doing[a].period))
  /\ Behind(doing[a].period) = {}
Filed(a) ==
  /\ FilesRollup(a) /\ doing[a].at = "file"
  /\ rollup'.period = doing[a].period /\ rollup'.children = IssuesOf(OfBranch(doing[a].period))
  /\ Behind(doing[a].period) = {} /\ (rollup = NoRollup \/ "displaced" \in mishaps')

LEMMA RollupMoves ==
  ASSUME Typed, [Next]_vars, Calm', rollup' # rollup
  PROVE  Carried \/ Unlisted \/ Cleared \/ \E a \in {Tick, Order} : Refreshed(a) \/ Filed(a)
<1> USE DEF Carried, Unlisted, Cleared, Refreshed, Filed
<1>1. RollupChanges /\ rollup \in Rollups
  BY WhoTouches, TypedFacts DEF Touched, RecordsTyped
<1>2. CASE CarriesToRollup
  <2>1. /\ doing[Tick].at = "carry" /\ rollup' = [doing[Tick].info EXCEPT !.children = @ \cup {Subject}]
        /\ Befalls(Overlap(doing[Tick].info, rollup))
    BY <1>2 DEF CarriesToRollup, At
  <2>2. doing[Tick].info = rollup
    BY <2>1, NothingMissed DEF Overlap
  <2> QED
    BY <1>1, <1>2, <2>1, <2>2 DEF Rollups
<1>3. CASE ExcludeUnlists
  <2>1. /\ doing[Order].at = "unlist" /\ rollup' = [doing[Order].info EXCEPT !.children = @ \ {Struckee}]
        /\ Befalls(Overlap(doing[Order].info, rollup))
    BY <1>3 DEF ExcludeUnlists, At, Struckee
  <2>2. doing[Order].info = rollup
    BY <2>1, NothingMissed DEF Overlap
  <2> QED
    BY <1>1, <1>3, <2>1, <2>2 DEF Rollups
<1>4. CASE FinishClears
  <2>1. doing[Finish].at = "clear" /\ rollup' = NoRollup /\ Befalls(Overlap(doing[Finish].info, rollup))
    BY <1>4 DEF FinishClears, At
  <2>2. doing[Finish].info = rollup
    BY <2>1, NothingMissed DEF Overlap
  <2> QED
    BY <1>4, <2>1, <2>2 DEF NoRollup
<1>5. ASSUME NEW a \in {Tick, Order}, RefreshesRollup(a)
      PROVE  Refreshed(a)
  <2>1. /\ doing[a].at = "refresh" /\ rollup' = [doing[a].info EXCEPT !.children = Listed(a)]
        /\ Befalls(Overlap(doing[a].info, rollup) \cup Missed(a))
    BY <1>5 DEF RefreshesRollup, At
  <2>2. doing[a].info = rollup
    BY <2>1, NothingMissed DEF Overlap
  <2>3. Befalls(Missed(a) \cup Overlap(doing[a].info, rollup))
    BY <2>1 DEF Befalls
  <2>4. doing[a].list = OfBranch(doing[a].period) /\ Behind(doing[a].period) = {}
    BY <2>3, Unmissed
  <2> QED
    BY <1>1, <1>5, <2>1, <2>2, <2>4 DEF Rollups, Listed
<1>6. ASSUME NEW a \in {Tick, Order}, FilesRollup(a)
      PROVE  Filed(a)
  <2>1. /\ doing[a].at = "file" /\ rollup' = [period |-> doing[a].period, children |-> Listed(a)]
        /\ Befalls(Missed(a) \cup IF rollup = NoRollup THEN {} ELSE {"displaced"})
    BY <1>6 DEF FilesRollup, At
  <2>2. doing[a].list = OfBranch(doing[a].period) /\ Behind(doing[a].period) = {}
    BY <2>1, Unmissed
  <2>3. rollup = NoRollup \/ "displaced" \in mishaps'
    BY <2>1 DEF Befalls
  <2> QED
    BY <1>6, <2>1, <2>2, <2>3 DEF Listed
<1> QED
  BY <1>1, <1>2, <1>3, <1>4, <1>5, <1>6 DEF RollupChanges

LEMMA EntriesMove ==
  ASSUME Typed, [Next]_vars, Calm', integrations' # integrations
  PROVE  \/ /\ AddsIntegration /\ doing[Tick].at = "add"
            /\ integrations' = Without(integrations, Subject) \cup {[issue |-> Subject, branch |-> Target]}
         \/ /\ FinishTidies /\ doing[Finish].at = "prune"
            /\ integrations' = {e \in integrations : e.branch # doing[Finish].period}
         \/ /\ Forgets(Order, Struckee, "unlist") /\ doing[Order].at = "erase"
            /\ integrations' = Without(integrations, Struckee)
         \/ \E c \in Children :
              /\ Forgets(Smoke(c), c, "back") /\ doing[Smoke(c)].at = "erase"
              /\ integrations' = Without(integrations, c)
<1>1. EntriesChange
  BY WhoTouches DEF Touched
<1>2. CASE AddsIntegration
  <2>1. /\ doing[Tick].at = "add" /\ Befalls(Overlap(doing[Tick].list, integrations))
        /\ integrations' = Without(doing[Tick].list, Subject) \cup {[issue |-> Subject, branch |-> Target]}
    BY <1>2 DEF AddsIntegration, At
  <2>2. doing[Tick].list = integrations
    BY <2>1, NothingMissed DEF Overlap
  <2> QED
    BY <1>2, <2>1, <2>2
<1>3. CASE FinishTidies
  <2>1. /\ doing[Finish].at = "prune" /\ Befalls(Overlap(doing[Finish].list, integrations))
        /\ integrations' = {e \in doing[Finish].list : e.branch # doing[Finish].period}
    BY <1>3 DEF FinishTidies, At
  <2>2. doing[Finish].list = integrations
    BY <2>1, NothingMissed DEF Overlap
  <2> QED
    BY <1>3, <2>1, <2>2
<1>4. ASSUME NEW a, NEW c, NEW next, Forgets(a, c, next)
      PROVE  doing[a].at = "erase" /\ integrations' = Without(integrations, c)
  <2>1. /\ doing[a].at = "erase" /\ Befalls(Overlap(doing[a].list, integrations))
        /\ integrations' = Without(doing[a].list, c)
    BY <1>4 DEF Forgets, At
  <2>2. doing[a].list = integrations
    BY <2>1, NothingMissed DEF Overlap
  <2> QED
    BY <2>1, <2>2
<1>5. CASE Forgets(Order, doing[Order].child, "unlist")
  <2>1. PICK c : c = Struckee
    OBVIOUS
  <2>2. Forgets(Order, c, "unlist")
    BY <1>5, <2>1 DEF Struckee
  <2> QED
    BY <1>4, <2>1, <2>2
<1>6. CASE \E c \in Children : Forgets(Smoke(c), c, "back")
  BY <1>4, <1>6
<1> QED
  BY <1>1, <1>2, <1>3, <1>5, <1>6 DEF EntriesChange

LEMMA RollMoves ==
  ASSUME Typed, [Next]_vars, Calm', NEW p \in Periods, roll'[p] # roll[p]
  PROVE  \/ roll[p] = "none" /\ roll'[p] = "CI" /\ \E a \in {Tick, Order} : OpensRollup(a) /\ doing[a].period = p
         \/ roll[p] \in {"CI", "READY_FOR_OWNER"} /\ roll'[p] \in {"CI", "READY_FOR_OWNER", "BLOCKED"}
         \/ roll[p] = "READY_FOR_OWNER" /\ roll'[p] = "MERGED" /\ OwnerMerges(p)
         \/ /\ roll[p] = "MERGED" /\ roll'[p] = "DONE" /\ MainSmokeEnds(p)
            /\ doing[Finish].at = "idle" /\ doing'[Finish].at = "gather" /\ doing'[Finish].period = p
<1>1. RollChanges /\ RecordsTyped
  BY WhoTouches, TypedFacts DEF Touched
<1>2. ASSUME NEW a \in {Tick, Order}, OpensRollup(a)
      PROVE  roll[p] = "none" /\ roll'[p] = "CI" /\ doing[a].period = p
  BY <1>1, <1>2 DEF OpensRollup, RecordsTyped
<1>3. ASSUME NEW q \in Periods, RollupReadies(q) \/ RollupInvalidated(q) \/ RollupClosed(q)
      PROVE  roll[p] \in {"CI", "READY_FOR_OWNER"} /\ roll'[p] \in {"CI", "READY_FOR_OWNER", "BLOCKED"}
  BY <1>1, <1>3 DEF RollupReadies, RollupInvalidated, RollupClosed, RecordsTyped
<1>4. ASSUME NEW q \in Periods, OwnerMerges(q)
      PROVE  roll[p] = "READY_FOR_OWNER" /\ roll'[p] = "MERGED" /\ OwnerMerges(p)
  <2>1. q = p
    BY <1>1, <1>4 DEF OwnerMerges, RecordsTyped
  <2> QED
    BY <1>1, <1>4, <2>1 DEF OwnerMerges, RecordsTyped
<1>5. ASSUME NEW q \in Periods, MainSmokeEnds(q)
      PROVE  /\ roll[p] = "MERGED" /\ roll'[p] = "DONE" /\ MainSmokeEnds(p)
             /\ doing[Finish].at = "idle" /\ doing'[Finish].at = "gather" /\ doing'[Finish].period = p
  <2>1. "cut" \notin mishaps'
    BY DEF Calm, Barring
  <2>2. q = p
    BY <1>1, <1>5, MainSmokeAll DEF RecordsTyped
  <2> QED
    BY <1>1, <1>5, <2>1, <2>2, MainSmokeAll DEF RecordsTyped
<1> QED
  BY <1>1, <1>2, <1>3, <1>4, <1>5 DEF RollChanges

(* A deletion that is not refused.                                          *)
LEMMA DeleteAll ==
  ASSUME Typed, NEW b, NEW mishap, Delete(b, mishap), Calm'
  PROVE  /\ branches' = branches \ {b} /\ Befalls(mishap)
         /\ \A c \in Children : pr'[c] = (IF pr[c] = "open" /\ base[c] = b THEN "closed" ELSE pr[c])
BY TypedFacts DEF Delete, Befalls, Calm, Barring, RecordsTyped

LEMMA BranchesMove ==
  ASSUME Typed, [Next]_vars, Calm', NEW p \in Periods
  PROVE  /\ p \in branches' /\ p \notin branches =>
              \/ StartsPeriod /\ p = CalendarPeriod
              \/ (\E c : c \in on[p]) /\ (roll[p] \in {"MERGED", "DONE"} => "late" \in mishaps')
         /\ p \in branches /\ p \notin branches' =>
              \/ FinishDeletes /\ doing[Finish].at = "delete" /\ doing[Finish].period = p
              \/ \E a \in {Tick, Order} :
                   /\ DropsBranch(a) /\ doing[a].at = "drop" /\ doing[a].period = p
                   /\ doing[a].list = OfBranch(p) /\ Behind(p) = {}
<1>1. branches' = branches \/ BranchesChange
  BY WhoTouches DEF Touched
<1>2. CASE StartsPeriod
  BY <1>2 DEF StartsPeriod
<1>3. CASE FinishDeletes
  <2>1. doing[Finish].at = "delete" /\ branches' = branches \ {doing[Finish].period}
    BY <1>3, DeleteAll DEF FinishDeletes, At
  <2> QED
    BY <1>3, <2>1
<1>4. ASSUME NEW a \in {Tick, Order}, DropsBranch(a)
      PROVE  /\ doing[a].at = "drop" /\ branches' = branches \ {doing[a].period}
             /\ doing[a].list = OfBranch(doing[a].period) /\ Behind(doing[a].period) = {}
  <2>1. doing[a].at = "drop" /\ branches' = branches \ {doing[a].period} /\ Befalls(Missed(a) \cup {})
    BY <1>4, DeleteAll DEF DropsBranch, At
  <2> QED
    BY <2>1, Unmissed
<1>5. ASSUME NEW q, NEW c, NEW mishap, c \in on[q], Reverts(c, q, mishap)
      PROVE  /\ branches' = branches \cup {q} /\ \E d : d \in on[q]
             /\ roll[q] \in {"MERGED", "DONE"} => "late" \in mishaps'
  BY <1>5 DEF Reverts, Befalls, TooLate
<1>6. CASE ExcludeReverts
  <2>1. PICK q, c : q = doing[Order].period /\ c = Struckee
    OBVIOUS
  <2>2. c \in on[q] /\ Reverts(c, q, Behind(q))
    BY <1>6, <2>1 DEF ExcludeReverts, CanRevert, Struckee
  <2> QED
    BY <1>5, <2>2
<1>7. ASSUME NEW c \in Children, SmokeReverts(c)
      PROVE  p \in branches' /\ p \notin branches =>
               (\E d : d \in on[p]) /\ (roll[p] \in {"MERGED", "DONE"} => "late" \in mishaps')
  <2>1. PICK q : q = doing[Smoke(c)].period
    OBVIOUS
  <2>2. c \in on[q] /\ Reverts(c, q, {})
    BY <1>7, <2>1 DEF SmokeReverts, CanRevert
  <2> QED
    BY <1>5, <2>2
<1>8. ASSUME NEW c \in Children, SmokeReverts(c) PROVE branches \subseteq branches'
  BY <1>8 DEF SmokeReverts, Reverts
<1> QED
  BY <1>1, <1>2, <1>3, <1>4, <1>6, <1>7, <1>8 DEF BranchesChange, StartsPeriod, ExcludeReverts, Reverts

(* The steps of end_period, in order.                                       *)
Closing == {"close", "mark", "look", "refresh", "drop", "open", "file"}

LEMMA CloserMoves ==
  ASSUME Typed, [Next]_vars, Calm', NEW a \in {Tick, Order}
  PROVE  \/ doing'[a] = doing[a]
         \/ EndPeriod(a)
         \/ doing[a].at \notin Closing /\ doing'[a].at \notin Closing
         \/ doing[a].at \notin Closing /\ doing'[a].at = "close" /\ (TickEndsPeriod \/ OrderEndsPeriod)
<1> USE DEF Closing
<1>1. CASE Kill
  BY <1>1, KillAll DEF Threads
<1>2. CASE a = Tick
  <2>1. CASE TickEndsPeriod
    BY <1>2, <2>1, ReadsChildrenAll, ActorsApart DEF TickEndsPeriod, Idle, At
  <2>2. CASE Integrate
    BY <1>2, <2>2, IntegrateMoves
  <2> QED
    BY <1>1, <1>2, <2>1, <2>2, WhoMoves DEF Moved, TickMoves
<1>3. CASE a = Order
  <2>1. CASE OrderEndsPeriod
    BY <1>3, <2>1, ReadsChildrenAll, ActorsApart DEF OrderEndsPeriod, Idle, At
  <2>2. CASE ExcludeStep
    BY <1>3, <2>2, ExcludeMoves
  <2>3. CASE \E c \in Children : ExcludeBegins(c)
    BY <1>3, <2>3, ExcludeBeginsAll
  <2> QED
    BY <1>3, <2>1, <2>2, <2>3, WhoMoves DEF Moved, OrderMoves
<1> QED
  BY <1>2, <1>3

LEMMA FinisherMoves ==
  ASSUME Typed, [Next]_vars, Calm'
  PROVE  \/ doing'[Finish] = doing[Finish]
         \/ FinishStep
         \/ doing'[Finish].at = "idle" /\ doing[Finish].at \in {"idle", "run"}
         \/ \E p \in Periods :
              /\ doing[Finish].at = "idle" /\ doing'[Finish].at = "gather" /\ doing'[Finish].period = p
              /\ roll[p] = "MERGED" /\ roll'[p] = "DONE"
<1>1. CASE Kill
  BY <1>1, KillAll DEF Threads
<1>2. ASSUME NEW p \in Periods, MainSmokeEnds(p)
      PROVE  /\ doing[Finish].at = "idle" /\ doing'[Finish].at = "gather" /\ doing'[Finish].period = p
             /\ roll[p] = "MERGED" /\ roll'[p] = "DONE"
  <2>1. "cut" \notin mishaps' /\ RecordsTyped
    BY TypedFacts DEF Calm, Barring
  <2> QED
    BY <1>2, <2>1, MainSmokeAll DEF RecordsTyped
<1> QED
  BY <1>1, <1>2, WhoMoves DEF Moved, FinishMoves

-----------------------------------------------------------------------------
(* When the records stop speaking for a branch: its rollup's record is      *)
(* replaced or cleared, or the merged rollup is being finished.             *)
Taken(p)  == doing[Finish].at \in {"retarget", "delete", "clear"} /\ doing[Finish].period = p
Filing(p) == \E a \in {Tick, Order} : doing[a].at = "file" /\ doing[a].period = p
Past(p)   == roll[p] # "none" /\ rollup.period # p /\ ~Filing(p)
Over(p)   == roll[p] = "DONE" /\ ~(doing[Finish].at = "gather" /\ doing[Finish].period = p)
Gone(p)   == Taken(p) \/ Past(p) \/ Over(p)

(* A rollup that is about to be filed has its pull request and no record,   *)
(* and nobody else files it.                                                *)
FilesOwn ==
  \A a \in {Tick, Order} : doing[a].at = "file" =>
    /\ roll[doing[a].period] # "none" /\ rollup.period # doing[a].period
    /\ \A b \in {Tick, Order} : b # a /\ doing[b].at = "file" => doing[b].period # doing[a].period
RecordHasPR == rollup.period # None => roll[rollup.period] # "none"
TakesOwn    == \A p \in Periods : Taken(p) /\ roll[p] # "DONE" => roll[p] # "none" /\ ~Filing(p)
Finishes ==
  /\ doing[Finish].at = "gather" => roll[doing[Finish].period] = "DONE"
  /\ doing[Finish].at \in {"tidy", "prune"} => Gone(doing[Finish].period)
ReadsOwn ==
  /\ \A a \in {Tick, Order} : /\ doing[a].at = "refresh" => doing[a].info.period = doing[a].period
                              /\ doing[a].at = "drop" => doing[a].list = {}
  /\ doing[Tick].at = "carry" => doing[Tick].info.period = Target

Books == Calm => FilesOwn /\ RecordHasPR /\ TakesOwn /\ Finishes /\ ReadsOwn

LEMMA FileMoves ==
  ASSUME Typed, [Next]_vars, Calm', NEW a \in {Tick, Order}
  PROVE  /\ doing'[a].at = "file" =>
              doing'[a].period = doing[a].period /\ (doing[a].at = "file" \/ OpensRollup(a))
         /\ doing[a].at = "file" =>
              (doing'[a].at = "file" /\ doing'[a].period = doing[a].period) \/ FilesRollup(a)
BY CloserMoves, EndPeriodMoves DEF Closing

(* What GitHub has is not taken back.                                       *)
LEMMA PRStays ==
  ASSUME Typed, [Next]_vars, Calm', NEW p \in Periods, roll[p] # "none"
  PROVE  roll'[p] # "none"
BY RollMoves

LEMMA CarryMoves ==
  ASSUME Typed, [Next]_vars, Calm', doing'[Tick].at = "carry"
  PROVE  \/ doing'[Tick] = doing[Tick]
         \/ doing'[Tick].info = rollup /\ rollup.period = Target /\ Target' = Target
<1>1. CASE Kill
  BY <1>1, KillAll DEF Threads
<1>2. CASE TickEndsPeriod \/ EndPeriod(Tick)
  BY <1>2, ReadsChildrenAll, EndPeriodMoves, ActorsApart DEF TickEndsPeriod
<1>3. CASE Integrate
  BY <1>3, IntegrateMoves DEF Keeps, Target
<1> QED
  BY <1>1, <1>2, <1>3, WhoMoves DEF Moved, TickMoves

(* A branch the records no longer speak for stays so.                       *)
LEMMA GoneStays ==
  ASSUME Typed, Books, Lasts, [Next]_vars, Calm, Calm', NEW p \in Periods, Gone(p)
  PROVE  Gone(p)'
<1>1. CASE Over(p)
  <2>1. roll'[p] = "DONE"
    BY <1>1 DEF Over, Lasts
  <2>2. ~(doing'[Finish].at = "gather" /\ doing'[Finish].period = p)
    <3>1. CASE FinishStep
      BY <3>1, FinishMovesOn
    <3> QED
      BY <1>1, <3>1, FinisherMoves DEF Over
  <2> QED
    BY <2>1, <2>2 DEF Gone, Over
<1>2. CASE Past(p)
  <2>1. roll'[p] # "none"
    BY <1>2, PRStays DEF Past
  <2>2. rollup'.period # p
    <3>1. p # None
      BY DEF Periods, None
    <3> QED
      BY <1>2, <3>1, RollupMoves DEF Past, Filing, Carried, Unlisted, Cleared, Refreshed, Filed
  <2>3. ~Filing(p)'
    BY <1>2, FileMoves DEF Past, Filing, OpensRollup
  <2> QED
    BY <2>1, <2>2, <2>3 DEF Gone, Past
<1>3. CASE Taken(p) /\ ~Over(p)
  <2>1. doing[Finish].at \in {"retarget", "delete", "clear"} /\ doing[Finish].period = p
    BY <1>3 DEF Taken
  <2>2. roll[p] # "none" /\ ~Filing(p)
    <3>1. roll[p] # "DONE"
      BY <1>3, <2>1 DEF Over
    <3> QED
      BY <1>3, <3>1 DEF Books, TakesOwn
  <2>3. CASE FinishClears
    <3>1. rollup'.period # p
      BY <2>3 DEF FinishClears, NoRollup, None, Periods
    <3>2. roll'[p] # "none" /\ ~Filing(p)'
      BY <2>2, PRStays, FileMoves DEF Filing, OpensRollup
    <3> QED
      BY <3>1, <3>2 DEF Gone, Past
  <2>4. CASE ~FinishClears
    <3>1. CASE FinishStep
      BY <2>1, <2>4, <3>1, FinishMovesOn DEF Gone, Taken, Keeps
    <3> QED
      BY <2>1, <3>1, FinisherMoves DEF Gone, Taken
  <2> QED
    BY <2>3, <2>4
<1> QED
  BY <1>1, <1>2, <1>3 DEF Gone

LEMMA BooksInit == Init => Books
<1> SUFFICES ASSUME Init PROVE Books
  OBVIOUS
<1>1. \A a \in Actors : doing[a].at = "idle"
  BY RestingType DEF Init
<1>2. doing[Tick].at = "idle" /\ doing[Order].at = "idle" /\ doing[Finish].at = "idle"
  BY <1>1, ActorsApart
<1> QED
  BY <1>2 DEF Init, Books, FilesOwn, RecordHasPR, TakesOwn, Taken, Finishes, ReadsOwn, NoRollup

LEMMA BooksNext ==
  ASSUME Typed, Typed', Books, Lasts, [Next]_vars
  PROVE  Books'
<1> SUFFICES ASSUME Calm' PROVE (FilesOwn /\ RecordHasPR /\ TakesOwn /\ Finishes /\ ReadsOwn)'
  BY DEF Books
<1>1. Calm /\ FilesOwn /\ RecordHasPR /\ TakesOwn /\ Finishes /\ ReadsOwn
  BY CalmBefore DEF Calm, Books
<1>2. /\ \A a \in {Tick, Order} : doing[a].at # "idle" => doing[a].period \in Periods
      /\ doing[Finish].at # "idle" => doing[Finish].period \in Periods
      /\ rollup.period \in Periods \cup {None}
  BY AtWork, ActorsApart, TypedFacts DEF RecordsTyped, Rollups
<1>3. FilesOwn'
  <2> SUFFICES ASSUME NEW a \in {Tick, Order}, doing'[a].at = "file"
               PROVE  /\ roll'[doing'[a].period] # "none" /\ rollup'.period # doing'[a].period
                      /\ \A b \in {Tick, Order} : b # a /\ doing'[b].at = "file" => doing'[b].period # doing'[a].period
    BY DEF FilesOwn
  <2>1. doing'[a].period = doing[a].period /\ doing[a].period \in Periods /\ (doing[a].at = "file" \/ OpensRollup(a))
    BY <1>2, FileMoves DEF OpensRollup, At
  <2>2. CASE OpensRollup(a)
    <3>1. roll[doing[a].period] = "none" /\ roll'[doing[a].period] = "CI" /\ rollup' = rollup
      BY <2>1, <2>2, TypedFacts DEF OpensRollup, RecordsTyped, meta
    <3>2. rollup.period # doing[a].period
      BY <1>1, <2>1, <3>1 DEF RecordHasPR, Periods, None
    <3>3. ASSUME NEW b \in {Tick, Order}, b # a, doing'[b].at = "file" PROVE doing'[b].period # doing[a].period
      <4>1. doing'[b] = doing[b]
        BY <2>2, <3>3, GoesAll, ActorsApart DEF OpensRollup, Others
      <4> QED
        BY <1>1, <3>1, <3>3, <4>1 DEF FilesOwn
    <3> QED
      BY <2>1, <3>1, <3>2, <3>3
  <2>3. CASE doing[a].at = "file"
    <3>1. roll[doing[a].period] # "none" /\ roll'[doing[a].period] # "none"
      BY <1>1, <2>1, <2>3, PRStays DEF FilesOwn
    <3>2. rollup'.period # doing[a].period
      <4>1. rollup.period # doing[a].period
        BY <1>1, <2>3 DEF FilesOwn
      <4>2. ASSUME NEW b \in {Tick, Order}, FilesRollup(b), doing[b].at = "file" PROVE doing[b].period # doing[a].period
        <5>1. CASE b = a
          BY <4>2, <5>1, EndsAll, ActorsApart DEF FilesRollup
        <5> QED
          BY <1>1, <2>3, <4>2, <5>1 DEF FilesOwn
      <4> QED
        BY <2>1, <4>1, <4>2, RollupMoves DEF Periods, None, Carried, Unlisted, Cleared, Refreshed, Filed
    <3>3. ASSUME NEW b \in {Tick, Order}, b # a, doing'[b].at = "file" PROVE doing'[b].period # doing[a].period
      BY <1>1, <2>3, <3>1, <3>3, FileMoves DEF FilesOwn, OpensRollup
    <3> QED
      BY <2>1, <3>1, <3>2, <3>3
  <2> QED
    BY <2>1, <2>2, <2>3
<1>4. RecordHasPR'
  <2> SUFFICES ASSUME rollup'.period # None PROVE roll'[rollup'.period] # "none"
    BY DEF RecordHasPR
  <2>1. CASE rollup'.period = rollup.period
    BY <1>1, <1>2, <2>1, PRStays DEF RecordHasPR
  <2>2. CASE rollup'.period # rollup.period
    <3>1. PICK a \in {Tick, Order} : doing[a].at = "file" /\ rollup'.period = doing[a].period
      BY <2>2, RollupMoves DEF Carried, Unlisted, Cleared, Refreshed, Filed
    <3> QED
      BY <1>1, <1>2, <3>1, PRStays DEF FilesOwn
  <2> QED
    BY <2>1, <2>2
<1>5. TakesOwn'
  <2> SUFFICES ASSUME NEW p \in Periods, Taken(p)', roll'[p] # "DONE"
               PROVE  roll'[p] # "none" /\ ~Filing(p)'
    BY DEF TakesOwn
  <2>1. roll[p] # "none" /\ ~Filing(p)
    <3>1. CASE Taken(p)
      BY <1>1, <3>1 DEF TakesOwn, Lasts
    <3>2. CASE ~Taken(p)
      <4>1. FinishStep
        BY <3>2, FinisherMoves DEF Taken
      <4>2. doing[Finish].at = "gather" /\ p = (IF rollup.period # None THEN rollup.period ELSE doing[Finish].period)
        BY <3>2, <4>1, FinishMovesOn DEF Taken, Keeps
      <4>3. rollup.period = p /\ p # None
        BY <1>1, <4>2 DEF Finishes, Lasts, Periods, None
      <4> QED
        BY <1>1, <4>3 DEF RecordHasPR, FilesOwn, Filing
    <3> QED
      BY <3>1, <3>2
  <2> QED
    BY <2>1, PRStays, FileMoves DEF Filing, OpensRollup
<1>6. Finishes'
  <2>1. ASSUME doing'[Finish].at = "gather" PROVE roll'[doing'[Finish].period] = "DONE"
    <3>1. ~FinishStep
      BY <2>1, FinishMovesOn
    <3> QED
      BY <1>1, <1>2, <2>1, <3>1, FinisherMoves DEF Finishes, Lasts
  <2>2. ASSUME doing'[Finish].at \in {"tidy", "prune"} PROVE Gone(doing[Finish].period)'
    <3>1. doing'[Finish].period = doing[Finish].period /\ doing[Finish].at \in {"clear", "tidy", "prune"}
      <4>1. CASE FinishStep
        BY <2>2, <4>1, FinishMovesOn DEF Keeps
      <4> QED
        BY <2>2, <4>1, FinisherMoves
    <3>2. PICK p \in Periods : p = doing[Finish].period
      BY <1>2, <3>1
    <3>3. Gone(p)
      BY <1>1, <3>1, <3>2 DEF Finishes, Gone, Taken
    <3>4. Gone(p)'
      BY <1>1, <3>3, GoneStays
    <3> QED
      BY <3>1, <3>2, <3>4 DEF Gone, Taken, Past, Over, Filing
  <2> QED
    BY <2>1, <2>2 DEF Finishes
<1>7. ReadsOwn'
  <2>1. ASSUME NEW a \in {Tick, Order}
        PROVE  /\ doing'[a].at = "refresh" => doing'[a].info.period = doing'[a].period
               /\ doing'[a].at = "drop" => doing'[a].list = {}
    <3>1. CASE doing'[a] = doing[a]
      BY <1>1, <3>1 DEF ReadsOwn
    <3>2. CASE EndPeriod(a)
      BY <3>2, EndPeriodMoves
    <3> QED
      BY <3>1, <3>2, CloserMoves DEF Closing
  <2>2. doing'[Tick].at = "carry" => doing'[Tick].info.period = Target'
    BY <1>1, CarryMoves DEF ReadsOwn, Target
  <2> QED
    BY <2>1, <2>2 DEF ReadsOwn
<1> QED
  BY <1>3, <1>4, <1>5, <1>6, <1>7

-----------------------------------------------------------------------------
(* Where the record of an integration leads.  A merge goes where the pull   *)
(* request was aimed; what is on record is on its branch, unless someone is *)
(* just taking it off or the branch was handed over (Gone) and changed late.*)
Sound(p) == Barring({"late"}) \/ ~Gone(p)

AimedThere == At(Tick, "merge") => base[Subject] = Target \/ (base[Subject] = None /\ Gone(Target))

Undoing(c, p) ==
  \/ doing[Smoke(c)].at \in {"forget", "erase"} /\ doing[Smoke(c)].period = p
  \/ doing[Order].at \in {"strike", "erase"} /\ Struckee = c /\ doing[Order].period = p

MergedThere  == Held /\ Sound(Target) => Subject \in on[Target]
EntriesThere == \A e \in integrations : Sound(e.branch) => e.issue \in on[e.branch] \/ Undoing(e.issue, e.branch)

Traced == Calm => AimedThere /\ MergedThere /\ EntriesThere

LEMMA SoundBefore ==
  ASSUME Typed, Books, Lasts, [Next]_vars, Calm, Calm', NEW p \in Periods, Sound(p)'
  PROVE  Sound(p)
BY GoneStays, CalmBefore DEF Sound

LEMMA SmokeUndoes ==
  ASSUME KInv, [Next]_vars, Calm', NEW c \in Children
  PROVE  /\ doing[Smoke(c)].at = "erase" => (doing'[Smoke(c)].at = "erase" /\ Keeps(Smoke(c))) \/ Forgets(Smoke(c), c, "back")
         /\ doing[Smoke(c)].at = "forget" => doing'[Smoke(c)].at \in {"forget", "erase"} /\ Keeps(Smoke(c))
         /\ SmokeReverts(c) => doing'[Smoke(c)].at = "forget" /\ Keeps(Smoke(c))
<1>1. Typed
  BY DEF KInv
<1>2. CASE doing'[Smoke(c)] = doing[Smoke(c)]
  BY <1>1, <1>2, SmokeMoves DEF Keeps, SmokeStep
<1>3. CASE Kill
  <2>1. doing[Smoke(c)].at \in {"idle", "run"}
    BY <1>1, <1>3, KillAll DEF Threads
  <2> QED
    BY <2>1 DEF SmokeReverts, At
<1>4. CASE SmokeStep(c)
  <2>1. SmokeReverts(c) => /\ doing[Smoke(c)].at = "revert" /\ doing'[Smoke(c)].at = "forget" /\ Keeps(Smoke(c))
    BY <1>1, GoesAll, ActorsApart DEF SmokeReverts, At, Keeps
  <2> QED
    BY <1>1, <1>4, <2>1, SmokeMoves
<1>5. CASE c = Subject /\ (AsksRollup \/ CarriesToRollup)
  <2>1. Idle(Smoke(c))
    BY <1>5 DEF KInv, InHand, AsksRollup, CarriesToRollup, At, Merging
  <2> QED
    BY <2>1 DEF Idle, At, SmokeReverts
<1> QED
  BY <1>1, <1>2, <1>3, <1>4, <1>5, WhoMoves DEF Moved

LEMMA OrderUndoes ==
  ASSUME Typed, [Next]_vars
  PROVE  /\ doing[Order].at = "erase" => (doing'[Order].at = "erase" /\ Keeps(Order)) \/ Forgets(Order, Struckee, "unlist")
         /\ doing[Order].at = "strike" => doing'[Order].at \in {"strike", "erase"} /\ Keeps(Order)
         /\ ExcludeReverts => doing'[Order].at = "strike" /\ Keeps(Order)
<1>1. CASE ExcludeReverts
  <2>1. ExcludeStep /\ doing[Order].at = "undo"
    BY <1>1 DEF ExcludeStep, ExcludeReverts, At
  <2> QED
    BY <2>1, <1>1, GoesAll, ActorsApart DEF ExcludeReverts, Keeps
<1>2. CASE ~ExcludeReverts /\ doing'[Order] = doing[Order]
  BY <1>2 DEF Keeps
<1>3. CASE OrderEndsPeriod \/ EndPeriod(Order) \/ \E c \in Children : ExcludeBegins(c)
  <2>1. doing[Order].at \in Closing \cup {"idle"}
    BY <1>3, EndPeriodMoves, ExcludeBeginsAll DEF OrderEndsPeriod, Idle, At, Closing
  <2> QED
    BY <1>1, <2>1 DEF Closing
<1>4. CASE ExcludeStep
  BY <1>1, <1>4, ExcludeMoves DEF Struckee
<1> QED
  BY <1>1, <1>2, <1>3, <1>4, WhoMoves DEF Moved, OrderMoves

LEMMA BaseMoves ==
  ASSUME KInv, [Next]_vars, Calm', At(Tick, "merge"), At(Tick, "merge")', base'[Subject] # base[Subject]
  PROVE  FinishRetargets /\ base'[Subject] = None /\ base[Subject] = doing[Finish].period
<1>1. Typed /\ RecordsTyped /\ Subject \in Children /\ state[Subject] = "REVIEW" /\ doing[Tick].at = "merge"
  BY TypedFacts, SubjectType DEF KInv, InHand, At, Merging
<1>2. FinishRetargets \/ (\E c \in Children : OpensPR(c)) \/ \E c \in Children : Aims(c)
  BY WhoTouches DEF Touched, BaseChanges
<1>3. ASSUME NEW c \in Children, OpensPR(c) PROVE base'[Subject] = base[Subject]
  <2>1. c # Subject /\ \E b : base' = [base EXCEPT ![c] = b]
    BY <1>1, <1>3 DEF OpensPR
  <2> QED
    BY <1>1, <2>1 DEF RecordsTyped
<1>4. ASSUME NEW c \in Children, Aims(c) PROVE FALSE
  BY <1>1, <1>4, AimsAll
<1>5. FinishRetargets
  BY <1>2, <1>3, <1>4
<1> QED
  BY <1>1, <1>5 DEF FinishRetargets, RecordsTyped

LEMMA MergeMoves ==
  ASSUME Typed, [Next]_vars, Calm', At(Tick, "merge")'
  PROVE  (At(Tick, "merge") /\ Keeps(Tick)) \/ \E c \in Children : Aims(c)
<1>1. CASE Kill
  BY <1>1, KillAll DEF Threads, At
<1>2. CASE TickEndsPeriod \/ EndPeriod(Tick)
  BY <1>2, ReadsChildrenAll, EndPeriodMoves, ActorsApart DEF TickEndsPeriod, At
<1>3. CASE Integrate
  BY <1>3, IntegrateMoves DEF At
<1> QED
  BY <1>1, <1>2, <1>3, WhoMoves DEF Moved, TickMoves, Keeps, At

LEMMA AimedNext ==
  ASSUME KInv, Books, Traced, Lasts, [Next]_vars, Calm, Calm'
  PROVE  AimedThere'
<1> SUFFICES ASSUME At(Tick, "merge")'
             PROVE  base'[Subject'] = Target' \/ (base'[Subject'] = None /\ Gone(Target)')
  BY DEF AimedThere
<1>1. Typed /\ RecordsTyped
  BY TypedFacts DEF KInv
<1>2. ASSUME NEW c \in Children, Aims(c) PROVE base'[Subject'] = Target'
  <2>1. Subject' = c /\ Target' = (IF mine # None THEN mine ELSE rollup.period)
    BY <1>1, <1>2, AimsAll DEF Subject, Target
  <2>2. base' = [base EXCEPT ![c] = Target']
    BY <1>2, <2>1 DEF Aims
  <2> QED
    BY <1>1, <2>1, <2>2 DEF RecordsTyped
<1>3. CASE At(Tick, "merge") /\ Keeps(Tick)
  <2>1. Subject' = Subject /\ Target' = Target
    BY <1>3 DEF Keeps, Subject, Target
  <2>2. PICK p \in Periods : p = Target
    BY <1>1, <1>3, SubjectType DEF At, Merging
  <2>3. base[Subject] = p \/ (base[Subject] = None /\ Gone(p))
    BY <1>3, <2>2 DEF Traced, AimedThere
  <2>4. Gone(p) => Gone(p)'
    BY <1>1, GoneStays
  <2>5. CASE base'[Subject] # base[Subject]
    <3>1. FinishRetargets /\ base'[Subject] = None /\ base[Subject] = doing[Finish].period
      BY <1>3, <2>5, BaseMoves
    <3>2. doing[Finish].at = "retarget" /\ doing[Finish].period \in Periods
      BY <1>1, <3>1, AtWork, ActorsApart DEF FinishRetargets, At
    <3>3. Gone(p)
      BY <2>3, <3>1, <3>2 DEF Gone, Taken, Periods, None
    <3> QED
      BY <2>1, <2>2, <2>4, <3>1, <3>3 DEF Gone, Taken, Past, Over, Filing
  <2> QED
    BY <2>1, <2>2, <2>3, <2>4, <2>5 DEF Gone, Taken, Past, Over, Filing
<1> QED
  BY <1>1, <1>2, <1>3, MergeMoves

LEMMA MergedNext ==
  ASSUME KInv, Placed, Books, Traced, Lasts, [Next]_vars, Calm, Calm'
  PROVE  MergedThere'
<1> SUFFICES ASSUME Held', Sound(Target)' PROVE Subject' \in on'[Target']
  BY DEF MergedThere
<1>1. Typed /\ RecordsTyped
  BY TypedFacts DEF KInv
<1>2. Subject' = Subject /\ Target' = Target /\ (Held \/ (MergesChild /\ doing[Tick].at = "merge"))
  BY <1>1, TickHolds DEF Keeps, Subject, Target
<1>3. PICK p \in Periods, c \in Children : p = Target /\ c = Subject /\ Idle(Smoke(c))
  BY <1>1, <1>2, SubjectType DEF KInv, InHand, Held, Merging
<1>4. Sound(p)' /\ Sound(p)
  <2>1. Sound(p)'
    BY <1>2, <1>3 DEF Sound, Gone, Taken, Past, Over, Filing
  <2> QED
    BY <1>1, <2>1, SoundBefore
<1>5. CASE Held
  <2>1. c \in on[p]
    BY <1>3, <1>4, <1>5 DEF Traced, MergedThere, Sound, Gone, Taken, Past, Over, Filing
  <2>2. ~(SmokeReverts(c))
    BY <1>3 DEF SmokeReverts, Idle, At
  <2>3. ~(ExcludeReverts /\ c = Struckee /\ p = doing[Order].period)
    <3> SUFFICES ASSUME ExcludeReverts, p = doing[Order].period PROVE FALSE
      OBVIOUS
    <3>1. Befalls(TooLate(p) \cup Behind(p))
      BY DEF ExcludeReverts, Reverts
    <3>2. Behind(p) = {"overlap"}
      BY <1>3, <1>5, ActorsApart DEF Behind, Halfway, Held, Target
    <3> QED
      BY <3>1, <3>2, NothingMissed
  <2> QED
    BY <1>1, <1>2, <1>3, <2>1, <2>2, <2>3, OnMoves
<1>6. CASE MergesChild /\ doing[Tick].at = "merge"
  <2>1. base[c] = p \/ (base[c] = None /\ Gone(p))
    BY <1>3, <1>6 DEF Traced, AimedThere, At, Gone, Taken, Past, Over, Filing
  <2>2. base[c] # None
    <3> SUFFICES ASSUME base[c] = None PROVE FALSE
      OBVIOUS
    <3>1. ~Barring({"late"})'
      BY <1>3, <1>6 DEF MergesChild, Befalls, Barring
    <3>2. Gone(p)'
      BY <1>1, <2>1, GoneStays DEF Periods, None
    <3> QED
      BY <1>4, <3>1, <3>2 DEF Sound
  <2> QED
    BY <1>1, <1>2, <1>3, <1>6, <2>1, <2>2 DEF MergesChild, RecordsTyped
<1> QED
  BY <1>2, <1>5, <1>6

LEMMA EntriesNext ==
  ASSUME KInv, Placed, Books, Traced, Lasts, [Next]_vars, Calm, Calm'
  PROVE  EntriesThere'
<1>1. Typed /\ RecordsTyped
  BY TypedFacts DEF KInv
<1> SUFFICES ASSUME NEW e \in integrations', Sound(e.branch)'
             PROVE  e.issue \in on'[e.branch] \/ Undoing(e.issue, e.branch)'
  BY DEF EntriesThere
<1>2. CASE e \in integrations
  <2>1. PICK c \in Children, p \in Periods : c = e.issue /\ p = e.branch
    BY <1>1, <1>2 DEF RecordsTyped, Entries
  <2>2. c \in on[p] \/ Undoing(c, p)
    <3>1. Sound(p)
      BY <1>1, <2>1, SoundBefore
    <3> QED
      BY <1>2, <2>1, <3>1 DEF Traced, EntriesThere
  <2>3. CASE c \in on[p]
    <3>1. c \notin on'[p] => Undoing(c, p)'
      <4>1. CASE SmokeReverts(c) /\ p = doing[Smoke(c)].period
        BY <4>1, SmokeUndoes DEF Undoing, Keeps
      <4>2. CASE ExcludeReverts /\ c = Struckee /\ p = doing[Order].period
        BY <1>1, <4>2, OrderUndoes DEF Undoing, Keeps, Struckee
      <4> QED
        BY <1>1, <2>3, <4>1, <4>2, OnMoves
    <3> QED
      BY <2>1, <3>1
  <2>4. CASE doing[Smoke(c)].at \in {"forget", "erase"} /\ doing[Smoke(c)].period = p
    <3>1. ~Forgets(Smoke(c), c, "back")
      <4> SUFFICES ASSUME Forgets(Smoke(c), c, "back") PROVE FALSE
        OBVIOUS
      <4>1. integrations' = Without(doing[Smoke(c)].list, c)
        BY DEF Forgets
      <4> QED
        BY <2>1, <4>1 DEF Without
    <3>2. Undoing(c, p)'
      BY <2>4, <3>1, SmokeUndoes DEF Undoing, Keeps
    <3> QED
      BY <2>1, <3>2
  <2>5. CASE doing[Order].at \in {"strike", "erase"} /\ Struckee = c /\ doing[Order].period = p
    <3>1. ~Forgets(Order, Struckee, "unlist")
      <4> SUFFICES ASSUME Forgets(Order, Struckee, "unlist") PROVE FALSE
        OBVIOUS
      <4>1. integrations' = Without(doing[Order].list, Struckee)
        BY DEF Forgets
      <4> QED
        BY <2>1, <2>5, <4>1 DEF Without
    <3>2. Undoing(c, p)'
      BY <1>1, <2>5, <3>1, OrderUndoes DEF Undoing, Keeps, Struckee
    <3> QED
      BY <2>1, <3>2
  <2> QED
    BY <2>2, <2>3, <2>4, <2>5 DEF Undoing
<1>3. CASE e \notin integrations
  <2>1. AddsIntegration /\ doing[Tick].at = "add" /\ e = [issue |-> Subject, branch |-> Target]
    BY <1>1, <1>3, EntriesMove DEF Without
  <2>2. PICK c \in Children, p \in Periods : c = Subject /\ p = Target
    BY <1>1, <2>1, SubjectType DEF Merging
  <2>3. c = e.issue /\ p = e.branch
    BY <2>1, <2>2
  <2>4. Sound(p)
    BY <1>1, <2>3, SoundBefore
  <2>5. c \in on[p]
    BY <2>1, <2>2, <2>4 DEF Traced, MergedThere, Held, Sound, Gone, Taken, Past, Over, Filing
  <2>6. on' = on
    BY <2>1 DEF AddsIntegration, github
  <2> QED
    BY <2>3, <2>5, <2>6
<1> QED
  BY <1>2, <1>3

LEMMA TracedInit == Init => Traced
<1> SUFFICES ASSUME Init PROVE Traced
  OBVIOUS
<1>1. doing[Tick].at = "idle"
  BY RestingType, ActorsApart DEF Init
<1> QED
  BY <1>1 DEF Init, Traced, AimedThere, MergedThere, EntriesThere, Held, At

LEMMA TracedNext ==
  ASSUME KInv, Placed, Books, Traced, Lasts, [Next]_vars
  PROVE  Traced'
<1> SUFFICES ASSUME Calm' PROVE (AimedThere /\ MergedThere /\ EntriesThere)'
  BY DEF Traced
<1>1. Calm
  BY CalmBefore DEF Calm
<1> QED
  BY <1>1, AimedNext, MergedNext, EntriesNext

-----------------------------------------------------------------------------
(* What a merged rollup carried is on main; what the pending one lists is   *)
(* on its branch, or was just taken off.                                    *)
MergedIsOnMain ==
  Barring({"late"}) => \A p \in Periods : roll[p] \in {"MERGED", "DONE"} => on[p] \subseteq main

LEMMA MainGrows == ASSUME [Next]_vars PROVE main \subseteq main'
BY WhoTouches DEF Touched, MainOrMine, MergesChild, OwnerMerges

LEMMA MergedIsOnMainNext ==
  ASSUME Typed, MergedIsOnMain, Lasts, [Next]_vars
  PROVE  MergedIsOnMain'
<1> SUFFICES ASSUME Barring({"late"})', NEW p \in Periods, roll'[p] \in {"MERGED", "DONE"}, NEW c \in on'[p]
             PROVE  c \in main'
  BY DEF MergedIsOnMain
<1>1. RecordsTyped /\ Barring({"late"}) /\ main \subseteq main'
  BY TypedFacts, CalmBefore, MainGrows
<1>2. CASE roll[p] \in {"MERGED", "DONE"}
  <2>1. c \in on[p]
    <3> SUFFICES ASSUME c \notin on[p] PROVE FALSE
      OBVIOUS
    <3>1. MergesChild /\ p = base[Subject]
      BY OnMoves
    <3>2. Befalls(TooLate(base[Subject])) \/ base[Subject] = None
      BY <3>1 DEF MergesChild
    <3>3. TooLate(base[Subject]) = {"late"}
      BY <1>2, <3>1 DEF TooLate
    <3> QED
      BY <3>1, <3>2, <3>3 DEF Befalls, Barring, Periods, None
  <2> QED
    BY <1>1, <1>2, <2>1 DEF MergedIsOnMain
<1>3. CASE roll[p] \notin {"MERGED", "DONE"}
  <2>1. RollChanges
    BY <1>3, WhoTouches DEF Touched
  <2>2. ASSUME NEW a \in {Tick, Order}, OpensRollup(a) PROVE FALSE
    BY <1>1, <1>3, <2>2 DEF OpensRollup, RecordsTyped
  <2>3. ASSUME NEW q \in Periods, RollupReadies(q) \/ RollupInvalidated(q) \/ RollupClosed(q) \/ MainSmokeEnds(q) PROVE FALSE
    BY <1>1, <1>3, <2>3 DEF RollupReadies, RollupInvalidated, RollupClosed, MainSmokeEnds, RecordsTyped
  <2>4. PICK q \in Periods : OwnerMerges(q)
    BY <2>1, <2>2, <2>3 DEF RollChanges
  <2>5. q = p
    BY <1>1, <1>3, <2>4 DEF OwnerMerges, RecordsTyped
  <2> QED
    BY <2>4, <2>5 DEF OwnerMerges
<1> QED
  BY <1>2, <1>3

TakenOff(c, p) ==
  \/ Sent(c) /\ doing[Smoke(c)].period = p
  \/ doing[Order].at \in {"strike", "erase", "unlist"} /\ Struckee = c /\ doing[Order].period = p

ListedThere ==
  Calm /\ Barring({"kept"}) /\ rollup.period # None /\ ~Gone(rollup.period) =>
    \A c \in rollup.children : c \in on[rollup.period] \/ TakenOff(c, rollup.period)

(* Nobody is halfway through a change of the branch.                        *)
LEMMA NotBehind ==
  ASSUME NEW p, Behind(p) = {}
  PROVE  /\ \A a \in Actors : Halfway(a) => doing[a].period # p
         /\ \A c \in Children : ~TakenOff(c, p) /\ ~Undoing(c, p)
         /\ ~(Held /\ Target = p)
<1>1. \A a \in Actors : Halfway(a) => doing[a].period # p
  BY DEF Behind
<1>2. \A c \in Children : ~TakenOff(c, p) /\ ~Undoing(c, p)
  BY <1>1, ActorsApart DEF Halfway, TakenOff, Undoing, Sent
<1>3. ~(Held /\ Target = p)
  BY <1>1, ActorsApart DEF Halfway, Held, Target
<1> QED
  BY <1>1, <1>2, <1>3

(* What a rollup is written to list is on the branch.                       *)
LEMMA ListsThere ==
  ASSUME Typed, Traced, Calm, NEW p \in Periods, ~Gone(p), Behind(p) = {}
  PROVE  IssuesOf(OfBranch(p)) \subseteq on[p]
<1> SUFFICES ASSUME NEW c \in IssuesOf(OfBranch(p)) PROVE c \in on[p]
  OBVIOUS
<1>1. PICK e \in integrations : e.branch = p /\ e.issue = c
  BY DEF IssuesOf, OfBranch
<1>2. e.issue \in Children
  BY TypedFacts DEF RecordsTyped, Entries
<1>3. c \in on[p] \/ Undoing(c, p)
  BY <1>1 DEF Traced, EntriesThere, Sound
<1> QED
  BY <1>1, <1>2, <1>3, NotBehind

LEMMA SentGoesOn ==
  ASSUME KInv, [Next]_vars, Calm', NEW c \in Children, Sent(c)
  PROVE  (Sent(c)' /\ Keeps(Smoke(c))) \/ (SmokeSendsBack(c) /\ doing[Smoke(c)].at = "back")
<1>1. Typed
  BY DEF KInv
<1>2. ~(c = Subject /\ doing[Tick].at \in Merging)
  BY DEF KInv, InHand, Sent, Idle, At
<1>3. SmokeSendsBack(c) => doing[Smoke(c)].at = "back"
  BY DEF SmokeSendsBack, Sent
<1> QED
  BY <1>1, <1>2, <1>3, SentHolds

LEMMA StruckGoesOn ==
  ASSUME Typed, [Next]_vars, doing[Order].at \in {"strike", "erase", "unlist"}
  PROVE  (doing'[Order].at \in {"strike", "erase", "unlist"} /\ Keeps(Order)) \/ ExcludeUnlists
<1>1. CASE doing'[Order] = doing[Order]
  BY <1>1 DEF Keeps
<1>2. CASE OrderEndsPeriod \/ EndPeriod(Order) \/ \E c \in Children : ExcludeBegins(c)
  BY <1>2, EndPeriodMoves, ExcludeBeginsAll DEF OrderEndsPeriod, Idle, At
<1>3. CASE ExcludeStep
  BY <1>3, ExcludeMoves
<1> QED
  BY <1>1, <1>2, <1>3, WhoMoves DEF Moved, OrderMoves

LEMMA ListedNext ==
  ASSUME KInv, Placed, Books, Traced, ListedThere, Lasts, [Next]_vars
  PROVE  ListedThere'
<1> SUFFICES ASSUME Calm', Barring({"kept"})', NEW p \in Periods, p = rollup'.period, ~Gone(p)', NEW c \in rollup'.children
             PROVE  c \in on'[p] \/ TakenOff(c, p)'
  <2> SUFFICES ASSUME Calm', Barring({"kept"})', rollup'.period # None, ~Gone(rollup.period)', NEW c \in rollup'.children
               PROVE  c \in on'[rollup'.period] \/ TakenOff(c, rollup.period)'
    BY DEF ListedThere
  <2>1. ASSUME Typed' PROVE rollup'.period \in Periods
    BY <2>1, TypedFacts DEF Typed, TypeOK, Rollups
  <2>2. PICK p \in Periods : p = rollup'.period
    BY <2>1, TypedNext DEF KInv
  <2> QED
    BY <2>2 DEF Gone, Taken, Past, Over, Filing, TakenOff, Sent, Struckee
<1>1. Typed /\ RecordsTyped /\ Calm /\ Barring({"kept"}) /\ rollup.children \subseteq Children
  BY TypedFacts, CalmBefore DEF KInv, Calm, RecordsTyped, Rollups
<1>2. ~Gone(p)
  BY <1>1, GoneStays
(* One that was listed already. *)
<1>3. ASSUME p = rollup.period, c \in rollup.children
      PROVE  c \in on'[p] \/ TakenOff(c, p)'
  <2> ~ExcludeUnlists \/ c # Struckee
    BY <1>1, TypedFacts, ActorsApart DEF ExcludeUnlists, Struckee, Rollups
  <2>1. c \in Children /\ (c \in on[p] \/ TakenOff(c, p))
    BY <1>1, <1>2, <1>3 DEF ListedThere, Periods, None
  <2>2. CASE c \in on[p]
    <3>1. CASE SmokeReverts(c) /\ p = doing[Smoke(c)].period
      BY <2>1, <3>1, SmokeUndoes, <1>1 DEF TakenOff, Sent, Keeps
    <3>2. CASE ExcludeReverts /\ c = Struckee /\ p = doing[Order].period
      BY <1>1, <3>2, OrderUndoes DEF TakenOff, Keeps, Struckee
    <3> QED
      BY <1>1, <2>2, <3>1, <3>2, OnMoves
  <2>3. CASE Sent(c) /\ doing[Smoke(c)].period = p
    <3>1. ~(SmokeSendsBack(c) /\ doing[Smoke(c)].at = "back")
      <4> SUFFICES ASSUME SmokeSendsBack(c) PROVE FALSE
        OBVIOUS
      <4>1. Befalls({"kept"})
        BY <1>3 DEF SmokeSendsBack
      <4> QED
        BY <4>1 DEF Befalls, Barring
    <3> QED
      BY <1>1, <2>1, <2>3, <3>1, SentGoesOn DEF TakenOff, Keeps, Sent
  <2>4. CASE doing[Order].at \in {"strike", "erase", "unlist"} /\ Struckee = c /\ doing[Order].period = p
    BY <1>1, <1>3, <2>4, StruckGoesOn DEF TakenOff, Keeps, Struckee
  <2> QED
    BY <2>1, <2>2, <2>3, <2>4 DEF TakenOff
<1>4. CASE rollup' = rollup
  BY <1>3, <1>4
<1>5. CASE Carried
  <2>1. CASE c \in rollup.children
    BY <1>3, <1>5, <2>1 DEF Carried
  <2>2. CASE c = Subject
    <3>1. p = Target
      BY <1>1, <1>5 DEF Books, ReadsOwn, Carried
    <3>2. Subject \in on[Target]
      BY <1>1, <1>2, <1>5, <3>1 DEF Traced, MergedThere, Held, Sound, Carried, Gone, Taken, Past, Over, Filing
    <3>3. on' = on
      BY <1>5 DEF Carried, CarriesToRollup, github
    <3> QED
      BY <2>2, <3>1, <3>2, <3>3
  <2> QED
    BY <1>5, <2>1, <2>2 DEF Carried
<1>6. CASE Unlisted
  BY <1>3, <1>6 DEF Unlisted
<1>7. CASE Cleared
  BY <1>7 DEF Cleared
<1>8. ASSUME NEW a \in {Tick, Order}, Refreshed(a) \/ Filed(a)
      PROVE  c \in on'[p] \/ TakenOff(c, p)'
  <2>1. p = doing[a].period
    BY <1>1, <1>8 DEF Books, ReadsOwn, Refreshed, Filed
  <2>2. c \in IssuesOf(OfBranch(p)) /\ Behind(p) = {} /\ on' = on
    BY <1>8, <2>1 DEF Refreshed, Filed, RefreshesRollup, FilesRollup, github
  <2> QED
    BY <1>1, <1>2, <2>2, ListsThere
<1> QED
  BY <1>1, <1>4, <1>5, <1>6, <1>7, <1>8, RollupMoves

(* A child that is DONE stays so, and becomes so with the rollup that       *)
(* lists it.                                                                *)
LEMMA DoneMoves ==
  ASSUME Typed, [Next]_vars, NEW c \in Children, state'[c] = "DONE", state[c] # "DONE"
  PROVE  /\ FinishGathers /\ state[c] = "INTEGRATED"
         /\ rollup.children # {} => c \in rollup.children
<1>1. RecordsTyped /\ StateChanges
  BY WhoTouches, TypedFacts DEF Touched
<1>2. ~(MergeRefused \/ AnswerLost \/ RecordsIntegrated \/ ExcludeBlocks)
  BY <1>1 DEF MergeRefused, AnswerLost, RecordsIntegrated, ExcludeBlocks, MoveOrRaise, RecordsTyped
<1>3. ~\E d \in Children : OpensPR(d) \/ Reconciles(d) \/ Readies(d) \/ SmokeSendsBack(d)
  BY <1>1 DEF OpensPR, Reconciles, Readies, SmokeSendsBack, MoveOrRaise, RecordsTyped
<1> QED
  BY <1>1, <1>2, <1>3 DEF StateChanges, FinishGathers, RecordsTyped

LEMMA GathersThere ==
  ASSUME Typed, FinishGathers, Calm', Barring({"displaced"})', Books, Calm
  PROVE  /\ Behind(doing[Finish].period) = {} /\ doing[Finish].at = "gather" /\ doing[Finish].period \in Periods
         /\ rollup.period = doing[Finish].period /\ rollup.children # {}
         /\ roll[doing[Finish].period] = "DONE" /\ ~Gone(rollup.period)
<1>1. doing[Finish].at = "gather" /\ Befalls(Behind(doing[Finish].period) \cup Displaced(doing[Finish].period))
  BY DEF FinishGathers, At
<1>2. doing[Finish].period \in Periods
  BY <1>1, AtWork, ActorsApart
<1>3. Behind(doing[Finish].period) = {} /\ Displaced(doing[Finish].period) = {}
  BY <1>1 DEF Befalls, Calm, Barring, Behind, Displaced
<1>4. rollup.period = doing[Finish].period /\ rollup.children # {}
  BY <1>3 DEF Displaced
<1> QED
  BY <1>1, <1>2, <1>3, <1>4 DEF Books, Finishes, Gone, Taken, Past, Over

(* A child that is DONE is on main: what the record of the finished rollup  *)
(* lists is what its branch carried, and the owner had merged that.         *)
DInv ==
  /\ KInv /\ Placed /\ Books /\ Traced /\ MergedIsOnMain /\ ListedThere /\ DoneIsOnMain

LEMMA DInvInit == Init => DInv
<1> SUFFICES ASSUME Init PROVE DInv
  OBVIOUS
<1>1. \A a \in Actors : doing[a].at = "idle"
  BY RestingType DEF Init
<1>2. Placed
  BY <1>1, ActorsApart DEF Init, Placed, LooseNowhere, OneBranch, HeldThere, SentNowhere, StruckNowhere, Nowhere, Held, Sent, Struck
<1>3. MergedIsOnMain /\ ListedThere /\ DoneIsOnMain
  BY DEF Init, MergedIsOnMain, ListedThere, DoneIsOnMain, NoRollup
<1> QED
  BY <1>2, <1>3, KInvInit, BooksInit, TracedInit DEF DInv

LEMMA DInvNext == DInv /\ [Next]_vars => DInv'
<1> SUFFICES ASSUME DInv, [Next]_vars PROVE DInv'
  OBVIOUS
<1>1. KInv /\ Placed /\ Books /\ Traced /\ MergedIsOnMain /\ ListedThere /\ Typed
  BY DEF DInv, KInv
<1>2. KInv' /\ Typed' /\ Lasts
  BY <1>1, KInvNext, TypedNext, LastsNext
<1>3. Placed' /\ Books' /\ Traced' /\ MergedIsOnMain' /\ ListedThere'
  BY <1>1, <1>2, PlacedNext, BooksNext, TracedNext, MergedIsOnMainNext, ListedNext
<1>4. DoneIsOnMain'
  <2> SUFFICES ASSUME Barring({"late", "displaced", "kept", "overlap", "cut"})', NEW c \in Children, state'[c] = "DONE"
               PROVE  c \in main'
    BY DEF DoneIsOnMain
  <2>1. /\ Barring({"late", "displaced", "kept", "overlap", "cut"})
        /\ Calm /\ Calm' /\ Barring({"kept"}) /\ Barring({"late"}) /\ Barring({"displaced"})'
    BY <1>2, CalmBefore DEF Calm, Barring
  <2>2. CASE state[c] = "DONE"
    BY <2>1, <2>2, MainGrows DEF DInv, DoneIsOnMain
  <2>3. CASE state[c] # "DONE"
    <3>1. FinishGathers /\ (rollup.children # {} => c \in rollup.children)
      BY <1>1, <2>3, DoneMoves
    <3>2. PICK p \in Periods : p = doing[Finish].period
      BY <1>1, <2>1, <3>1, GathersThere
    <3>3. Behind(p) = {} /\ rollup.period = p /\ c \in rollup.children /\ roll[p] = "DONE" /\ ~Gone(rollup.period)
      BY <1>1, <2>1, <3>1, <3>2, GathersThere
    <3>4. c \in on[p]
      <4>1. c \in on[p] \/ TakenOff(c, p)
        BY <1>1, <2>1, <3>3 DEF ListedThere, Periods, None, TakenOff, Sent, Struckee
      <4> QED
        BY <3>3, <4>1, NotBehind
    <3>5. c \in main
      BY <1>1, <2>1, <3>3, <3>4 DEF MergedIsOnMain
    <3> QED
      BY <3>5, MainGrows
  <2> QED
    BY <2>2, <2>3
<1> QED
  BY <1>2, <1>3, <1>4 DEF DInv

(* No sequence of integrations, reverts, rollups, exclusions, ends of       *)
(* period and kills declares work finished that never arrived on main,      *)
(* unless one of the mishaps met it.                                        *)
THEOREM WhatIsDoneIsOnMain == Spec => []DoneIsOnMain
<1>1. DInv => DoneIsOnMain
  BY DEF DInv
<1> QED
  BY DInvInit, DInvNext, <1>1, PTL DEF Spec

-----------------------------------------------------------------------------
(* What a branch carries is on record, and listed by its pending rollup.    *)
Adding(p) == IF doing[Tick].at \in {"record", "read", "add"} /\ Target = p THEN {Subject} ELSE {}

OnRecord == Calm => \A p \in Periods : ~Gone(p) => on[p] \subseteq IssuesOf(OfBranch(p)) \cup Adding(p)

OnList ==
  Calm /\ rollup.period # None /\ ~Gone(rollup.period) =>
    on[rollup.period] \subseteq rollup.children \cup (IF Held /\ Target = rollup.period THEN {Subject} ELSE {})

(* The merge at hand goes on record before the tick turns to anything else. *)
LEMMA HandMoves ==
  ASSUME KInv, [Next]_vars, Calm'
  PROVE  /\ doing[Tick].at \in {"record", "read"} => doing'[Tick].at \in {"record", "read", "add"} /\ Keeps(Tick)
         /\ doing[Tick].at = "add" => (doing'[Tick].at = "add" /\ Keeps(Tick)) \/ (AddsIntegration /\ doing'[Tick].at = "ask" /\ Keeps(Tick))
         /\ doing[Tick].at \in {"ask", "carry"} =>
              \/ doing'[Tick].at \in {"ask", "carry"} /\ Keeps(Tick)
              \/ doing[Tick].at = "ask" /\ (rollup.period # Target \/ Subject \in rollup.children)
              \/ CarriesToRollup
<1>1. Typed /\ RecordsTyped
  BY TypedFacts DEF KInv
<1>2. CASE Kill
  BY <1>1, <1>2, KillAll DEF Threads
<1>3. CASE TickEndsPeriod \/ EndPeriod(Tick)
  <2>1. doing[Tick].at \in Closing \cup {"idle"}
    BY <1>1, <1>3, EndPeriodMoves DEF TickEndsPeriod, Idle, At, Closing
  <2> QED
    BY <2>1 DEF Closing
<1>4. CASE RecordsIntegrated
  <2>1. doing[Tick].at = "record" /\ state[Subject] = "REVIEW"
    BY <1>4 DEF RecordsIntegrated, KInv, InHand, At
  <2>2. MayBecome(Subject, "INTEGRATED")
    BY <2>1 DEF MayBecome
  <2> QED
    BY <1>1, <1>4, <2>1, <2>2, GoesAll, ActorsApart DEF RecordsIntegrated, Keeps
<1>5. CASE AsksRollup
  <2>1. doing[Tick].at = "ask"
    BY <1>5 DEF AsksRollup, At
  <2> QED
    BY <1>1, <1>5, <2>1, AsksAll DEF Keeps
<1>6. CASE Integrate /\ ~RecordsIntegrated /\ ~AsksRollup
  <2>1. "cut" \notin mishaps'
    BY DEF Calm, Barring
  <2> QED
    BY <1>1, <1>6, <2>1, IntegrateMoves
<1>7. CASE doing'[Tick] = doing[Tick]
  BY <1>7 DEF Keeps
<1> QED
  BY <1>1, <1>2, <1>3, <1>4, <1>5, <1>6, <1>7, WhoMoves DEF Moved, TickMoves

LEMMA OnRecordNext ==
  ASSUME KInv, Placed, Books, OnRecord, Lasts, [Next]_vars
  PROVE  OnRecord'
<1> SUFFICES ASSUME Calm', NEW p \in Periods, ~Gone(p)', NEW c \in on'[p], c \notin Adding(p)'
             PROVE  c \in IssuesOf(OfBranch(p))'
  BY DEF OnRecord
<1>1. Typed /\ RecordsTyped /\ Calm
  BY TypedFacts, CalmBefore DEF KInv, Calm
<1>2. ~Gone(p)
  BY <1>1, GoneStays
<1>3. c \in on[p]
  <2> SUFFICES ASSUME c \notin on[p] PROVE FALSE
    OBVIOUS
  <2>1. MergesChild /\ c = Subject /\ p = base[Subject]
    BY <1>1, OnMoves
  <2>2. p = Target
    BY <1>1, <2>1, MergesNew
  <2>3. doing'[Tick].at = "record" /\ Subject' = Subject /\ Target' = Target
    BY <1>1, <2>1, GoesAll, ActorsApart DEF MergesChild, Subject, Target
  <2> QED
    BY <2>1, <2>2, <2>3 DEF Adding
<1>4. c \in IssuesOf(OfBranch(p)) \cup Adding(p) /\ c \in Children
  BY <1>1, <1>2, <1>3 DEF OnRecord, RecordsTyped
<1>5. CASE c \in Adding(p)
  <2>1. doing[Tick].at \in {"record", "read", "add"} /\ Target = p /\ Subject = c
    BY <1>5 DEF Adding
  <2>2. AddsIntegration /\ doing[Tick].at = "add"
    BY <2>1, HandMoves DEF Adding, Keeps, Subject, Target, AddsIntegration, At
  <2>3. [issue |-> c, branch |-> p] \in integrations'
    BY <2>1, <2>2 DEF AddsIntegration
  <2> QED
    BY <2>3 DEF IssuesOf, OfBranch
<1>6. CASE c \in IssuesOf(OfBranch(p)) /\ c \notin Adding(p)
  <2>1. PICK e \in integrations : e.branch = p /\ e.issue = c
    BY <1>6 DEF IssuesOf, OfBranch
  <2>2. e \in integrations'
    <3> SUFFICES ASSUME e \notin integrations' PROVE FALSE
      OBVIOUS
    <3>1. CASE doing[Tick].at = "add" /\ e \notin Without(integrations, Subject)
      <4>1. c = Subject /\ Held
        BY <2>1, <3>1 DEF Without, Held
      <4>2. p = Target
        BY <1>1, <1>3, <4>1 DEF Placed, HeldThere
      <4> QED
        BY <1>6, <3>1, <4>1, <4>2 DEF Adding
    <3>2. CASE doing[Finish].at = "prune" /\ e.branch = doing[Finish].period
      BY <1>1, <1>2, <2>1, <3>2 DEF Books, Finishes, Gone, Taken, Past, Over, Filing
    <3>3. CASE doing[Order].at = "erase" /\ e \notin Without(integrations, Struckee)
      <4>1. c = Struckee /\ Struck
        BY <2>1, <3>3 DEF Without, Struck
      <4> QED
        BY <1>1, <1>3, <4>1 DEF Placed, StruckNowhere, Nowhere
    <3>4. ASSUME NEW d \in Children, doing[Smoke(d)].at = "erase", e \notin Without(integrations, d) PROVE FALSE
      <4>1. c = d /\ Sent(c)
        BY <2>1, <3>4 DEF Without, Sent
      <4> QED
        BY <1>1, <1>3, <1>4, <4>1 DEF Placed, SentNowhere, Nowhere
    <3> QED
      BY <1>1, <2>1, <3>1, <3>2, <3>3, <3>4, EntriesMove
  <2> QED
    BY <2>1, <2>2 DEF IssuesOf, OfBranch
<1> QED
  BY <1>4, <1>5, <1>6

LEMMA OnListNext ==
  ASSUME KInv, Placed, Books, OnRecord, OnList, Lasts, [Next]_vars
  PROVE  OnList'
<1> SUFFICES ASSUME Calm', NEW p \in Periods, p = rollup'.period, ~Gone(p)', NEW c \in on'[p], ~(Held' /\ Target' = p /\ Subject' = c)
             PROVE  c \in rollup'.children
  <2> SUFFICES ASSUME Calm', rollup'.period # None, ~Gone(rollup.period)', NEW c \in on'[rollup'.period],
                      ~(Held' /\ Target' = rollup'.period /\ Subject' = c)
               PROVE  c \in rollup'.children
    BY DEF OnList
  <2>1. Typed' => rollup'.period \in Periods
    BY TypedFacts DEF Typed, TypeOK, Rollups
  <2>2. PICK p \in Periods : p = rollup'.period
    BY <2>1, TypedNext DEF KInv
  <2> QED
    BY <2>2 DEF Gone, Taken, Past, Over, Filing
<1>1. Typed /\ RecordsTyped /\ Calm
  BY TypedFacts, CalmBefore DEF KInv, Calm
<1>2. ~Gone(p)
  BY <1>1, GoneStays
<1>3. c \in on[p] /\ c \in Children
  <2>1. c \in on[p]
    <3> SUFFICES ASSUME c \notin on[p] PROVE FALSE
      OBVIOUS
    <3>1. MergesChild /\ c = Subject /\ p = base[Subject]
      BY <1>1, OnMoves
    <3>2. p = Target
      BY <1>1, <3>1, MergesNew
    <3>3. doing'[Tick].at = "record" /\ Subject' = Subject /\ Target' = Target
      BY <1>1, <3>1, GoesAll, ActorsApart DEF MergesChild, Subject, Target
    <3> QED
      BY <3>1, <3>2, <3>3 DEF Held
  <2> QED
    BY <1>1, <2>1 DEF RecordsTyped
<1>4. ASSUME p = rollup.period
      PROVE  \/ c \in rollup.children
             \/ Held /\ Target = p /\ Subject = c /\ CarriesToRollup
  <2>1. c \in rollup.children \/ (Held /\ Target = p /\ Subject = c)
    BY <1>1, <1>2, <1>3, <1>4 DEF OnList, Periods, None
  <2>2. ASSUME Held, Target = p, Subject = c PROVE c \in rollup.children \/ CarriesToRollup
    <3>1. doing[Tick].at = "add" => (AddsIntegration /\ doing'[Tick].at = "ask" /\ Keeps(Tick)) \/ (doing'[Tick].at = "add" /\ Keeps(Tick))
      BY HandMoves
    <3>2. Keeps(Tick) => Target' = p /\ Subject' = c
      BY <2>2 DEF Keeps, Target, Subject
    <3> QED
      BY <1>4, <2>2, <3>1, <3>2, HandMoves DEF Held
  <2> QED
    BY <2>1, <2>2
<1>5. CASE rollup' = rollup
  <2>1. CASE c \in rollup.children
    BY <1>5, <2>1
  <2>2. CASE Held /\ Target = p /\ Subject = c /\ CarriesToRollup
    BY <1>1, <1>5, <2>2, TypedFacts, ActorsApart DEF CarriesToRollup, Rollups
  <2> QED
    BY <1>4, <1>5, <2>1, <2>2
<1>6. CASE Carried
  BY <1>4, <1>6 DEF Carried
<1>7. CASE Unlisted
  <2>1. Struck
    BY <1>7 DEF Unlisted, Struck
  <2>2. c # Struckee
    BY <1>1, <1>3, <2>1 DEF Placed, StruckNowhere, Nowhere
  <2>3. ~CarriesToRollup \/ Subject \in rollup'.children
    BY <1>1, TypedFacts, ActorsApart DEF CarriesToRollup, Rollups, RecordsTyped
  <2> QED
    BY <1>4, <1>7, <2>2, <2>3 DEF Unlisted
<1>8. CASE Cleared
  BY <1>8 DEF Cleared, Periods, None
<1>9. ASSUME NEW a \in {Tick, Order}, Refreshed(a) \/ Filed(a)
      PROVE  c \in rollup'.children
  <2>1. p = doing[a].period
    BY <1>1, <1>9 DEF Books, ReadsOwn, Refreshed, Filed
  <2>2. rollup'.children = IssuesOf(OfBranch(p)) /\ Behind(p) = {}
    BY <1>9, <2>1 DEF Refreshed, Filed
  <2>3. Adding(p) = {}
    BY <2>2, NotBehind DEF Adding, Held
  <2> QED
    BY <1>1, <1>2, <1>3, <2>2, <2>3 DEF OnRecord
<1> QED
  BY <1>1, <1>5, <1>6, <1>7, <1>8, <1>9, RollupMoves

-----------------------------------------------------------------------------
(* The calendar.  The process minds the period that is on, or is ending it; *)
(* a branch whose rollup does not exist yet is that of the period that is   *)
(* on, or someone is about to end its period: no work is left behind.       *)
BasesExist == \A c \in Children : pr[c] = "open" /\ base[c] # None => base[c] \in branches

Minds ==
  Calm /\ period # None =>
    \/ mine = period
    \/ mine = None /\ doing[Tick].at = "close" /\ doing[Tick].period = period

Active(p) == OfBranch(p) # {} \/ (doing[Tick].at \in {"record", "read", "add"} /\ Target = p)

Ending(p) == \E a \in {Tick, Order} : doing[a].period = p /\ doing[a].at \in {"mark", "look", "drop", "open"}

WorkHasBranch == \A p \in Periods : roll[p] = "none" /\ Active(p) => p \in branches
WorkHasEnd    == \A p \in Periods : roll[p] = "none" /\ p \in branches => period = p \/ Ending(p)

Minded == Calm => WorkHasBranch /\ WorkHasEnd

LEMMA BasesNext ==
  ASSUME Typed, BasesExist, [Next]_vars
  PROVE  BasesExist'
<1> SUFFICES ASSUME NEW c \in Children, pr'[c] = "open", base'[c] # None PROVE base'[c] \in branches'
  BY DEF BasesExist
<1>1. RecordsTyped
  BY TypedFacts
<1>2. pr' = pr \/ PrChanges
  BY WhoTouches DEF Touched
<1>3. base' = base \/ BaseChanges
  BY WhoTouches DEF Touched
<1>4. branches' = branches \/ BranchesChange
  BY WhoTouches DEF Touched
<1>5. ASSUME NEW b, NEW mishap, Delete(b, mishap), base' = base
      PROVE  base'[c] \in branches'
  BY <1>1, <1>5 DEF Delete, BasesExist, RecordsTyped
<1>6. CASE FinishDeletes \/ \E a \in {Tick, Order} : DropsBranch(a)
  BY <1>5, <1>6 DEF FinishDeletes, DropsBranch
<1>7. CASE ~(FinishDeletes \/ \E a \in {Tick, Order} : DropsBranch(a))
  <2>1. branches \subseteq branches'
    BY <1>4, <1>7 DEF BranchesChange, StartsPeriod, ExcludeReverts, SmokeReverts, Reverts
  <2>2. CASE \E d \in Children : OpensPR(d)
    <3>1. PICK d \in Children : OpensPR(d)
      BY <2>2
    <3>2. PICK b \in branches \cup {None} : base' = [base EXCEPT ![d] = b] /\ pr' = [pr EXCEPT ![d] = "open"] /\ branches' = branches
      BY <3>1 DEF OpensPR
    <3> QED
      BY <1>1, <3>2 DEF BasesExist, RecordsTyped
  <2>3. CASE \E d \in Children : Aims(d)
    <3>1. PICK d \in Children : Aims(d)
      BY <2>3
    <3>2. PICK p : base' = [base EXCEPT ![d] = p] /\ (base[d] = p \/ p \in branches) /\ pr' = pr /\ branches' = branches
      BY <3>1 DEF Aims
    <3> QED
      BY <1>1, <3>2 DEF BasesExist, RecordsTyped
  <2>4. CASE FinishRetargets
    BY <1>1, <2>4 DEF FinishRetargets, BasesExist, RecordsTyped
  <2>5. CASE base' = base
    <3>1. pr'[c] = "open" => pr[c] = "open" \/ \E d \in Children : OpensPR(d)
      BY <1>1, <1>2, <1>7 DEF PrChanges, MergesChild, RecordsTyped
    <3> QED
      BY <2>1, <2>2, <2>5, <3>1 DEF BasesExist
  <2> QED
    BY <1>3, <2>2, <2>3, <2>4, <2>5 DEF BaseChanges
<1> QED
  BY <1>6, <1>7

LEMMA MindsNext ==
  ASSUME Typed, Minds, Lasts, [Next]_vars
  PROVE  Minds'
<1> SUFFICES ASSUME Calm', period' # None
             PROVE  mine' = period' \/ (mine' = None /\ doing'[Tick].at = "close" /\ doing'[Tick].period = period')
  BY DEF Minds
<1>1. Calm
  BY CalmBefore DEF Calm
<1>2. CASE StartsPeriod \/ Kill
  BY <1>2 DEF StartsPeriod, Kill, meta
<1>3. CASE TickEndsPeriod
  <2>1. period # None /\ mine # None /\ period' = period /\ mine' = None
    BY <1>3 DEF TickEndsPeriod, meta
  <2>2. mine = period
    BY <1>1, <2>1 DEF Minds
  <2>3. doing'[Tick].at = "close" /\ doing'[Tick].period = mine
    BY <1>3, ReadsChildrenAll, ActorsApart DEF TickEndsPeriod
  <2> QED
    BY <2>1, <2>2, <2>3
<1>4. CASE ~StartsPeriod /\ ~Kill /\ ~TickEndsPeriod
  <2>1. ~\E a \in {Tick, Order} : Closes(a)
    BY DEF Closes
  <2>2. period' = period
    BY <1>4, <2>1, WhoTouches DEF Touched, MainOrMine
  <2>3. mine' = mine
    BY <1>4, <2>2, WhoTouches DEF Touched, MainOrMine, FollowsEnd
  <2>4. doing[Tick].at = "close" => doing'[Tick] = doing[Tick]
    <3>1. EndPeriod(Tick) /\ doing[Tick].at = "close" => Closes(Tick)
      BY EndPeriodMoves
    <3> QED
      BY <1>4, <2>1, <3>1, CloserMoves DEF Closing
  <2> QED
    BY <1>1, <2>2, <2>3, <2>4 DEF Minds
<1> QED
  BY <1>2, <1>3, <1>4

LEMMA AddingMoves ==
  ASSUME Typed, [Next]_vars, Calm', doing'[Tick].at \in {"record", "read", "add"}
  PROVE  Keeps(Tick) /\ (doing[Tick].at \in {"record", "read", "add"} \/ MergesChild)
<1>1. CASE doing'[Tick] = doing[Tick]
  BY <1>1 DEF Keeps
<1>2. CASE Kill
  BY <1>2, KillAll DEF Threads
<1>3. CASE TickEndsPeriod \/ EndPeriod(Tick)
  BY <1>3, ReadsChildrenAll, EndPeriodMoves, ActorsApart DEF TickEndsPeriod
<1>4. CASE Integrate
  BY <1>4, IntegrateMoves DEF Keeps
<1> QED
  BY <1>1, <1>2, <1>3, <1>4, WhoMoves DEF Moved, TickMoves

(* A branch without a rollup still speaks for itself.                       *)
LEMMA NotGoneYet ==
  ASSUME Books, Calm, NEW p \in Periods, roll[p] = "none"
  PROVE  ~Gone(p)
BY DEF Books, TakesOwn, Gone, Past, Over

LEMMA WorkHasBranchNext ==
  ASSUME KInv, Books, Traced, BasesExist, Minded, [Next]_vars, Calm, Calm'
  PROVE  WorkHasBranch'
<1> SUFFICES ASSUME NEW p \in Periods, roll'[p] = "none", Active(p)'
             PROVE  p \in branches'
  BY DEF WorkHasBranch
<1>1. Typed /\ RecordsTyped
  BY TypedFacts DEF KInv
<1>2. roll[p] = "none" /\ ~Gone(p)
  BY <1>1, PRStays, NotGoneYet
<1>3. CASE Active(p)
  <2>1. p \in branches
    BY <1>2, <1>3 DEF Minded, WorkHasBranch
  <2>2. ~(doing[Finish].at = "delete" /\ doing[Finish].period = p)
    BY <1>2 DEF Gone, Taken
  <2>3. ASSUME NEW a \in {Tick, Order}, doing[a].at = "drop", doing[a].list = OfBranch(p), Behind(p) = {}
        PROVE  FALSE
    <3>1. OfBranch(p) = {}
      BY <2>3 DEF Books, ReadsOwn
    <3> QED
      BY <1>3, <2>3, <3>1, NotBehind DEF Active, Held
  <2> QED
    BY <1>1, <2>1, <2>2, <2>3, BranchesMove
<1>4. CASE ~Active(p)
  <2>1. OfBranch(p)' = {}
    <3> SUFFICES ASSUME NEW e \in integrations', e.branch = p PROVE FALSE
      BY DEF OfBranch
    <3>1. e \notin integrations
      BY <1>4 DEF Active, OfBranch
    <3>2. doing[Tick].at = "add" /\ e = [issue |-> Subject, branch |-> Target]
      BY <1>1, <3>1, EntriesMove DEF Without
    <3> QED
      BY <1>4, <3>2 DEF Active
  <2>2. doing'[Tick].at \in {"record", "read", "add"} /\ Target' = p
    BY <2>1 DEF Active
  <2>3. MergesChild /\ Target = p
    BY <1>1, <1>4, <2>2, AddingMoves DEF Active, Keeps, Target
  <2>4. doing[Tick].at = "merge" /\ pr[Subject] = "open" /\ Subject \in Children
    BY <1>1, <2>3, SubjectType DEF MergesChild, At, Merging
  <2>5. base[Subject] = p
    <3>1. base[Subject] = p \/ (base[Subject] = None /\ Gone(p))
      BY <2>3, <2>4 DEF Traced, AimedThere, At, Gone, Taken, Past, Over, Filing
    <3> QED
      BY <1>2, <3>1
  <2>6. p \in branches
    BY <2>4, <2>5 DEF BasesExist, Periods, None
  <2> QED
    BY <2>3, <2>6 DEF MergesChild
<1> QED
  BY <1>3, <1>4

LEMMA WorkHasEndNext ==
  ASSUME KInv, Books, OnRecord, Minds, Minded, [Next]_vars, Calm, Calm'
  PROVE  WorkHasEnd'
<1> SUFFICES ASSUME NEW p \in Periods, roll'[p] = "none", p \in branches'
             PROVE  period' = p \/ Ending(p)'
  BY DEF WorkHasEnd
<1>1. Typed /\ RecordsTyped /\ p # None
  BY TypedFacts DEF KInv, Periods, None
<1>2. roll[p] = "none" /\ ~Gone(p)
  BY <1>1, PRStays, NotGoneYet
<1>3. CASE p \notin branches
  <2>1. ASSUME NEW c, c \in on[p] PROVE FALSE
    <3>1. c \in IssuesOf(OfBranch(p)) \cup Adding(p)
      BY <1>2, <2>1 DEF OnRecord
    <3>2. Active(p)
      BY <3>1 DEF Active, Adding, IssuesOf
    <3> QED
      BY <1>2, <1>3, <3>2 DEF Minded, WorkHasBranch
  <2> QED
    BY <1>1, <1>3, <2>1, BranchesMove DEF StartsPeriod
<1>4. CASE p \in branches /\ period = p
  <2>1. ~StartsPeriod
    BY <1>1, <1>4 DEF Minds, StartsPeriod, Idle, At
  <2>2. ASSUME NEW a \in {Tick, Order}, Closes(a) PROVE Ending(p)'
    <3>1. doing[a].period = p
      BY <1>1, <1>4, <2>2, NothingMissed DEF Closes
    <3>2. doing'[a].at = "mark" /\ doing'[a].period = p
      BY <1>1, <2>2, <3>1, GoesAll, ActorsApart DEF Closes
    <3> QED
      BY <3>2 DEF Ending
  <2> QED
    BY <1>4, <2>1, <2>2, WhoTouches DEF Touched, MainOrMine
<1>5. ASSUME NEW a \in {Tick, Order}, p \in branches, doing[a].period = p, doing[a].at \in {"mark", "look", "drop", "open"}
      PROVE  Ending(p)'
  <2>1. CASE doing'[a] = doing[a]
    BY <1>5, <2>1 DEF Ending
  <2>2. CASE EndPeriod(a)
    <3>1. rollup.period # p
      BY <1>1, <1>2 DEF Books, RecordHasPR
    <3>2. ~DropsBranch(a)
      BY <1>1, <1>5, DeleteAll DEF DropsBranch
    <3>3. ~OpensRollup(a)
      BY <1>1, <1>5 DEF OpensRollup, RecordsTyped
    <3>4. ~RollupRefused(a)
      BY <1>2, <1>5, NothingMissed DEF RollupRefused
    <3> QED
      BY <1>1, <1>5, <2>2, <3>1, <3>2, <3>3, <3>4, EndPeriodMoves DEF Ending
  <2> QED
    BY <1>1, <1>5, <2>1, <2>2, CloserMoves DEF Closing
<1> QED
  BY <1>2, <1>3, <1>4, <1>5 DEF Minded, WorkHasEnd, Ending

LEMMA MindedNext ==
  ASSUME KInv, Books, Traced, OnRecord, BasesExist, Minds, Minded, Lasts, [Next]_vars
  PROVE  Minded'
BY CalmBefore, WorkHasBranchNext, WorkHasEndNext DEF Minded, Calm

(* Whenever nobody is at work, the records are those of the branches.       *)
RInv == DInv /\ OnRecord /\ OnList /\ BasesExist /\ Minds /\ Minded

LEMMA RInvInit == Init => RInv
<1> SUFFICES ASSUME Init PROVE RInv
  OBVIOUS
<1>1. doing[Tick].at = "idle"
  BY RestingType, ActorsApart DEF Init
<1>2. OnRecord /\ OnList /\ BasesExist /\ Minds /\ Minded
  BY <1>1 DEF Init, OnRecord, OnList, NoRollup, BasesExist, Minds, Minded, WorkHasBranch, WorkHasEnd, Active, OfBranch
<1> QED
  BY <1>2, DInvInit DEF RInv

LEMMA RInvNext == RInv /\ [Next]_vars => RInv'
<1> SUFFICES ASSUME RInv, [Next]_vars PROVE RInv'
  OBVIOUS
<1>1. DInv /\ OnRecord /\ OnList /\ BasesExist /\ Minds /\ Minded /\ KInv /\ Typed /\ Placed /\ Books /\ Traced
  BY DEF RInv, DInv, KInv
<1>2. DInv' /\ Lasts
  BY <1>1, DInvNext, LastsNext
<1> QED
  BY <1>1, <1>2, OnRecordNext, OnListNext, BasesNext, MindsNext, MindedNext DEF RInv

LEMMA RestingRecords == ASSUME RInv PROVE RecordsMatchBranches
<1> SUFFICES ASSUME AtRest
             PROVE  /\ Barring({"late", "overlap", "cut"}) => \A e \in integrations : e.issue \in on[e.branch]
                    /\ Barring({"overlap", "cut"}) =>
                         \A p \in 1 .. closedThrough : p # period /\ OfBranch(p) # {} => roll[p] # "none"
                    /\ LET p == rollup.period
                       IN  Barring({"kept", "overlap", "cut"}) /\ p \notin {None, period} /\ roll[p] \in {"CI", "READY_FOR_OWNER"}
                             => rollup.children = on[p]
  BY DEF RecordsMatchBranches
<1>1. Typed /\ RecordsTyped /\ Books /\ Traced /\ Minded /\ ListedThere /\ OnList
  BY TypedFacts DEF RInv, DInv, KInv
<1>2. /\ doing[Tick].at = "idle" /\ doing[Order].at = "idle" /\ doing[Finish].at = "idle"
      /\ \A c \in Children : doing[Smoke(c)].at = "idle"
  BY ActorsApart DEF AtRest, Idle, At
<1>3. ASSUME Barring({"late", "overlap", "cut"}), NEW e \in integrations PROVE e.issue \in on[e.branch]
  <2>1. Calm /\ Sound(e.branch)
    BY <1>3 DEF Calm, Barring, Sound
  <2>2. e.issue \in on[e.branch] \/ Undoing(e.issue, e.branch)
    BY <1>1, <2>1 DEF Traced, EntriesThere
  <2>3. e.issue \in Children
    BY <1>1 DEF RecordsTyped, Entries
  <2> QED
    BY <1>2, <2>2, <2>3 DEF Undoing
<1>4. ASSUME Barring({"overlap", "cut"}), NEW p \in 1 .. closedThrough, p # period, OfBranch(p) # {} PROVE roll[p] # "none"
  <2>1. p \in Periods
    BY <1>1, BoundsAssumption DEF RecordsTyped, Periods, None
  <2>2. Calm
    BY <1>4 DEF Calm
  <2> QED
    BY <1>1, <1>2, <1>4, <2>1, <2>2 DEF Minded, WorkHasBranch, WorkHasEnd, Active, Ending
<1>5. ASSUME Barring({"kept", "overlap", "cut"}), rollup.period # None, roll[rollup.period] \in {"CI", "READY_FOR_OWNER"}
      PROVE  rollup.children = on[rollup.period]
  <2>1. Calm /\ Barring({"kept"})
    BY <1>5 DEF Calm, Barring
  <2>2. ~Gone(rollup.period)
    BY <1>2, <1>5 DEF Gone, Taken, Past, Over
  <2>3. on[rollup.period] \subseteq rollup.children
    BY <1>1, <1>2, <1>5, <2>1, <2>2 DEF OnList, Held
  <2>4. rollup.children \subseteq on[rollup.period]
    <3>1. \A c \in rollup.children : c \in Children /\ ~TakenOff(c, rollup.period)
      BY <1>1, <1>2 DEF RecordsTyped, Rollups, TakenOff, Sent
    <3> QED
      BY <1>1, <1>5, <2>1, <2>2, <3>1 DEF ListedThere
  <2> QED
    BY <2>3, <2>4
<1> QED
  BY <1>3, <1>4, <1>5

(* Whenever nobody is at work, an integration on record is on its branch, a *)
(* closed period with work on record has its rollup, and the pending rollup *)
(* names just what its branch carries.                                      *)
THEOREM RecordsMatch == Spec => []RecordsMatchBranches
<1>1. RInv => RecordsMatchBranches
  BY RestingRecords
<1> QED
  BY RInvInit, RInvNext, <1>1, PTL DEF Spec

-----------------------------------------------------------------------------
(* A merged rollup and its children.  With the records never displaced, the *)
(* branch that is finished is the one whose rollup the owner merged, and    *)
(* nothing else has been taken from its records' care.                      *)
Proper == Calm /\ Barring({"displaced"})

GoneIsDone   == Proper => \A p \in Periods : Gone(p) => roll[p] = "DONE"
FinishesOwn  == Proper /\ doing[Finish].at \in {"retarget", "delete", "clear"} => doing[Finish].info.period = doing[Finish].period

LEMMA FinishesOwnNext ==
  ASSUME Typed, Books, FinishesOwn, Lasts, [Next]_vars
  PROVE  FinishesOwn'
<1> SUFFICES ASSUME Proper', doing'[Finish].at \in {"retarget", "delete", "clear"}
             PROVE  doing'[Finish].info.period = doing'[Finish].period
  BY DEF FinishesOwn
<1>1. Proper /\ Calm /\ Calm' /\ Barring({"displaced"})'
  BY CalmBefore DEF Proper, Calm
<1>2. CASE FinishGathers
  <2>1. rollup.period = doing[Finish].period
    BY <1>1, <1>2, GathersThere
  <2> QED
    BY <1>2, <2>1, GathersAll
<1>3. CASE FinishStep /\ ~FinishGathers
  BY <1>1, <1>3, FinishMovesOn DEF FinishesOwn, Keeps
<1> QED
  BY <1>1, <1>2, <1>3, FinisherMoves DEF FinishesOwn

LEMMA GoneIsDoneNext ==
  ASSUME Typed, Books, GoneIsDone, FinishesOwn, Lasts, [Next]_vars
  PROVE  GoneIsDone'
<1> SUFFICES ASSUME Proper', NEW p \in Periods, Gone(p)', roll'[p] # "DONE"
             PROVE  FALSE
  BY DEF GoneIsDone
<1>1. Proper /\ Calm /\ Calm' /\ Barring({"displaced"})' /\ p # None
  BY CalmBefore DEF Proper, Calm, Periods, None
<1>2. ~Gone(p) /\ roll[p] # "DONE"
  BY <1>1 DEF GoneIsDone, Lasts
<1>3. CASE Taken(p)'
  <2>1. FinishStep
    BY <1>1, <1>2, <1>3, FinisherMoves DEF Gone, Taken
  <2>2. FinishGathers
    BY <1>2, <1>3, <2>1, FinishMovesOn DEF Gone, Taken, Keeps
  <2>3. doing'[Finish].period = doing[Finish].period /\ roll[doing[Finish].period] = "DONE"
    BY <1>1, <2>2, GathersThere, GathersAll
  <2> QED
    BY <1>2, <1>3, <2>3 DEF Taken
<1>4. CASE Past(p)'
  <2>1. roll[p] # "none"
    <3> SUFFICES ASSUME roll[p] = "none" PROVE FALSE
      OBVIOUS
    <3>1. PICK a \in {Tick, Order} : OpensRollup(a) /\ doing[a].period = p
      BY <1>1, <1>4, RollMoves DEF Past
    <3>2. doing'[a].at = "file" /\ doing'[a].period = p
      BY <3>1, GoesAll, ActorsApart DEF OpensRollup
    <3> QED
      BY <1>4, <3>2 DEF Past, Filing
  <2>2. rollup.period = p \/ Filing(p)
    BY <1>2, <2>1 DEF Gone, Past
  <2>3. CASE Filing(p)
    <3>1. PICK a \in {Tick, Order} : FilesRollup(a) /\ doing[a].period = p
      BY <1>1, <1>4, <2>3, FileMoves DEF Filing, Past
    <3>2. rollup'.period = p
      BY <3>1 DEF FilesRollup
    <3> QED
      BY <1>4, <3>2 DEF Past
  <2>4. CASE rollup.period = p /\ ~Filing(p)
    <3>1. rollup' # rollup /\ rollup'.period # p
      BY <1>4, <2>4 DEF Past
    <3>2. CASE Cleared
      <4>1. Taken(p)
        BY <1>1, <2>4, <3>2 DEF Cleared, FinishesOwn, Taken
      <4> QED
        BY <1>2, <4>1 DEF Gone
    <3>3. ASSUME NEW a \in {Tick, Order}, Filed(a) PROVE FALSE
      BY <1>1, <2>4, <3>3 DEF Filed, NoRollup, Barring
    <3> QED
      BY <1>1, <2>4, <3>1, <3>2, <3>3, RollupMoves DEF Carried, Unlisted, Refreshed
  <2> QED
    BY <2>2, <2>3, <2>4
<1>5. CASE Over(p)'
  BY <1>5 DEF Over
<1> QED
  BY <1>3, <1>4, <1>5 DEF Gone

(* Work that is INTEGRATED is on main or on a branch that exists, or        *)
(* someone is just taking it off its branch.                                *)
Kept == Barring({"late", "displaced", "overlap", "cut"})

RecordsReal == Kept /\ doing[Tick].at = "record" => Subject \in main \/ Target \in branches

Somewhere(c) ==
  \/ c \in main \/ \E b \in branches : c \in on[b]
  \/ Sent(c) \/ (Struck /\ Struckee = c)
IntegratedSomewhere == Kept => \A c \in Children : state[c] = "INTEGRATED" => Somewhere(c)

(* A branch that is deleted carries nothing that is not on main.            *)
LEMMA DeletedIsOnMain ==
  ASSUME RInv, GoneIsDone, [Next]_vars, Kept, Calm', NEW p \in Periods, p \in branches, p \notin branches'
  PROVE  on[p] \subseteq main
<1>1. /\ Typed /\ Books /\ OnRecord /\ Calm /\ Proper
      /\ Barring({"late"}) => \A q \in Periods : roll[q] \in {"MERGED", "DONE"} => on[q] \subseteq main
  BY DEF RInv, DInv, KInv, Kept, Calm, Proper, Barring, MergedIsOnMain
<1>2. Gone(p) => on[p] \subseteq main
  BY <1>1 DEF GoneIsDone, Kept, Barring
<1>3. CASE doing[Finish].at = "delete" /\ doing[Finish].period = p
  BY <1>2, <1>3 DEF Gone, Taken
<1>4. ASSUME NEW a \in {Tick, Order}, doing[a].at = "drop", doing[a].list = OfBranch(p), Behind(p) = {}
      PROVE  Gone(p) \/ on[p] = {}
  <2>1. OfBranch(p) = {}
    BY <1>1, <1>4 DEF Books, ReadsOwn
  <2>2. ~(Held /\ Target = p)
    BY <1>4, NotBehind
  <2> QED
    BY <1>1, <2>1, <2>2 DEF OnRecord, IssuesOf, Adding, Held
<1> QED
  BY <1>1, <1>2, <1>3, <1>4, BranchesMove

LEMMA KeptBefore ==
  ASSUME Lasts, Kept'
  PROVE  Kept /\ Calm /\ Calm' /\ Barring({"late"}) /\ Barring({"late"})' /\ Proper /\ Proper'
BY CalmBefore DEF Kept, Calm, Proper, Barring

LEMMA RecordsRealNext ==
  ASSUME RInv, GoneIsDone, RecordsReal, Lasts, [Next]_vars
  PROVE  RecordsReal'
<1> SUFFICES ASSUME Kept', doing'[Tick].at = "record" PROVE Subject' \in main' \/ Target' \in branches'
  BY DEF RecordsReal
<1>1. /\ KInv /\ Typed /\ RecordsTyped /\ Traced /\ BasesExist /\ Calm /\ Calm' /\ Kept /\ Barring({"late"})
      /\ main \subseteq main'
  BY TypedFacts, KeptBefore, MainGrows DEF RInv, DInv, KInv
<1>2. Subject' = Subject /\ Target' = Target /\ (doing[Tick].at = "record" \/ (MergesChild /\ doing[Tick].at = "merge"))
  BY <1>1, TickHolds DEF Held, Keeps, Subject, Target, At, MergesChild
<1>3. Subject \in Children /\ Target \in Periods
  BY <1>1, <1>2, SubjectType DEF Merging
<1>4. CASE doing[Tick].at = "record"
  <2>1. CASE Target \in branches /\ Target \notin branches'
    <3>1. PICK p \in Periods : p = Target
      BY <1>3
    <3>2. on[p] \subseteq main
      BY <1>1, <2>1, <3>1, DeletedIsOnMain
    <3>3. Subject \in on[Target]
      BY <1>1, <1>4 DEF Traced, MergedThere, Held, Sound
    <3> QED
      BY <1>1, <1>2, <3>1, <3>2, <3>3
  <2> QED
    BY <1>1, <1>2, <1>4, <2>1 DEF RecordsReal
<1>5. CASE MergesChild /\ doing[Tick].at = "merge"
  <2>1. pr[Subject] = "open" /\ branches' = branches /\ (base[Subject] = None => Subject \in main')
    BY <1>5 DEF MergesChild
  <2>2. base[Subject] = Target \/ base[Subject] = None
    BY <1>1, <1>5 DEF Traced, AimedThere, At
  <2> QED
    BY <1>1, <1>2, <1>3, <2>1, <2>2 DEF BasesExist
<1> QED
  BY <1>2, <1>4, <1>5

LEMMA IntegratedMoves ==
  ASSUME Typed, [Next]_vars, NEW c \in Children, state'[c] = "INTEGRATED", state[c] # "INTEGRATED"
  PROVE  RecordsIntegrated /\ c = Subject
<1>1. RecordsTyped /\ StateChanges
  BY WhoTouches, TypedFacts DEF Touched
<1>2. ~(MergeRefused \/ AnswerLost \/ ExcludeBlocks \/ FinishGathers)
  BY <1>1 DEF MergeRefused, AnswerLost, ExcludeBlocks, FinishGathers, MoveOrRaise, RecordsTyped
<1>3. ~\E d \in Children : OpensPR(d) \/ Reconciles(d) \/ Readies(d) \/ SmokeSendsBack(d)
  BY <1>1 DEF OpensPR, Reconciles, Readies, SmokeSendsBack, MoveOrRaise, RecordsTyped
<1> QED
  BY <1>1, <1>2, <1>3 DEF StateChanges, RecordsIntegrated, MoveOrRaise, RecordsTyped

LEMMA SomewhereNext ==
  ASSUME RInv, GoneIsDone, RecordsReal, IntegratedSomewhere, Lasts, [Next]_vars
  PROVE  IntegratedSomewhere'
<1> SUFFICES ASSUME Kept', NEW c \in Children, state'[c] = "INTEGRATED" PROVE Somewhere(c)'
  BY DEF IntegratedSomewhere
<1>1. /\ KInv /\ Typed /\ RecordsTyped /\ Traced /\ Calm /\ Calm' /\ Kept /\ Barring({"late"})
      /\ main \subseteq main'
  BY TypedFacts, KeptBefore, MainGrows DEF RInv, DInv, KInv
<1>2. CASE state[c] # "INTEGRATED"
  <2>1. RecordsIntegrated /\ c = Subject /\ doing[Tick].at = "record"
    BY <1>1, <1>2, IntegratedMoves DEF RecordsIntegrated, At
  <2>2. on' = on /\ branches' = branches
    BY <2>1 DEF RecordsIntegrated, github
  <2>3. c \in on[Target]
    BY <1>1, <2>1 DEF Traced, MergedThere, Held, Sound
  <2> QED
    BY <1>1, <2>1, <2>2, <2>3 DEF RecordsReal, Somewhere
<1>3. CASE state[c] = "INTEGRATED"
  <2>1. Somewhere(c)
    BY <1>1, <1>3 DEF IntegratedSomewhere
  <2>2. CASE c \in main
    BY <1>1, <2>2 DEF Somewhere
  <2>3. ASSUME NEW b \in branches, c \in on[b] PROVE Somewhere(c)'
    <3>1. b \in Periods
      BY <1>1 DEF RecordsTyped
    <3>2. CASE b \notin branches'
      BY <1>1, <2>3, <3>1, <3>2, DeletedIsOnMain DEF Somewhere
    <3>3. CASE SmokeReverts(c)
      BY <1>1, <3>3, SmokeUndoes DEF Somewhere, Sent
    <3>4. CASE ExcludeReverts /\ c = Struckee
      BY <1>1, <3>4, OrderUndoes DEF Somewhere, Struck, Struckee, Keeps
    <3> QED
      BY <1>1, <2>3, <3>1, <3>2, <3>3, <3>4, OnMoves DEF Somewhere
  <2>4. CASE Sent(c)
    <3>1. ~(SmokeSendsBack(c) /\ doing[Smoke(c)].at = "back")
      BY <1>1, <1>3 DEF SmokeSendsBack, MoveOrRaise, MayBecome, At, RecordsTyped
    <3> QED
      BY <1>1, <2>4, <3>1, SentGoesOn DEF Somewhere
  <2>5. CASE Struck /\ Struckee = c
    <3>1. ~ExcludeBlocks
      BY <1>1, <1>3, <2>5 DEF ExcludeBlocks, Struckee, RecordsTyped
    <3> QED
      BY <1>1, <2>5, <3>1, StruckHolds DEF Somewhere, Keeps, Struckee
  <2> QED
    BY <2>1, <2>2, <2>3, <2>4, <2>5 DEF Somewhere
<1> QED
  BY <1>2, <1>3

(* No integrated work is lost.                                              *)
SInv == RInv /\ GoneIsDone /\ FinishesOwn /\ RecordsReal /\ IntegratedSomewhere

LEMMA SInvInit == Init => SInv
<1> SUFFICES ASSUME Init PROVE SInv
  OBVIOUS
<1>1. doing[Tick].at = "idle" /\ doing[Finish].at = "idle"
  BY RestingType, ActorsApart DEF Init
<1>2. GoneIsDone /\ FinishesOwn /\ RecordsReal /\ IntegratedSomewhere
  BY <1>1 DEF Init, GoneIsDone, Gone, Taken, Past, Over, FinishesOwn, RecordsReal, IntegratedSomewhere
<1> QED
  BY <1>2, RInvInit DEF SInv

LEMMA SInvNext == SInv /\ [Next]_vars => SInv'
<1> SUFFICES ASSUME SInv, [Next]_vars PROVE SInv'
  OBVIOUS
<1>1. RInv /\ GoneIsDone /\ FinishesOwn /\ RecordsReal /\ IntegratedSomewhere /\ Typed /\ Books
  BY DEF SInv, RInv, DInv, KInv
<1>2. RInv' /\ Lasts
  BY <1>1, RInvNext, LastsNext
<1> QED
  BY <1>1, <1>2, GoneIsDoneNext, FinishesOwnNext, RecordsRealNext, SomewhereNext DEF SInv

(* Integrated work is never lost: between two actors' dealings with its     *)
(* branch, main or a branch that exists carries it, whatever ends of        *)
(* period, smoke reverts, exclusions and deletions of branches do.          *)
THEOREM IntegratedWorkSurvives == Spec => []WorkSurvives
<1>1. ASSUME SInv PROVE WorkSurvives
  <2> SUFFICES ASSUME Kept, \A a \in Actors : ~Halfway(a), NEW c \in Children, state[c] = "INTEGRATED"
               PROVE  c \in main \/ \E b \in branches : c \in on[b]
    BY DEF WorkSurvives, Kept
  <2>1. Somewhere(c)
    BY <1>1 DEF SInv, IntegratedSomewhere
  <2>2. ~Sent(c) /\ ~Struck
    BY ActorsApart DEF Halfway, Sent, Struck
  <2> QED
    BY <2>1, <2>2 DEF Somewhere
<1> QED
  BY SInvInit, SInvNext, <1>1, PTL DEF Spec

-----------------------------------------------------------------------------
(* The end of a rollup.  Rollups are of closed periods, so no period brings *)
(* the branch of a finished one back; what a branch carries is INTEGRATED   *)
(* or DONE; what a finished one carried is DONE.                            *)
Clean == Barring({"late", "displaced", "kept", "overlap", "cut"})

OfClosedPeriods ==
  Calm => /\ \A p \in Periods : roll[p] # "none" => p <= closedThrough
          /\ \A a \in {Tick, Order} : doing[a].at \in {"look", "refresh", "drop", "open", "file"} =>
               doing[a].period <= closedThrough

CarriedIsIntegrated ==
  Calm /\ Barring({"kept"}) => \A p \in Periods : \A c \in on[p] :
    state[c] \in {"INTEGRATED", "DONE"} \/ (doing[Tick].at = "record" /\ c = Subject)

FinishedIsGone ==
  Proper /\ Barring({"late"}) => \A p \in Periods : roll[p] = "DONE" =>
    p \notin branches \/ (doing[Finish].at \in {"gather", "retarget", "delete"} /\ doing[Finish].period = p)

FinishedIsDone ==
  Clean => \A p \in Periods : roll[p] = "DONE" =>
    (\A c \in on[p] : state[c] = "DONE") \/ (doing[Finish].at = "gather" /\ doing[Finish].period = p)

LEMMA OfClosedNext ==
  ASSUME Typed, Typed', OfClosedPeriods, Lasts, [Next]_vars
  PROVE  OfClosedPeriods'
<1> SUFFICES ASSUME Calm'
             PROVE  /\ \A p \in Periods : roll'[p] # "none" => p <= closedThrough'
                    /\ \A a \in {Tick, Order} : doing'[a].at \in {"look", "refresh", "drop", "open", "file"} =>
                         doing'[a].period <= closedThrough'
  BY DEF OfClosedPeriods
<1>1. /\ Calm /\ closedThrough \in Int /\ closedThrough' \in Int
      /\ \A p \in Periods : p \in Int
      /\ \A a \in {Tick, Order} : doing[a].at # "idle" => doing[a].period \in Periods
  BY CalmBefore, AtWork, ActorsApart, BoundsAssumption DEF Calm, Typed, TypeOK, Periods, None
<1>2. closedThrough <= closedThrough'
  <2>1. ASSUME NEW a \in {Tick, Order}, MarksClosed(a) PROVE closedThrough <= closedThrough'
    <3>1. closedThrough' = doing[a].period /\ doing[a].period \in Periods
      BY <1>1, <2>1 DEF MarksClosed, At
    <3>2. ~(closedThrough > doing[a].period)
      BY <2>1, NothingMissed DEF MarksClosed
    <3> QED
      BY <1>1, <3>1, <3>2
  <2>2. closedThrough' = closedThrough \/ \E a \in {Tick, Order} : MarksClosed(a)
    BY WhoTouches DEF Touched, MainOrMine
  <2> QED
    BY <1>1, <2>1, <2>2
<1>3. ASSUME NEW a \in {Tick, Order}, doing'[a].at \in {"look", "refresh", "drop", "open", "file"}
      PROVE  doing'[a].period <= closedThrough'
  <2>1. CASE MarksClosed(a)
    <3>1. doing'[a].period = doing[a].period /\ doing[a].period \in Periods
      BY <1>1, <2>1, GoesAll, ActorsApart DEF MarksClosed, At
    <3> QED
      BY <1>1, <2>1, <3>1 DEF MarksClosed
  <2>2. CASE ~MarksClosed(a)
    <3>1. /\ doing[a].at \in {"look", "refresh", "drop", "open", "file"}
          /\ doing'[a].period = doing[a].period
      BY <1>3, <2>2, CloserMoves, EndPeriodMoves DEF Closing
    <3>2. doing[a].period \in Periods /\ doing[a].period <= closedThrough
      BY <1>1, <3>1 DEF OfClosedPeriods
    <3> QED
      BY <1>1, <1>2, <3>1, <3>2
  <2> QED
    BY <2>1, <2>2
<1>4. ASSUME NEW p \in Periods, roll'[p] # "none" PROVE p <= closedThrough'
  <2>1. p <= closedThrough
    <3>1. CASE roll[p] = "none"
      <4>1. PICK a \in {Tick, Order} : OpensRollup(a) /\ doing[a].period = p
        BY <1>4, <3>1, RollMoves
      <4> QED
        BY <1>1, <4>1 DEF OfClosedPeriods, OpensRollup, At
    <3> QED
      BY <1>1, <3>1 DEF OfClosedPeriods
  <2> QED
    BY <1>1, <1>2, <2>1
<1> QED
  BY <1>3, <1>4

LEMMA CarriedNext ==
  ASSUME KInv, Placed, CarriedIsIntegrated, Lasts, [Next]_vars
  PROVE  CarriedIsIntegrated'
<1> SUFFICES ASSUME Calm', Barring({"kept"})', NEW p \in Periods, NEW c \in on'[p],
                    ~(doing'[Tick].at = "record" /\ c = Subject')
             PROVE  state'[c] \in {"INTEGRATED", "DONE"}
  BY DEF CarriedIsIntegrated
<1>1. Typed /\ RecordsTyped /\ Calm /\ Barring({"kept"})
  BY TypedFacts, CalmBefore DEF KInv, Calm
<1>2. c \in on[p] /\ c \in Children
  <2>1. c \in on[p]
    <3> SUFFICES ASSUME c \notin on[p] PROVE FALSE
      OBVIOUS
    <3>1. MergesChild /\ c = Subject
      BY <1>1, OnMoves
    <3>2. doing'[Tick].at = "record" /\ Subject' = Subject
      BY <1>1, <3>1, GoesAll, ActorsApart DEF MergesChild, Subject
    <3> QED
      BY <3>1, <3>2
  <2> QED
    BY <1>1, <2>1 DEF RecordsTyped
<1>3. ~Nowhere(c)
  BY <1>2 DEF Nowhere
<1>4. CASE doing[Tick].at = "record" /\ c = Subject
  <2>1. state[c] = "REVIEW"
    BY <1>4 DEF KInv, InHand
  <2>2. RecordsIntegrated
    BY <1>1, <1>4, TickHolds DEF At, Keeps, Subject
  <2> QED
    BY <1>1, <1>2, <1>4, <2>1, <2>2 DEF RecordsIntegrated, MoveOrRaise, MayBecome, RecordsTyped
<1>5. CASE ~(doing[Tick].at = "record" /\ c = Subject)
  <2>1. state[c] \in {"INTEGRATED", "DONE"}
    BY <1>1, <1>2, <1>5 DEF CarriedIsIntegrated
  <2>2. ~(\E d \in Children : SmokeSendsBack(d)) => state'[c] \in {"INTEGRATED", "DONE"}
    <3>1. CASE state' = state
      BY <2>1, <3>1
    <3>2. CASE MergeRefused \/ AnswerLost
      <4>1. state[Subject] = "REVIEW"
        BY <3>2 DEF MergeRefused, AnswerLost, KInv, InHand, At
      <4>2. MoveOrRaise(Subject, "BLOCKED")
        BY <3>2 DEF MergeRefused, AnswerLost
      <4> QED
        BY <1>1, <2>1, <4>1, <4>2 DEF MoveOrRaise, RecordsTyped
    <3>3. CASE RecordsIntegrated
      BY <1>1, <1>2, <2>1, <3>3 DEF RecordsIntegrated, MoveOrRaise, RecordsTyped
    <3>4. CASE ExcludeBlocks
      <4>1. c # Struckee
        BY <1>1, <1>3, <3>4 DEF ExcludeBlocks, At, Placed, StruckNowhere, Struck
      <4> QED
        BY <1>1, <2>1, <3>4, <4>1 DEF ExcludeBlocks, Struckee, RecordsTyped
    <3>5. CASE FinishGathers
      BY <1>1, <1>2, <2>1, <3>5 DEF FinishGathers
    <3>6. ASSUME NEW d \in Children, OpensPR(d) \/ Reconciles(d) \/ Readies(d)
          PROVE  state'[c] \in {"INTEGRATED", "DONE"}
      <4>1. d # c /\ \E to : state' = [state EXCEPT ![d] = to]
        BY <2>1, <3>6 DEF OpensPR, Reconciles, Readies
      <4> QED
        BY <1>1, <2>1, <4>1 DEF RecordsTyped
    <3>7. state' = state \/ StateChanges
      BY WhoTouches DEF Touched
    <3> QED
      BY <3>1, <3>2, <3>3, <3>4, <3>5, <3>6, <3>7 DEF StateChanges
  <2>3. ASSUME NEW d \in Children, SmokeSendsBack(d) PROVE state'[c] = state[c]
    <3>1. d # c
      <4>1. CASE doing[Smoke(d)].at = "back"
        BY <1>1, <1>3, <2>3, <4>1 DEF Placed, SentNowhere, Sent
      <4>2. CASE doing[Smoke(d)].at = "stuck"
        <5>1. Befalls({"kept"})
          BY <2>3, <4>2 DEF SmokeSendsBack, At
        <5> QED
          BY <5>1 DEF Befalls, Barring
      <4> QED
        BY <2>3, <4>1, <4>2 DEF SmokeSendsBack
    <3> QED
      BY <1>1, <2>3, <3>1 DEF SmokeSendsBack, MoveOrRaise, RecordsTyped
  <2> QED
    BY <2>1, <2>2, <2>3
<1> QED
  BY <1>4, <1>5

LEMMA FinishedIsGoneNext ==
  ASSUME Typed, Books, Minds, OfClosedPeriods, FinishedIsGone, Lasts, [Next]_vars
  PROVE  FinishedIsGone'
<1> SUFFICES ASSUME Proper', Barring({"late"})', NEW p \in Periods, roll'[p] = "DONE", p \in branches'
             PROVE  doing'[Finish].at \in {"gather", "retarget", "delete"} /\ doing'[Finish].period = p
  BY DEF FinishedIsGone
<1>1. Proper /\ Barring({"late"}) /\ Calm /\ Calm' /\ Barring({"displaced"})' /\ RecordsTyped
  BY TypedFacts, CalmBefore DEF Proper, Calm
<1>2. CASE roll[p] # "DONE"
  BY <1>1, <1>2, RollMoves
<1>3. CASE roll[p] = "DONE"
  <2>1. p \in branches
    <3> SUFFICES ASSUME p \notin branches PROVE FALSE
      OBVIOUS
    <3>1. StartsPeriod /\ p = CalendarPeriod
      <4>1. "late" \notin mishaps'
        BY DEF Barring
      <4> QED
        BY <1>1, <1>3, <4>1, BranchesMove
    <3>2. p > closedThrough
      BY <3>1 DEF StartsPeriod
    <3>3. p <= closedThrough /\ p \in Int /\ closedThrough \in Int
      BY <1>1, <1>3, BoundsAssumption DEF OfClosedPeriods, RecordsTyped, Periods, None
    <3> QED
      BY <3>2, <3>3
  <2>2. doing[Finish].at \in {"gather", "retarget", "delete"} /\ doing[Finish].period = p
    BY <1>1, <1>3, <2>1 DEF FinishedIsGone
  <2>3. CASE FinishGathers
    <3>1. rollup.period = p
      BY <1>1, <2>2, <2>3, GathersThere
    <3> QED
      BY <2>3, <3>1, GathersAll DEF Periods, None
  <2>4. CASE FinishDeletes
    BY <1>1, <2>2, <2>4, DeleteAll DEF FinishDeletes
  <2>5. CASE ~FinishGathers /\ ~FinishDeletes
    <3>1. CASE FinishStep
      BY <2>2, <2>5, <3>1, FinishMovesOn DEF Keeps
    <3> QED
      BY <1>1, <2>2, <3>1, FinisherMoves
  <2> QED
    BY <2>3, <2>4, <2>5
<1> QED
  BY <1>2, <1>3

LEMMA DoneStays ==
  ASSUME Typed, [Next]_vars, NEW c \in Children, state[c] = "DONE"
  PROVE  state'[c] = "DONE"
<1>1. RecordsTyped
  BY TypedFacts
<1>2. CASE MergeRefused \/ AnswerLost \/ RecordsIntegrated \/ ExcludeBlocks \/ FinishGathers
  BY <1>1, <1>2 DEF MergeRefused, AnswerLost, RecordsIntegrated, ExcludeBlocks, FinishGathers, MoveOrRaise, MayBecome, RecordsTyped
<1>3. ASSUME NEW d \in Children, OpensPR(d) \/ Reconciles(d) \/ Readies(d) \/ SmokeSendsBack(d)
      PROVE  state'[c] = "DONE"
  BY <1>1, <1>3 DEF OpensPR, Reconciles, Readies, SmokeSendsBack, MoveOrRaise, MayBecome, RecordsTyped
<1>4. state' = state \/ StateChanges
  BY WhoTouches DEF Touched
<1> QED
  BY <1>2, <1>3, <1>4 DEF StateChanges

LEMMA FinishedIsDoneNext ==
  ASSUME RInv, CarriedIsIntegrated, FinishedIsDone, Lasts, [Next]_vars
  PROVE  FinishedIsDone'
<1> SUFFICES ASSUME Clean', NEW p \in Periods, roll'[p] = "DONE",
                    ~(doing'[Finish].at = "gather" /\ doing'[Finish].period = p), NEW c \in on'[p]
             PROVE  state'[c] = "DONE"
  BY DEF FinishedIsDone
<1>1. /\ KInv /\ Placed /\ Books /\ OnList /\ Typed /\ RecordsTyped
      /\ Clean /\ Calm /\ Calm' /\ Barring({"kept"}) /\ Barring({"displaced"})' /\ "late" \notin mishaps'
  BY TypedFacts, CalmBefore DEF RInv, DInv, KInv, Clean, Calm, Barring
<1>2. roll[p] = "DONE"
  BY <1>1, RollMoves
<1>3. c \in on[p] /\ c \in Children
  <2>1. c \in on[p]
    <3> SUFFICES ASSUME c \notin on[p] PROVE FALSE
      OBVIOUS
    <3>1. MergesChild /\ p = base[Subject]
      BY <1>1, OnMoves
    <3>2. Befalls(TooLate(p))
      BY <3>1 DEF MergesChild, Periods, None
    <3> QED
      BY <1>1, <1>2, <3>2 DEF TooLate, Befalls
  <2> QED
    BY <1>1, <2>1 DEF RecordsTyped
<1>4. CASE state[c] = "DONE"
  BY <1>1, <1>3, <1>4, DoneStays
<1>5. CASE state[c] # "DONE"
  <2>1. doing[Finish].at = "gather" /\ doing[Finish].period = p
    BY <1>1, <1>2, <1>3, <1>5 DEF FinishedIsDone
  <2>2. FinishGathers
    <3>1. FinishStep
      BY <1>1, <2>1, FinisherMoves
    <3> QED
      BY <1>1, <2>1, <3>1, FinishMovesOn
  <2>3. Behind(p) = {} /\ rollup.period = p /\ rollup.children # {} /\ ~Gone(rollup.period)
    BY <1>1, <2>1, <2>2, GathersThere
  <2>4. ~(Held /\ Target = p)
    BY <2>3, NotBehind
  <2>5. c \in rollup.children
    BY <1>1, <1>3, <2>3, <2>4 DEF OnList, Periods, None
  <2>6. state[c] = "INTEGRATED"
    <3>1. ~(doing[Tick].at = "record" /\ c = Subject)
      <4> SUFFICES ASSUME doing[Tick].at = "record", c = Subject PROVE FALSE
        OBVIOUS
      <4>1. p = Target
        BY <1>1, <1>3 DEF Placed, HeldThere, Held
      <4> QED
        BY <2>4, <4>1 DEF Held
    <3> QED
      BY <1>1, <1>3, <1>5, <3>1 DEF CarriedIsIntegrated
  <2> QED
    BY <1>3, <2>2, <2>3, <2>5, <2>6 DEF FinishGathers
<1> QED
  BY <1>4, <1>5

(* What a finished rollup carried is DONE, and its branch is gone.          *)
LInv == RInv /\ OfClosedPeriods /\ CarriedIsIntegrated /\ FinishedIsGone /\ FinishedIsDone

LEMMA LInvInit == Init => LInv
<1> SUFFICES ASSUME Init PROVE LInv
  OBVIOUS
<1>1. doing[Tick].at = "idle" /\ doing[Order].at = "idle"
  BY RestingType, ActorsApart DEF Init
<1>2. OfClosedPeriods /\ CarriedIsIntegrated /\ FinishedIsGone /\ FinishedIsDone
  BY <1>1 DEF Init, OfClosedPeriods, CarriedIsIntegrated, FinishedIsGone, FinishedIsDone
<1> QED
  BY <1>2, RInvInit DEF LInv

LEMMA LInvNext == LInv /\ [Next]_vars => LInv'
<1> SUFFICES ASSUME LInv, [Next]_vars PROVE LInv'
  OBVIOUS
<1>1. /\ RInv /\ OfClosedPeriods /\ CarriedIsIntegrated /\ FinishedIsGone /\ FinishedIsDone
      /\ KInv /\ Typed /\ Placed /\ Books /\ Minds
  BY DEF LInv, RInv, DInv, KInv
<1>2. RInv' /\ Lasts /\ Typed'
  BY <1>1, RInvNext, LastsNext, TypedNext
<1> QED
  BY <1>1, <1>2, OfClosedNext, CarriedNext, FinishedIsGoneNext, FinishedIsDoneNext DEF LInv

(* Once _finish_rollup is through with a merged rollup, every change it     *)
(* carried is DONE and its branch is gone.                                  *)
THEOREM LandedRollupIsDone == Spec => []LandedIsDone
<1>1. ASSUME LInv PROVE LandedIsDone
  <2> SUFFICES ASSUME AtRest, Clean, NEW p \in Periods, roll[p] = "DONE"
               PROVE  p \notin branches /\ \A c \in on[p] : state[c] = "DONE"
    BY DEF LandedIsDone, Clean
  <2>1. doing[Finish].at = "idle"
    BY ActorsApart DEF AtRest, Idle, At
  <2>2. Proper /\ Barring({"late"})
    BY DEF Clean, Proper, Calm, Barring
  <2> QED
    BY <1>1, <2>1, <2>2 DEF LInv, FinishedIsGone, FinishedIsDone
<1> QED
  BY LInvInit, LInvNext, <1>1, PTL DEF Spec

=============================================================================
