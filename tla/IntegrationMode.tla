-------------------------- MODULE IntegrationMode --------------------------
(***************************************************************************)
(* Protected periods of the agent team: while one is on, the Team Lead     *)
(* merges every validated child into the period's integration branch; when *)
(* it ends, one rollup PR carries the branch to main, where only the owner *)
(* merges; then every integrated child is DONE and the branch is deleted.  *)
(*                                                                         *)
(* Five kinds of actors share the records: the orchestrator's tick, the    *)
(* smoke thread of each child, the thread that finishes a merged rollup,   *)
(* and one order of another process (agentctl, the Telegram service).  The *)
(* records are JSON values in the meta table, read in one statement and    *)
(* written back in another; nothing holds a lock in between.               *)
(*                                                                         *)
(* A child's life before its gates are green is in IssueLifecycle; heads,  *)
(* gates and the owner's merge as such are in MergeGate.                   *)
(***************************************************************************)
EXTENDS Integers, FiniteSets

CONSTANTS
  Children,
  MaxPeriods,    \* protected periods of the calendar (bound)
  MaxTroubles    \* kills, red smokes, refusals and orders (bound)

VARIABLES
  day,           \* odd: an ordinary day; 2p: a day of period p
  period, closedThrough, integrations, rollup,  \* meta rows
  mine,          \* self.period of the orchestrator process
  state,         \* the children's records
  roll,          \* the rollup issue of each period
  pr, base,      \* the children's pull requests on GitHub
  branches,      \* the integration branches that exist
  on,            \* what each one carries beyond main
  main,          \* the children whose change is on main
  stale,         \* rollups whose head moved since their gates were green
  tree,          \* the branch the worktree 0-integration is on
  doing,         \* each actor: its next step and what it has read
  troubles,      \* bounded
  mishaps        \* history: what went wrong that no guard of the code catches

meta   == <<period, closedThrough, integrations, rollup>>
github == <<pr, base, branches, on, main, stale>>
vars   == <<day, meta, mine, state, roll, github, tree, doing, troubles, mishaps>>

ASSUME BoundsAssumption == MaxPeriods \in Nat \ {0} /\ MaxTroubles \in Nat

Periods  == 1 .. MaxPeriods
None     == 0                    \* no period, or main as a base
Nobody   == "nobody"
Entries  == [issue : Children, branch : Periods]
Rollups  == [period : Periods \cup {None}, children : SUBSET Children]
NoRollup == [period |-> None, children |-> {}]
Tick     == <<"tick">>
Finish   == <<"finish">>
Order    == <<"order">>
Smoke(c) == <<"smoke", c>>
Threads  == {Tick, Finish} \cup {Smoke(c) : c \in Children}
Actors   == Threads \cup {Order}
Resting  == [at |-> "idle", child |-> Nobody, period |-> None, list |-> {}, info |-> NoRollup]

-----------------------------------------------------------------------------
Does(a, next)   == doing' = [doing EXCEPT ![a] = next]
Goes(a, step)   == Does(a, [doing[a] EXCEPT !.at = step])
Ends(a)         == doing' = [doing EXCEPT ![a] = Resting]
At(a, step)     == doing[a].at = step
Idle(a)         == At(a, "idle")
Befalls(what)   == mishaps' = mishaps \cup what
Trouble         == troubles < MaxTroubles /\ troubles' = troubles + 1
OfBranch(p)     == {e \in integrations : e.branch = p}
IssuesOf(es)    == {e.issue : e \in es}
Without(es, c)  == {e \in es : e.issue # c}

(* state_machine.py, as far as children move here.                          *)
MayBecome(c, to) ==
  to \in CASE state[c] = "REVIEW"          -> {"INTEGRATED", "READY_FOR_OWNER", "FIX_REQUIRED", "BLOCKED"}
           [] state[c] = "READY_FOR_OWNER" -> {"INTEGRATED", "FIX_REQUIRED", "BLOCKED"}
           [] state[c] = "INTEGRATED"      -> {"DONE", "FIX_REQUIRED", "BLOCKED"}
           [] state[c] = "FIX_REQUIRED"    -> {"REVIEW", "BLOCKED"}
           [] state[c] = "BLOCKED"         -> {"REVIEW", "FIX_REQUIRED", "DONE", "INTEGRATED"}
           [] OTHER                        -> {}
MoveOrRaise(c, to) ==
  state' = IF MayBecome(c, to) THEN [state EXCEPT ![c] = to] ELSE state

(* A record that is written back although it changed since it was read.     *)
Overlap(read, now) == IF read = now THEN {} ELSE {"overlap"}

(* A branch's records are used while another actor has changed the branch   *)
(* and not yet them.                                                        *)
Halfway(a) == doing[a].at \in {"record", "read", "add", "ask", "carry", "forget", "erase", "back",
                               "strike", "unlist", "exclude"}
Behind(p) == IF \E a \in Actors : Halfway(a) /\ doing[a].period = p THEN {"overlap"} ELSE {}

(* What is done to a branch whose rollup the owner has merged already.      *)
TooLate(p) == IF roll[p] \in {"MERGED", "DONE"} THEN {"late"} ELSE {}

-----------------------------------------------------------------------------
(* check_period in the tick: follow an end from another process, start the  *)
(* calendar's period unless it was ended early, end the one that is over.   *)

(* Mutant: the eve belongs to the period.                                   *)
CalendarPeriodEve == (day + 1) \div 2
CalendarPeriod == IF day % 2 = 0 THEN day \div 2 ELSE None

FollowsEnd ==
  /\ Idle(Tick) /\ mine # None /\ period = None
  /\ mine' = None
  /\ UNCHANGED <<day, meta, state, roll, github, tree, doing, troubles, mishaps>>

StartsPeriod ==
  /\ Idle(Tick) /\ mine = None
  /\ CalendarPeriod > closedThrough
  /\ mine' = CalendarPeriod /\ period' = CalendarPeriod
  /\ branches' = branches \cup {CalendarPeriod}
  /\ UNCHANGED <<day, closedThrough, integrations, rollup, state, roll, pr, base, on, main, stale,
                 tree, doing, troubles, mishaps>>

(* end_period, by the tick or by agentctl period end (an order).            *)
ReadsChildren(a, p) == Does(a, [doing[a] EXCEPT !.at = "close", !.period = p, !.list = OfBranch(p)])

TickEndsPeriod ==
  /\ Idle(Tick) /\ mine # None /\ period # None /\ day > 2 * mine
  /\ ReadsChildren(Tick, mine)
  /\ mine' = None
  /\ UNCHANGED <<day, meta, state, roll, github, tree, troubles, mishaps>>

OrderEndsPeriod ==
  /\ Idle(Order) /\ period # None /\ Trouble
  /\ ReadsChildren(Order, period)
  /\ UNCHANGED <<day, meta, mine, state, roll, github, tree, mishaps>>

(* By then a later period may be on, or closed: neither row is looked at    *)
(* again before it is written.                                              *)
Closes(a) ==
  /\ At(a, "close")
  /\ period' = None
  /\ Befalls(IF period \in {None, doing[a].period} THEN {} ELSE {"overlap"})
  /\ Goes(a, "mark")
  /\ UNCHANGED <<day, closedThrough, integrations, rollup, mine, state, roll, github, tree, troubles>>

MarksClosed(a) ==
  /\ At(a, "mark")
  /\ closedThrough' = doing[a].period
  /\ Befalls(IF closedThrough > doing[a].period THEN {"overlap"} ELSE {})
  /\ Goes(a, "look")
  /\ UNCHANGED <<day, period, integrations, rollup, mine, state, roll, github, tree, troubles>>

LooksForRollup(a) ==
  /\ At(a, "look")
  /\ Does(a, [doing[a] EXCEPT
                 !.info = rollup,
                 !.at = IF rollup.period = doing[a].period THEN "refresh"
                        ELSE IF doing[a].list = {} THEN "drop" ELSE "open"])
  /\ UNCHANGED <<day, meta, mine, state, roll, github, tree, troubles, mishaps>>

Listed(a) == IssuesOf(doing[a].list)
Missed(a) == Overlap(doing[a].list, OfBranch(doing[a].period)) \cup Behind(doing[a].period)

RefreshesRollup(a) ==
  /\ At(a, "refresh")
  /\ rollup' = [doing[a].info EXCEPT !.children = Listed(a)]
  /\ Befalls(Overlap(doing[a].info, rollup) \cup Missed(a))
  /\ Ends(a)
  /\ UNCHANGED <<day, period, closedThrough, integrations, mine, state, roll, github, tree, troubles>>

(* GitHub closes the open pull requests of a branch that is deleted; nobody *)
(* asks whether the deletion worked.                                        *)
Delete(b, mishap) ==
  \/ /\ branches' = branches \ {b}
     /\ pr' = [c \in Children |-> IF pr[c] = "open" /\ base[c] = b THEN "closed" ELSE pr[c]]
     /\ Befalls(mishap) /\ UNCHANGED troubles
  \/ Trouble /\ Befalls(mishap \cup {"cut"}) /\ UNCHANGED <<branches, pr>>

DropsBranch(a) ==
  /\ At(a, "drop")
  /\ Delete(doing[a].period, Missed(a))
  /\ Ends(a)
  /\ UNCHANGED <<day, meta, mine, state, roll, base, on, main, stale, tree>>

(* The rollup's issue, pull request and record; GitHub may refuse, and does *)
(* when the branch is gone or has its pull request already.                 *)
OpensRollup(a) ==
  /\ At(a, "open")
  /\ roll[doing[a].period] = "none" /\ doing[a].period \in branches
  /\ roll' = [roll EXCEPT ![doing[a].period] = "CI"]
  /\ Goes(a, "file")
  /\ UNCHANGED <<day, meta, mine, state, github, tree, troubles, mishaps>>

RollupRefused(a) ==
  /\ At(a, "open")
  /\ IF roll[doing[a].period] = "none" /\ doing[a].period \in branches
     THEN Trouble /\ Befalls({"cut"})
     ELSE UNCHANGED <<troubles, mishaps>>
  /\ Ends(a)
  /\ UNCHANGED <<day, meta, mine, state, roll, github, tree>>

FilesRollup(a) ==
  /\ At(a, "file")
  /\ rollup' = [period |-> doing[a].period, children |-> Listed(a)]
  /\ Befalls(Missed(a) \cup IF rollup = NoRollup THEN {} ELSE {"displaced"})
  /\ Ends(a)
  /\ UNCHANGED <<day, period, closedThrough, integrations, mine, state, roll, github, tree, troubles>>

EndPeriod(a) ==
  \/ Closes(a) \/ MarksClosed(a) \/ LooksForRollup(a) \/ RefreshesRollup(a)
  \/ DropsBranch(a) \/ OpensRollup(a) \/ RollupRefused(a) \/ FilesRollup(a)

-----------------------------------------------------------------------------
(* A child.  REVIEW stands for everything between its PR and green gates.   *)

(* _pr_base_for_worktree: the process's base, or the pending rollup's       *)
(* branch if the worktree started from it.                                  *)
OpensPR(c) ==
  /\ state[c] \in {"WORKING", "FIX_REQUIRED"}
  /\ state' = [state EXCEPT ![c] = "REVIEW"]
  /\ pr' = [pr EXCEPT ![c] = "open"]
  /\ \E b \in ({mine} \cup ({rollup.period} \cap branches)) \cap (branches \cup {None}) :
       base' = [base EXCEPT ![c] = b]
  /\ UNCHANGED <<day, meta, mine, roll, branches, on, main, stale, tree, doing, troubles, mishaps>>

(* reconcile: a PR merged or closed under the record blocks it.             *)
Reconciles(c) ==
  /\ Idle(Tick) /\ state[c] \in {"REVIEW", "READY_FOR_OWNER"} /\ pr[c] \in {"merged", "closed"}
  /\ state' = [state EXCEPT ![c] = "BLOCKED"]
  /\ UNCHANGED <<day, meta, mine, roll, github, tree, doing, troubles, mishaps>>

Late(c) == mine = None /\ base[c] # None /\ rollup.period = base[c]

(* Every gate is green: integrate, or (no period) hand it to the owner.     *)
Readies(c) ==
  /\ Idle(Tick) /\ state[c] = "REVIEW" /\ pr[c] = "open"
  /\ mine = None /\ ~Late(c)
  /\ state' = [state EXCEPT ![c] = "READY_FOR_OWNER"]
  /\ UNCHANGED <<day, meta, mine, roll, github, tree, doing, troubles, mishaps>>

(* Mutant: the pull request keeps the base it was opened with.              *)
AimsAsOpened(c) ==
  /\ Idle(Tick) /\ state[c] = "REVIEW" /\ pr[c] = "open"
  /\ mine # None \/ Late(c)
  /\ Does(Tick, [doing[Tick] EXCEPT !.at = "merge", !.child = c,
                                    !.period = IF mine # None THEN mine ELSE rollup.period])
  /\ UNCHANGED <<day, meta, mine, state, roll, github, tree, troubles, mishaps>>

Aims(c) ==
  /\ Idle(Tick) /\ state[c] = "REVIEW" /\ pr[c] = "open"
  /\ mine # None \/ Late(c)
  /\ LET p == IF mine # None THEN mine ELSE rollup.period
     IN  /\ base[c] = p \/ p \in branches
         /\ base' = [base EXCEPT ![c] = p]
         /\ Does(Tick, [doing[Tick] EXCEPT !.at = "merge", !.child = c, !.period = p])
  /\ UNCHANGED <<day, meta, mine, state, roll, pr, branches, on, main, stale, tree, troubles, mishaps>>

Subject == doing[Tick].child
Target  == doing[Tick].period

(* GitHub merges into the base the PR has by then, or refuses; and when it  *)
(* has merged, its answer may be lost on the way.                           *)
MergesChild ==
  /\ At(Tick, "merge")
  /\ pr[Subject] = "open"
  /\ pr' = [pr EXCEPT ![Subject] = "merged"]
  /\ LET b == base[Subject]
     IN  IF b = None
         THEN main' = main \cup {Subject} /\ Befalls({"late"}) /\ UNCHANGED <<on, stale>>
         ELSE /\ on' = [on EXCEPT ![b] = @ \cup {Subject}]
              /\ stale' = stale \cup {b}
              /\ Befalls(TooLate(b)) /\ UNCHANGED main
  /\ Goes(Tick, "record")
  /\ UNCHANGED <<day, meta, mine, state, roll, base, branches, tree, troubles>>

MergeRefused ==
  /\ At(Tick, "merge")
  /\ IF pr[Subject] = "open" THEN Trouble ELSE UNCHANGED troubles
  /\ MoveOrRaise(Subject, "BLOCKED")
  /\ Ends(Tick)
  /\ UNCHANGED <<day, meta, mine, roll, github, tree, mishaps>>

(* Any failed call is a GitHubError: the child is blocked, its change stays *)
(* on the branch, on no record.                                             *)
AnswerLost ==
  /\ At(Tick, "record") /\ Trouble
  /\ MoveOrRaise(Subject, "BLOCKED")
  /\ Befalls({"cut"})
  /\ Ends(Tick)
  /\ UNCHANGED <<day, meta, mine, roll, github, tree>>

RecordsIntegrated ==
  /\ At(Tick, "record")
  /\ MoveOrRaise(Subject, "INTEGRATED")
  /\ IF MayBecome(Subject, "INTEGRATED") THEN Goes(Tick, "read") ELSE Ends(Tick)
  /\ UNCHANGED <<day, meta, mine, roll, github, tree, troubles, mishaps>>

ReadsIntegrations(a, from, to) ==
  /\ At(a, from)
  /\ Does(a, [doing[a] EXCEPT !.at = to, !.list = integrations])
  /\ UNCHANGED <<day, meta, mine, state, roll, github, tree, troubles, mishaps>>

AddsIntegration ==
  /\ At(Tick, "add")
  /\ integrations' = Without(doing[Tick].list, Subject) \cup {[issue |-> Subject, branch |-> Target]}
  /\ Befalls(Overlap(doing[Tick].list, integrations))
  /\ Does(Tick, [doing[Tick] EXCEPT !.at = "ask", !.list = {}])
  /\ UNCHANGED <<day, period, closedThrough, rollup, mine, state, roll, github, tree, troubles>>

(* The smoke test of the branch runs if the heavy pool has a slot.          *)
EndsWithSmoke ==
  \/ Ends(Tick)
  \/ doing' = [doing EXCEPT ![Tick] = Resting,
                            ![Smoke(Subject)] = [Resting EXCEPT !.at = "run", !.period = Target]]

(* Mutant: a rollup that is open already is left as it is.                  *)
AsksNoRollup ==
  /\ At(Tick, "ask")
  /\ EndsWithSmoke
  /\ UNCHANGED <<day, meta, mine, state, roll, github, tree, troubles, mishaps>>

AsksRollup ==
  /\ At(Tick, "ask")
  /\ IF rollup.period = Target /\ Subject \notin rollup.children
     THEN Does(Tick, [doing[Tick] EXCEPT !.at = "carry", !.info = rollup])
     ELSE EndsWithSmoke
  /\ UNCHANGED <<day, meta, mine, state, roll, github, tree, troubles, mishaps>>

CarriesToRollup ==
  /\ At(Tick, "carry")
  /\ rollup' = [doing[Tick].info EXCEPT !.children = @ \cup {Subject}]
  /\ Befalls(Overlap(doing[Tick].info, rollup))
  /\ EndsWithSmoke
  /\ UNCHANGED <<day, period, closedThrough, integrations, mine, state, roll, github, tree, troubles>>

Integrate ==
  \/ \E c \in Children : Aims(c)
  \/ MergesChild \/ MergeRefused \/ AnswerLost \/ RecordsIntegrated
  \/ ReadsIntegrations(Tick, "read", "add") \/ AddsIntegration \/ AsksRollup \/ CarriesToRollup

-----------------------------------------------------------------------------
(* Reverting a merge goes through one worktree that stays on the branch it  *)
(* was first made for (ensure_named); a branch deleted meanwhile is pushed  *)
(* again.                                                                   *)

CanRevert(c, p) ==
  /\ c \in on[p]
  /\ \/ tree = p
     \/ tree = None /\ (p \in branches \/ roll[p] # "none")

Reverts(c, p, mishap) ==
  /\ on' = [on EXCEPT ![p] = @ \ {c}]
  /\ stale' = stale \cup {p}
  /\ branches' = branches \cup {p}
  /\ tree' = IF roll[p] = "none" THEN p ELSE tree
  /\ Befalls(TooLate(p) \cup mishap)

(* _integration_smoke_run: a red smoke reverts the merge on the branch,     *)
(* forgets the entry and sends the child back; the rollup keeps it listed.  *)

SmokeEnds(c) ==
  /\ At(Smoke(c), "run")
  /\ \/ Ends(Smoke(c)) /\ UNCHANGED troubles
     \/ Trouble /\ Goes(Smoke(c), "revert")
  /\ UNCHANGED <<day, meta, mine, state, roll, github, tree, mishaps>>

SmokeReverts(c) ==
  /\ At(Smoke(c), "revert")
  /\ CanRevert(c, doing[Smoke(c)].period)
  /\ Reverts(c, doing[Smoke(c)].period, {})
  /\ Goes(Smoke(c), "forget")
  /\ UNCHANGED <<day, meta, mine, state, roll, pr, base, main, troubles>>

(* The wrong worktree, or the revert conflicts with later merges.           *)
SmokeCannotRevert(c) ==
  /\ At(Smoke(c), "revert")
  /\ Goes(Smoke(c), "stuck")
  /\ UNCHANGED <<day, meta, mine, state, roll, github, tree, troubles, mishaps>>

Forgets(a, c, next) ==
  /\ At(a, "erase")
  /\ integrations' = Without(doing[a].list, c)
  /\ Befalls(Overlap(doing[a].list, integrations))
  /\ Does(a, [doing[a] EXCEPT !.at = next, !.list = {}])
  /\ UNCHANGED <<day, period, closedThrough, rollup, mine, state, roll, github, tree, troubles>>

(* Mutant: after a revert the child's state is forgotten.                   *)
SmokeSendsStuckBack(c) ==
  /\ doing[Smoke(c)].at \in {"back", "stuck"}
  /\ IF At(Smoke(c), "stuck") THEN MoveOrRaise(c, "BLOCKED") ELSE UNCHANGED state
  /\ Ends(Smoke(c))
  /\ UNCHANGED <<day, meta, mine, roll, github, tree, troubles, mishaps>>

SmokeSendsBack(c) ==
  /\ doing[Smoke(c)].at \in {"back", "stuck"}
  /\ MoveOrRaise(c, IF At(Smoke(c), "back") THEN "FIX_REQUIRED" ELSE "BLOCKED")
  /\ Befalls(IF At(Smoke(c), "stuck") \/ c \in rollup.children THEN {"kept"} ELSE {})
  /\ Ends(Smoke(c))
  /\ UNCHANGED <<day, meta, mine, roll, github, tree, troubles>>

SmokeStep(c) ==
  \/ SmokeEnds(c) \/ SmokeReverts(c) \/ SmokeCannotRevert(c) \/ ReadsIntegrations(Smoke(c), "forget", "erase")
  \/ Forgets(Smoke(c), c, "back") \/ SmokeSendsBack(c)

-----------------------------------------------------------------------------
(* rollup_exclude, an order: take one child out of the rollup.              *)

ExcludeBegins(c) ==
  /\ Idle(Order) /\ rollup # NoRollup /\ Trouble
  /\ \E e \in integrations :
       /\ e.issue = c
       /\ Does(Order, [doing[Order] EXCEPT !.at = "undo", !.child = c, !.period = e.branch, !.info = rollup])
  /\ UNCHANGED <<day, meta, mine, state, roll, github, tree, mishaps>>

ExcludeReverts ==
  /\ At(Order, "undo")
  /\ LET c == doing[Order].child  p == doing[Order].period
     IN  CanRevert(c, p) /\ Reverts(c, p, Behind(p))
  /\ Goes(Order, "strike")
  /\ UNCHANGED <<day, meta, mine, state, roll, pr, base, main, troubles>>

ExcludeRefused ==
  /\ At(Order, "undo")
  /\ Ends(Order)
  /\ UNCHANGED <<day, meta, mine, state, roll, github, tree, troubles, mishaps>>

ExcludeUnlists ==
  /\ At(Order, "unlist")
  /\ rollup' = [doing[Order].info EXCEPT !.children = @ \ {doing[Order].child}]
  /\ Befalls(Overlap(doing[Order].info, rollup))
  /\ Does(Order, [doing[Order] EXCEPT !.at = "exclude", !.info = NoRollup])
  /\ UNCHANGED <<day, period, closedThrough, integrations, mine, state, roll, github, tree, troubles>>

ExcludeBlocks ==
  /\ At(Order, "exclude")
  /\ LET c == doing[Order].child
     IN  state' = IF state[c] = "INTEGRATED" THEN [state EXCEPT ![c] = "BLOCKED"] ELSE state
  /\ Ends(Order)
  /\ UNCHANGED <<day, meta, mine, roll, github, tree, troubles, mishaps>>

ExcludeStep ==
  \/ ExcludeReverts \/ ExcludeRefused
  \/ ReadsIntegrations(Order, "strike", "erase")
  \/ Forgets(Order, doing[Order].child, "unlist")
  \/ ExcludeUnlists \/ ExcludeBlocks

-----------------------------------------------------------------------------
(* The rollup: validated as a whole, merged by the owner, finished.         *)

RollupReadies(p) ==
  /\ Idle(Tick) /\ roll[p] = "CI" /\ p \in branches
  /\ roll' = [roll EXCEPT ![p] = "READY_FOR_OWNER"]
  /\ stale' = stale \ {p}
  /\ UNCHANGED <<day, meta, mine, state, pr, base, branches, on, main, tree, doing, troubles, mishaps>>

RollupInvalidated(p) ==
  /\ Idle(Tick) /\ roll[p] = "READY_FOR_OWNER" /\ p \in stale
  /\ roll' = [roll EXCEPT ![p] = "CI"]
  /\ UNCHANGED <<day, meta, mine, state, github, tree, doing, troubles, mishaps>>

(* Its branch was deleted, GitHub closed its PR, reconcile blocks it.       *)
RollupClosed(p) ==
  /\ Idle(Tick) /\ roll[p] \in {"CI", "READY_FOR_OWNER"} /\ p \notin branches
  /\ roll' = [roll EXCEPT ![p] = "BLOCKED"]
  /\ UNCHANGED <<day, meta, mine, state, github, tree, doing, troubles, mishaps>>

OwnerMerges(p) ==
  /\ roll[p] = "READY_FOR_OWNER" /\ p \in branches \ stale
  /\ main' = main \cup on[p]
  /\ roll' = [roll EXCEPT ![p] = "MERGED"]
  /\ UNCHANGED <<day, meta, mine, state, pr, base, branches, on, stale, tree, doing, troubles, mishaps>>

(* Mutant: the rollup is an issue like any other.                           *)
MainSmokeEndsOnly(p) ==
  /\ roll[p] = "MERGED" /\ Idle(Finish)
  /\ roll' = [roll EXCEPT ![p] = "DONE"]
  /\ UNCHANGED <<day, meta, mine, state, github, tree, doing, troubles, mishaps>>

(* The smoke test on main ends: red blocks the rollup, green finishes it.   *)
MainSmokeEnds(p) ==
  /\ roll[p] = "MERGED" /\ Idle(Finish)
  /\ \/ /\ Trouble /\ Befalls({"cut"})
        /\ roll' = [roll EXCEPT ![p] = "BLOCKED"]
        /\ UNCHANGED doing
     \/ /\ roll' = [roll EXCEPT ![p] = "DONE"]
        /\ Does(Finish, [doing[Finish] EXCEPT !.at = "gather", !.period = p])
        /\ UNCHANGED <<troubles, mishaps>>
  /\ UNCHANGED <<day, meta, mine, state, github, tree>>

(* The one record is not that of the rollup being finished.                 *)
Displaced(p) == IF rollup.period = p /\ rollup.children # {} THEN {} ELSE {"displaced"}

(* Mutant: every integration there is counts as the rollup's.               *)
FinishGathersAll ==
  /\ At(Finish, "gather")
  /\ state' = [c \in Children |-> IF c \in IssuesOf(integrations) /\ state[c] = "INTEGRATED" THEN "DONE" ELSE state[c]]
  /\ Befalls(Behind(doing[Finish].period) \cup Displaced(doing[Finish].period))
  /\ Does(Finish, [doing[Finish] EXCEPT
                      !.at = "retarget", !.info = rollup,
                      !.period = IF rollup.period # None THEN rollup.period ELSE @])
  /\ UNCHANGED <<day, meta, mine, roll, github, tree, troubles>>

(* _finish_rollup: the children of whatever rollup is on record; an empty   *)
(* record stands for every integration there is.                            *)
FinishGathers ==
  /\ At(Finish, "gather")
  /\ LET named == IF rollup.children # {} THEN rollup.children ELSE IssuesOf(integrations)
     IN  state' = [c \in Children |-> IF c \in named /\ state[c] = "INTEGRATED" THEN "DONE" ELSE state[c]]
  /\ Befalls(Behind(doing[Finish].period) \cup Displaced(doing[Finish].period))
  /\ Does(Finish, [doing[Finish] EXCEPT
                      !.at = "retarget", !.info = rollup,
                      !.period = IF rollup.period # None THEN rollup.period ELSE @])
  /\ UNCHANGED <<day, meta, mine, roll, github, tree, troubles>>

FinishRetargets ==
  /\ At(Finish, "retarget")
  /\ \/ /\ base' = [c \in Children |-> IF pr[c] = "open" /\ base[c] = doing[Finish].period THEN None ELSE base[c]]
        /\ UNCHANGED troubles
     \/ Trouble /\ UNCHANGED base
  /\ Goes(Finish, "delete")
  /\ UNCHANGED <<day, meta, mine, state, roll, pr, branches, on, main, stale, tree, mishaps>>

FinishDeletes ==
  /\ At(Finish, "delete")
  /\ Delete(doing[Finish].period, {})
  /\ Goes(Finish, "clear")
  /\ UNCHANGED <<day, meta, mine, state, roll, base, on, main, stale, tree>>

FinishClears ==
  /\ At(Finish, "clear")
  /\ rollup' = NoRollup
  /\ Befalls(Overlap(doing[Finish].info, rollup))
  /\ Does(Finish, [doing[Finish] EXCEPT !.at = "tidy", !.info = NoRollup])
  /\ UNCHANGED <<day, period, closedThrough, integrations, mine, state, roll, github, tree, troubles>>

FinishTidies ==
  /\ At(Finish, "prune")
  /\ integrations' = {e \in doing[Finish].list : e.branch # doing[Finish].period}
  /\ Befalls(Overlap(doing[Finish].list, integrations))
  /\ Ends(Finish)
  /\ UNCHANGED <<day, period, closedThrough, rollup, mine, state, roll, github, tree, troubles>>

FinishStep ==
  \/ FinishGathers \/ FinishRetargets \/ FinishDeletes \/ FinishClears
  \/ ReadsIntegrations(Finish, "tidy", "prune") \/ FinishTidies

-----------------------------------------------------------------------------
NextDay ==
  /\ day <= 2 * MaxPeriods
  /\ day' = day + 1
  /\ UNCHANGED <<meta, mine, state, roll, github, tree, doing, troubles, mishaps>>

(* The orchestrator is killed and restarted: its threads are gone, the      *)
(* period is read from meta again.                                          *)
Kill ==
  /\ Trouble
  /\ doing' = [a \in Actors |-> IF a \in Threads THEN Resting ELSE doing[a]]
  /\ mine' = period
  /\ Befalls(IF \E a \in Threads : doing[a].at \notin {"idle", "run"} THEN {"cut"} ELSE {})
  /\ UNCHANGED <<day, meta, state, roll, github, tree>>

Init ==
  /\ day = 1 /\ period = None /\ closedThrough = 0 /\ integrations = {} /\ rollup = NoRollup
  /\ mine = None /\ state = [c \in Children |-> "WORKING"] /\ roll = [p \in Periods |-> "none"]
  /\ pr = [c \in Children |-> "none"] /\ base = [c \in Children |-> None]
  /\ branches = {} /\ on = [p \in Periods |-> {}] /\ main = {} /\ stale = {} /\ tree = None
  /\ doing = [a \in Actors |-> Resting]
  /\ troubles = 0 /\ mishaps = {}

TickStep == FollowsEnd \/ StartsPeriod \/ TickEndsPeriod \/ EndPeriod(Tick) \/ Integrate

Next ==
  \/ TickStep \/ FinishStep \/ NextDay \/ Kill
  \/ OrderEndsPeriod \/ EndPeriod(Order) \/ ExcludeStep
  \/ \E c \in Children : OpensPR(c) \/ Reconciles(c) \/ Readies(c) \/ SmokeStep(c) \/ ExcludeBegins(c)
  \/ \E p \in Periods : RollupReadies(p) \/ RollupInvalidated(p) \/ RollupClosed(p) \/ OwnerMerges(p) \/ MainSmokeEnds(p)

Spec == Init /\ [][Next]_vars

-----------------------------------------------------------------------------
(* Every variable has the values the code can store or reach.               *)
Steps == {"idle", "close", "mark", "look", "refresh", "drop", "open", "file",
          "merge", "record", "read", "add", "ask", "carry", "run", "revert", "forget", "erase", "back", "stuck",
          "undo", "strike", "unlist", "exclude", "gather", "retarget", "delete", "clear", "tidy", "prune"}
TypeOK ==
  /\ day \in 1 .. 2 * MaxPeriods + 1 /\ troubles \in 0 .. MaxTroubles
  /\ {period, closedThrough, mine, tree} \subseteq Periods \cup {None}
  /\ integrations \subseteq Entries /\ rollup \in Rollups
  /\ state \in [Children -> {"WORKING", "REVIEW", "READY_FOR_OWNER", "INTEGRATED", "FIX_REQUIRED", "BLOCKED", "DONE"}]
  /\ roll \in [Periods -> {"none", "CI", "READY_FOR_OWNER", "MERGED", "DONE", "BLOCKED"}]
  /\ pr \in [Children -> {"none", "open", "merged", "closed"}] /\ base \in [Children -> Periods \cup {None}]
  /\ branches \subseteq Periods /\ stale \subseteq Periods
  /\ on \in [Periods -> SUBSET Children] /\ main \subseteq Children
  /\ doing \in [Actors -> [at : Steps, child : Children \cup {Nobody}, period : Periods \cup {None},
                           list : SUBSET Entries, info : Rollups]]
  /\ mishaps \subseteq {"cut", "overlap", "late", "displaced", "kept"}

(* The mishaps.  "cut": a step of several was not reached (a kill, GitHub's *)
(* refusal, a lost answer, a red smoke test on main).  "overlap": a record  *)
(* was written back or acted on while another actor had changed it, or its  *)
(* branch.                                                                  *)
(* "late": a branch changed after the owner had merged its rollup, or a     *)
(* child's pull request was turned to main under the Team Lead's merge.     *)
(* "displaced": the one rollup record was not, or not any more, that of the *)
(* rollup being finished.  "kept": a child sent back stayed listed in the   *)
(* rollup, or one blocked after its smoke test stayed on the branch.        *)
Barring(these) == mishaps \cap these = {}
AtRest == \A a \in Actors : Idle(a)

(* A child that is DONE is on main: no sequence of integrations, reverts,   *)
(* rollups, exclusions, ends of period and kills declares work finished     *)
(* that never arrived, unless one of these mishaps met it.                  *)
DoneIsOnMain ==
  Barring({"late", "displaced", "kept", "overlap", "cut"}) => \A c \in Children : state[c] = "DONE" => c \in main

(* Integrated work is never lost: between two actors' dealings with its     *)
(* branch, a child is INTEGRATED only while main or a branch that exists    *)
(* carries its change.                                                      *)
WorkSurvives ==
  Barring({"late", "displaced", "overlap", "cut"}) /\ (\A a \in Actors : ~Halfway(a)) =>
    \A c \in Children : state[c] = "INTEGRATED" => c \in main \/ \E b \in branches : c \in on[b]

(* Whenever nobody is at work: an integration on record is on its branch, a *)
(* closed period with work on record has its rollup, and the pending rollup *)
(* names just what its branch carries.                                      *)
RecordsMatchBranches ==
  AtRest =>
    /\ Barring({"late", "overlap", "cut"}) => \A e \in integrations : e.issue \in on[e.branch]
    /\ Barring({"overlap", "cut"}) =>
         \A p \in 1 .. closedThrough : p # period /\ OfBranch(p) # {} => roll[p] # "none"
    /\ LET p == rollup.period
       IN  Barring({"kept", "overlap", "cut"}) /\ p \notin {None, period} /\ roll[p] \in {"CI", "READY_FOR_OWNER"}
             => rollup.children = on[p]

(* Once a merged rollup is finished, every change it carried is DONE and    *)
(* its branch is gone.                                                      *)
LandedIsDone ==
  AtRest /\ Barring({"late", "displaced", "kept", "overlap", "cut"}) =>
    \A p \in Periods : roll[p] = "DONE" => p \notin branches /\ \A c \in on[p] : state[c] = "DONE"

(* What reaches main came with a rollup whose branch had not moved since    *)
(* its gates were green, and only the owner brought it there: the Team Lead *)
(* merges "into an integration branch (never main)" (orchestrator.py:1373). *)
(* The code does not keep this: see MainIsTheOwnersUnlessTurned.            *)
MainIsTheOwners == [][
  \A c \in main' \ main : \E p \in Periods \ stale : roll[p] = "READY_FOR_OWNER" /\ c \in on[p]]_vars

(* The Team Lead's own merge reaches main at most in one way: in between    *)
(* its look at the base and the merge, _finish_rollup of the very branch it *)
(* merges into turned the pull request to main.                             *)
MainIsTheOwnersUnlessTurned == [][
  \A c \in main' \ main :
    \/ \E p \in Periods \ stale : roll[p] = "READY_FOR_OWNER" /\ c \in on[p]
    \/ At(Tick, "merge") /\ c = Subject /\ (roll[Target] = "DONE" \/ "displaced" \in mishaps)]_vars
=============================================================================
