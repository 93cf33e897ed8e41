--------------------------- MODULE IssueLifecycle ---------------------------
(***************************************************************************)
(* The agent team's issues from QUEUED to DONE: the orchestrator's tick in *)
(* its main thread, one worker and one reviewer thread per issue, the team *)
(* lead's agentctl commands and the owner's decisions in other processes,  *)
(* all on one SQLite store.  Every step is one store transaction with the  *)
(* reads before it that nothing else can change; what a handler read       *)
(* before a network call, an agent run or another transaction may be old   *)
(* when it acts.  The orchestrator may be stopped or killed between any    *)
(* two steps, and agent processes run in sessions of their own: they       *)
(* outlive a killed orchestrator.                                          *)
(*                                                                         *)
(* Heads, gates and the merge itself are refined in MergeGate; the         *)
(* INTEGRATED state of a protected period is left out.                     *)
(***************************************************************************)
EXTENDS Integers, FiniteSets

CONSTANTS
  Issues, Locks,
  Contracts,          \* per issue, the effective_locks its contract may ask for
  MaxRepairAttempts,  \* repairs on top of the first worker run
  MaxWorkers, MaxReviewers,
  MaxStops,           \* kills and drains of the orchestrator (bound)
  MaxInterventions    \* lead and owner orders, edits and closings (bound)

VARIABLES
  state, attempt, verdict,    \* columns of the issue's record
  pr,                         \* issues that have a pull request
  assigned,                   \* issues with assigned_agent set
  needs,                      \* effective_locks of the stored contract
  rows,                       \* the locks table
  paused,                     \* meta scheduler_paused
  closed,                     \* issues closed on GitHub from outside
  heartbeat,                  \* per issue: never beaten, fresh, or too old
  outdated,                   \* issues whose reviewer reads a head since replaced
  proc,                       \* the orchestrator process
  main,                       \* what its main thread is doing
  worker, reviewer,           \* its threads, per issue
  orphan,                     \* agents a killed orchestrator left running
  command,                    \* the agentctl or owner command in progress
  stops, interventions,       \* bounded
  ordered,                    \* history: runs bought by an order, or by a review
                              \* that acts after the budget it looked at is spent
  standing,                   \* history: lead blocks that met nobody's hand
  loosened                    \* history: issues whose claim to their locks an order,
                              \* a closing, a review or an old heartbeat ended, or
                              \* whose contract was edited after they were granted

record  == <<state, attempt, verdict, pr, assigned>>
store   == <<record, needs, rows, paused>>
threads == <<main, worker, reviewer>>
outside == <<closed, heartbeat, orphan>>
history == <<ordered, standing, loosened>>
bounds  == <<stops, interventions>>
vars    == <<store, outside, outdated, proc, threads, command, bounds, history>>

Table == INSTANCE LockTable

ASSUME ContractsAssumption ==
  /\ Contracts \in [Issues -> SUBSET SUBSET Table!Wishes]
  /\ \A i \in Issues : \A wanted \in Contracts[i] : \A w, v \in wanted : w.name = v.name => w = v
ASSUME BoundsAssumption ==
  /\ MaxRepairAttempts \in Nat /\ MaxWorkers \in Nat \ {0} /\ MaxReviewers \in Nat \ {0}
  /\ MaxStops \in Nat /\ MaxInterventions \in Nat

-----------------------------------------------------------------------------
(* state_machine.py                                                         *)
States ==
  {"QUEUED", "CLAIMED", "WORKING", "PR_OPEN", "CI", "REVIEW", "FIX_REQUIRED",
   "BLOCKED", "READY_FOR_OWNER", "MERGED", "DONE"}

Transitions == [s \in States |->
  CASE s = "QUEUED"          -> {"CLAIMED", "BLOCKED"}
    [] s = "CLAIMED"         -> {"WORKING", "PR_OPEN", "QUEUED", "BLOCKED"}
    [] s = "WORKING"         -> {"PR_OPEN", "QUEUED", "BLOCKED"}
    [] s = "PR_OPEN"         -> {"CI", "BLOCKED"}
    [] s = "CI"              -> {"REVIEW", "FIX_REQUIRED", "BLOCKED"}
    [] s = "REVIEW"          -> {"READY_FOR_OWNER", "FIX_REQUIRED", "BLOCKED", "CI"}
    [] s = "FIX_REQUIRED"    -> {"WORKING", "BLOCKED"}
    [] s = "READY_FOR_OWNER" -> {"MERGED", "CI", "FIX_REQUIRED", "BLOCKED"}
    [] s = "MERGED"          -> {"DONE", "BLOCKED"}
    [] s = "BLOCKED"         -> {"QUEUED", "PR_OPEN", "FIX_REQUIRED", "DONE"}
    [] s = "DONE"            -> {}]

ResourceHolding == States \ {"QUEUED", "BLOCKED", "DONE"}

(* transition(): legal from the state on disk, and with allowed_from only   *)
(* from there.  Otherwise it raises and nothing changes.                    *)
Legal(i, to)       == to \in Transitions[state[i]]
Move(i, to)        == state' = [state EXCEPT ![i] = to]
MoveOrRaise(i, to) == IF Legal(i, to) THEN Move(i, to) ELSE UNCHANGED state

Holds(i)      == \E r \in rows : r.issue = i

GiveBack(i)   == rows' = {r \in rows : r.issue # i}

(* Mutant: a lock that is held shared is given to anybody.                  *)
BlockingExclusive(i, w) == {r \in rows : r.name = w.name /\ r.issue # i /\ r.mode = "exclusive"}

Blocking(i, w) ==
  {r \in rows : r.name = w.name /\ r.issue # i /\ (w.mode = "exclusive" \/ r.mode = "exclusive")}
CanLock(i, wanted)  == \A w \in wanted : Blocking(i, w) = {}
Replaced(i, wanted) == {r \in rows : r.issue = i /\ \E w \in wanted : w.name = r.name}
Acquire(i, wanted)  == /\ rows' = (rows \ Replaced(i, wanted)) \cup Table!RowsOf(i, wanted)
                       /\ loosened' = loosened \ {i}
TakeAway(i)   == GiveBack(i) /\ loosened' = loosened \cup {i}
SetMain(i, j) == main' = [main EXCEPT ![i] = j]
SetWorker(i, w)   == worker' = [worker EXCEPT ![i] = w]
SetReviewer(i, r) == reviewer' = [reviewer EXCEPT ![i] = r]

(* Mutant: one repair too many.                                             *)
AttemptsRemainingPlusOne(i) == attempt[i] <= MaxRepairAttempts + 1 /\ MaxRepairAttempts > 0
AttemptsRemaining(i) == attempt[i] <= MaxRepairAttempts /\ MaxRepairAttempts > 0
WorkersRunning   == {i \in Issues : state[i] = "WORKING"}
ReviewersRunning == {i \in assigned : state[i] = "REVIEW"}

(* Mutant: the verdict is kept, marked.                                     *)
NewHeadMarks(i) ==
  /\ verdict' = [verdict EXCEPT ![i] = "stale"]
  /\ outdated' = IF reviewer[i] = "none" THEN outdated ELSE outdated \cup {i}

(* The head of the PR moves: a stored verdict names another one now, and so *)
(* does the verdict a running reviewer will give.                           *)
NewHead(i) ==
  /\ verdict' = [verdict EXCEPT ![i] = "none"]
  /\ outdated' = IF reviewer[i] = "none" THEN outdated ELSE outdated \cup {i}

Buys(i) == ordered' = [ordered EXCEPT ![i] = @ + 1]

(* Somebody outside does something: an order, an edit of the issue, a rate  *)
(* limit.                                                                   *)
Intervene == interventions < MaxInterventions /\ interventions' = interventions + 1

(* refresh_contract with a live contract that validates: the one stored, or *)
(* one edited since, which is stored.  Nothing is done about locks already  *)
(* held, so they are those of the contract before.                          *)
Reads(i, wanted) ==
  /\ needs' = [needs EXCEPT ![i] = wanted]
  /\ IF wanted = needs[i] THEN UNCHANGED interventions ELSE Intervene
Adopts(i, wanted) ==
  /\ Reads(i, wanted)
  /\ loosened' = IF wanted = needs[i] THEN loosened ELSE loosened \cup {i}

(* The contract read is invalid: its locks are released, a block follows.   *)
Rejects(i) == Intervene /\ TakeAway(i) /\ UNCHANGED needs

-----------------------------------------------------------------------------
(* The worker thread of an issue.                                           *)

(* _worker_run: the compare-and-set from the state it was spawned for.  A   *)
(* repair then reads the live contract, a first run starts its agent.       *)
WorkerBegins(i) ==
  /\ worker[i] \in {"start", "repair"}
  /\ IF state[i] = (IF worker[i] = "start" THEN "CLAIMED" ELSE "FIX_REQUIRED")
     THEN /\ Move(i, "WORKING")
          /\ attempt' = [attempt EXCEPT ![i] = @ + 1]
          /\ assigned' = assigned \cup {i}
          /\ heartbeat' = [heartbeat EXCEPT ![i] = "fresh"]
          /\ SetWorker(i, IF worker[i] = "start" THEN "agent" ELSE "contract")
     ELSE /\ SetWorker(i, "none")
          /\ UNCHANGED <<state, attempt, assigned, heartbeat>>
  /\ UNCHANGED <<verdict, pr, needs, rows, paused, closed, orphan, outdated, proc, main, reviewer, command, bounds, history>>

(* refresh_contract in a repair, after the locks were taken: an issue       *)
(* edited into an invalid contract is blocked, and the run goes on with the *)
(* old one.                                                                 *)
WorkerReadsContract(i) ==
  /\ worker[i] = "contract"
  /\ \/ \E wanted \in Contracts[i] : Adopts(i, wanted) /\ SetWorker(i, "agent") /\ UNCHANGED rows
     \/ Rejects(i) /\ SetWorker(i, "dropped")
  /\ UNCHANGED <<record, paused, outside, outdated, proc, main, reviewer, command, stops, ordered, standing>>

WorkerBlocksContract(i) ==
  /\ worker[i] = "dropped"
  /\ MoveOrRaise(i, "BLOCKED")
  /\ SetWorker(i, IF Legal(i, "BLOCKED") THEN "agent" ELSE "none")
  /\ UNCHANGED <<attempt, verdict, pr, assigned, needs, rows, paused, outside, outdated, proc, main, reviewer, command, bounds, history>>

(* Mutant: the run counts wherever the issue is by then.                    *)
WorkerFinishesAnyway(i) ==
  /\ worker[i] = "agent"
  /\ \/ Intervene /\ SetWorker(i, "limited")
     \/ \E w \in {"failed", "gaveUp", "publish"} : SetWorker(i, w) /\ UNCHANGED interventions
  /\ UNCHANGED <<store, outside, outdated, proc, main, reviewer, command, stops, history>>

(* The agent run ends and _complete_worker looks at the issue before it     *)
(* does anything: whoever moved it meanwhile wins.                          *)
WorkerFinishes(i) ==
  /\ worker[i] = "agent"
  /\ IF state[i] = "WORKING"
     THEN \/ Intervene /\ SetWorker(i, "limited")
          \/ \E w \in {"failed", "gaveUp", "publish"} : SetWorker(i, w) /\ UNCHANGED interventions
     ELSE SetWorker(i, "none") /\ UNCHANGED interventions
  /\ UNCHANGED <<store, outside, outdated, proc, main, reviewer, command, stops, history>>

(* Push, open or update the PR, record it.  A push without a new commit     *)
(* keeps the head, and with it the verdict.  A transition that is no longer *)
(* legal raises, as every failure here does.                                *)
WorkerPublishes(i) ==
  /\ worker[i] = "publish"
  /\ pr' = pr \cup {i}
  /\ assigned' = assigned \ {i}
  /\ MoveOrRaise(i, "PR_OPEN")
  /\ NewHead(i) \/ UNCHANGED <<verdict, outdated>>
  /\ SetWorker(i, IF Legal(i, "PR_OPEN") THEN "opened" ELSE "failed")
  /\ UNCHANGED <<attempt, needs, rows, paused, outside, proc, main, reviewer, command, bounds, history>>

(* The release before a requeue or a block, and after PR_OPEN: which one    *)
(* follows.  _worker_failed reads the record again for the budget; a rate   *)
(* limited run gives its attempt back.                                      *)
WorkerReleases(i) ==
  /\ worker[i] \in {"limited", "failed", "gaveUp", "opened"}
  /\ GiveBack(i)
  /\ SetWorker(i, CASE worker[i] = "limited" -> "rest"
                    [] worker[i] = "failed"  -> IF AttemptsRemaining(i) THEN "requeue" ELSE "park"
                    [] worker[i] = "gaveUp"  -> "park"
                    [] worker[i] = "opened"  -> "none")
  /\ assigned' = IF worker[i] \in {"limited", "failed"} THEN assigned \ {i} ELSE assigned
  /\ attempt' = IF worker[i] = "limited" /\ attempt[i] > 0 THEN [attempt EXCEPT ![i] = @ - 1] ELSE attempt
  /\ UNCHANGED <<state, verdict, pr, needs, paused, outside, outdated, proc, main, reviewer, command, bounds, history>>

WorkerMoves(i) ==
  /\ worker[i] \in {"rest", "requeue", "park"}
  /\ LET to == IF worker[i] = "park" THEN "BLOCKED" ELSE "QUEUED"
     IN  /\ MoveOrRaise(i, to)
         /\ paused' = (paused \/ (worker[i] = "rest" /\ Legal(i, to)))
  /\ SetWorker(i, "none")
  /\ UNCHANGED <<attempt, verdict, pr, assigned, needs, rows, outside, outdated, proc, main, reviewer, command, bounds, history>>

WorkerStep(i) ==
  \/ WorkerBegins(i) \/ WorkerReadsContract(i) \/ WorkerBlocksContract(i) \/ WorkerFinishes(i)
  \/ WorkerPublishes(i) \/ WorkerReleases(i) \/ WorkerMoves(i)

-----------------------------------------------------------------------------
(* The reviewer thread of an issue: _reviewer_run.                          *)

ReviewerBegins(i) ==
  /\ reviewer[i] = "start"
  /\ SetReviewer(i, IF state[i] = "REVIEW" THEN "contract" ELSE "none")
  /\ UNCHANGED <<store, outside, outdated, proc, main, worker, command, bounds, history>>

(* The agent then runs, with a first heartbeat as it starts.                *)
ReviewerReadsContract(i) ==
  /\ reviewer[i] = "contract"
  /\ \/ /\ \E wanted \in Contracts[i] : Adopts(i, wanted)
        /\ heartbeat' = [heartbeat EXCEPT ![i] = "fresh"]
        /\ SetReviewer(i, "agent") /\ UNCHANGED rows
     \/ Rejects(i) /\ SetReviewer(i, "park") /\ UNCHANGED heartbeat
  /\ UNCHANGED <<record, paused, closed, orphan, outdated, proc, main, worker, command, stops, ordered, standing>>

(* The run ends: the slot is freed, then the state looked at.  A failed run *)
(* leaves no verdict and is tried again; a rate limit pauses new work.      *)
ReviewerFinishes(i) ==
  /\ reviewer[i] = "agent"
  /\ assigned' = assigned \ {i}
  /\ IF state[i] = "REVIEW"
     THEN \/ Intervene /\ SetReviewer(i, "none") /\ paused' = TRUE
          \/ /\ \E r \in {"none", "approve", "reject"} : SetReviewer(i, r)
             /\ UNCHANGED <<paused, interventions>>
     ELSE SetReviewer(i, "none") /\ UNCHANGED <<paused, interventions>>
  /\ UNCHANGED <<state, attempt, verdict, pr, needs, rows, outside, outdated, proc, main, worker, command, stops, history>>

(* The verdict is stored for the head it was given for, whatever became of  *)
(* the issue since.  A rejection of the current head goes to the fixer      *)
(* while the budget lasts.                                                  *)
ReviewerJudges(i) ==
  /\ reviewer[i] \in {"approve", "reject"}
  /\ verdict' = [verdict EXCEPT ![i] = IF i \in outdated THEN "none" ELSE reviewer[i]]
  /\ SetReviewer(i, IF i \in outdated \/ reviewer[i] = "approve" THEN "none"
                    ELSE IF AttemptsRemaining(i) THEN "fix" ELSE "drop")
  /\ UNCHANGED <<state, attempt, pr, assigned, needs, rows, paused, outside, outdated, proc, main, worker, command, bounds, history>>

ReviewerReleases(i) ==
  /\ reviewer[i] = "drop"
  /\ TakeAway(i)
  /\ SetReviewer(i, "park")
  /\ UNCHANGED <<record, needs, paused, outside, outdated, proc, main, worker, command, bounds, ordered, standing>>

ReviewerMoves(i) ==
  /\ reviewer[i] \in {"fix", "park"}
  /\ MoveOrRaise(i, IF reviewer[i] = "fix" THEN "FIX_REQUIRED" ELSE "BLOCKED")
  /\ IF reviewer[i] = "fix" /\ Legal(i, "FIX_REQUIRED") /\ ~AttemptsRemaining(i) THEN Buys(i)
     ELSE UNCHANGED ordered
  /\ SetReviewer(i, "none")
  /\ UNCHANGED <<attempt, verdict, pr, assigned, needs, rows, paused, outside, outdated, proc, main, worker, command, bounds, standing, loosened>>

ReviewerStep(i) ==
  \/ ReviewerBegins(i) \/ ReviewerReadsContract(i) \/ ReviewerFinishes(i)
  \/ ReviewerJudges(i) \/ ReviewerReleases(i) \/ ReviewerMoves(i)

-----------------------------------------------------------------------------
(* The main thread: reconcile, then advance, then schedule, issue by issue. *)
(* A job is what it found to do when it read the issue; it acts on that     *)
(* later.  Only this thread starts threads and asks for locks.              *)

MainFree == proc # "down" /\ \A i \in Issues : main[i] = "none"

(* A thread spawned in one tick has begun before a later tick looks at its  *)
(* issue: ticks are seconds apart.                                          *)
Settled(i) == MainFree /\ worker[i] \notin {"start", "repair"}

MayStart == proc = "up" /\ ~paused

(* Mutant: nobody looks for a claim whose worker never began.               *)
JobsButIncomplete ==
  {"shut", "claim", "lost", "open", "ci", "repair", "verdict", "review", "ready", "smoke"}

Jobs == {"shut", "claim", "incomplete", "lost", "open", "ci", "repair", "verdict", "review",
         "ready", "smoke"}

Due(i, job) ==
  CASE job = "shut"       -> /\ i \in closed /\ state[i] \notin {"MERGED", "DONE", "BLOCKED"}
                             /\ state[i] \in {"CLAIMED", "WORKING"} => worker[i] # "none"
    [] job = "claim"      -> /\ state[i] = "QUEUED" /\ MayStart /\ worker[i] = "none" /\ CanLock(i, needs[i])
                             /\ Cardinality(WorkersRunning) < MaxWorkers
    [] job = "incomplete" -> state[i] = "CLAIMED" /\ worker[i] = "none"
    [] job = "lost"       -> /\ state[i] = "WORKING" /\ worker[i] = "none"
                             /\ orphan[i] # "known" \/ heartbeat[i] = "old"
    [] job = "open"       -> state[i] = "PR_OPEN"
    [] job = "ci"         -> state[i] = "CI"
    [] job = "repair"     -> /\ state[i] = "FIX_REQUIRED" /\ MayStart /\ worker[i] = "none"
                             /\ Cardinality(WorkersRunning) < MaxWorkers
    [] job = "verdict"    -> state[i] = "REVIEW" /\ verdict[i] # "none"
    [] job = "review"     -> /\ state[i] = "REVIEW" /\ verdict[i] = "none" /\ MayStart
                             /\ reviewer[i] = "none" /\ i \notin assigned
                             /\ Cardinality(ReviewersRunning) < MaxReviewers
    [] job = "ready"      -> state[i] = "READY_FOR_OWNER"
    [] job = "smoke"      -> state[i] = "MERGED"

(* poll stores an edited contract as long as the issue is queued.           *)
Polls(i) ==
  /\ MainFree
  /\ state[i] = "QUEUED"
  /\ \E wanted \in Contracts[i] \ {needs[i]} : Adopts(i, wanted)
  /\ UNCHANGED <<record, rows, paused, outside, outdated, proc, threads, command, stops, ordered, standing>>

MainReads(i) ==
  /\ Settled(i)
  /\ \E job \in Jobs : Due(i, job) /\ SetMain(i, job)
  /\ UNCHANGED <<store, outside, outdated, proc, worker, reviewer, command, bounds, history>>

(* Nothing to do after all: CI pending, an approval of the lead missing,    *)
(* base not advanced, heavy pool full.                                      *)
MainWaits(i) ==
  /\ main[i] \in {"ci", "ready", "smoke"} \/ (main[i] = "verdict" /\ verdict[i] = "approve")
  /\ SetMain(i, "none")
  /\ UNCHANGED <<store, outside, outdated, proc, worker, reviewer, command, bounds, history>>

(* _claim_and_start: claim, lock, prepare the worktree, start the worker.   *)
Claims(i) ==
  /\ main[i] = "claim"
  /\ IF state[i] = "QUEUED"
     THEN Move(i, "CLAIMED") /\ SetMain(i, "claimed")
     ELSE UNCHANGED state /\ SetMain(i, "none")
  /\ UNCHANGED <<attempt, verdict, pr, assigned, needs, rows, paused, outside, outdated, proc, worker, reviewer, command, bounds, history>>

LocksClaim(i) ==
  /\ main[i] = "claimed"
  /\ IF CanLock(i, needs[i])
     THEN Acquire(i, needs[i]) /\ SetMain(i, "setup") /\ UNCHANGED state
     ELSE MoveOrRaise(i, "QUEUED") /\ SetMain(i, "none") /\ UNCHANGED <<rows, loosened>>
  /\ UNCHANGED <<attempt, verdict, pr, assigned, needs, paused, outside, outdated, proc, worker, reviewer, command, bounds, ordered, standing>>

(* A branch that already has a PR resumes at CI and keeps its locks.        *)
SetsUp(i) ==
  /\ main[i] = "setup"
  /\ \/ /\ i \in pr
        /\ MoveOrRaise(i, "PR_OPEN")
        /\ SetMain(i, IF Legal(i, "PR_OPEN") THEN "none" ELSE "drop")
        /\ UNCHANGED worker
     \/ i \notin pr /\ SetWorker(i, "start") /\ SetMain(i, "none") /\ UNCHANGED state
     \/ SetMain(i, "drop") /\ UNCHANGED <<state, worker>>
  /\ UNCHANGED <<attempt, verdict, pr, assigned, needs, rows, paused, outside, outdated, proc, reviewer, command, bounds, history>>

(* _step_ci: the gates are green and the live contract valid; or red.       *)
JudgesCI(i) ==
  /\ main[i] = "ci"
  /\ \/ /\ \E wanted \in Contracts[i] : Adopts(i, wanted)
        /\ MoveOrRaise(i, "REVIEW") /\ SetMain(i, "none") /\ UNCHANGED rows
     \/ Rejects(i) /\ SetMain(i, "block") /\ UNCHANGED state
     \/ /\ AttemptsRemaining(i)
        /\ MoveOrRaise(i, "FIX_REQUIRED") /\ SetMain(i, "none")
        /\ UNCHANGED <<needs, rows, loosened, interventions>>
     \/ SetMain(i, "drop") /\ UNCHANGED <<state, needs, rows, loosened, interventions>>
  /\ UNCHANGED <<attempt, verdict, pr, assigned, paused, outside, outdated, proc, worker, reviewer, command, stops, ordered, standing>>

(* Mutant: a repair is started with whatever locks are left.                *)
StartsRepairUnlocked(i) ==
  /\ main[i] = "repair"
  /\ \/ Rejects(i) /\ SetMain(i, "block")
     \/ \E wanted \in Contracts[i] : Adopts(i, wanted) /\ SetMain(i, "spawn") /\ UNCHANGED rows
  /\ UNCHANGED <<record, paused, outside, outdated, proc, worker, reviewer, command, stops, ordered, standing>>

(* _step_fix_required: the live contract; its locks, unless the issue holds *)
(* any lock at all; a repair worker.                                        *)
StartsRepair(i) ==
  /\ main[i] = "repair"
  /\ \/ Rejects(i) /\ SetMain(i, "block")
     \/ \E wanted \in Contracts[i] :
          \/ Holds(i) /\ Adopts(i, wanted) /\ SetMain(i, "spawn") /\ UNCHANGED rows
          \/ /\ ~Holds(i) /\ CanLock(i, wanted)
             /\ Reads(i, wanted) /\ Acquire(i, wanted) /\ SetMain(i, "spawn")
          \/ /\ ~Holds(i) /\ ~CanLock(i, wanted)
             /\ Adopts(i, wanted) /\ SetMain(i, "none") /\ UNCHANGED rows
  /\ UNCHANGED <<record, paused, outside, outdated, proc, worker, reviewer, command, stops, ordered, standing>>

SpawnsRepair(i) ==
  /\ main[i] = "spawn"
  /\ SetWorker(i, "repair") /\ SetMain(i, "none")
  /\ UNCHANGED <<store, outside, outdated, proc, reviewer, command, bounds, history>>

(* _step_review without and with a verdict for the head.                    *)
StartsReview(i) ==
  /\ main[i] = "review"
  /\ assigned' = assigned \cup {i}
  /\ SetReviewer(i, "start") /\ SetMain(i, "none")
  /\ outdated' = outdated \ {i}
  /\ UNCHANGED <<state, attempt, verdict, pr, needs, rows, paused, outside, proc, worker, command, bounds, history>>

ActsOnVerdict(i) ==
  /\ main[i] = "verdict"
  /\ \/ /\ verdict[i] = "approve"
        /\ MoveOrRaise(i, "READY_FOR_OWNER")
        /\ SetMain(i, IF Legal(i, "READY_FOR_OWNER") THEN "release" ELSE "none")
     \/ /\ verdict[i] = "reject" /\ AttemptsRemaining(i)
        /\ MoveOrRaise(i, "FIX_REQUIRED") /\ SetMain(i, "none")
     \/ /\ verdict[i] = "reject" /\ ~AttemptsRemaining(i)
        /\ SetMain(i, "drop") /\ UNCHANGED state
     \/ /\ verdict[i] = "none"
        /\ SetMain(i, "none") /\ UNCHANGED state
  /\ UNCHANGED <<attempt, verdict, pr, assigned, needs, rows, paused, outside, outdated, proc, worker, reviewer, command, bounds, history>>

(* _step_ready_for_owner: the base advanced, and merging it into the branch *)
(* makes a new head, or a conflict for the fixer.                           *)
Revalidates(i) ==
  /\ main[i] = "ready"
  /\ Intervene
  /\ \/ NewHead(i) /\ MoveOrRaise(i, "CI") /\ SetMain(i, "none")
     \/ /\ IF AttemptsRemaining(i) THEN MoveOrRaise(i, "FIX_REQUIRED") /\ SetMain(i, "none")
           ELSE SetMain(i, "drop") /\ UNCHANGED state
        /\ UNCHANGED <<verdict, outdated>>
  /\ UNCHANGED <<attempt, pr, assigned, needs, rows, paused, outside, proc, worker, reviewer, command, stops, history>>

(* The release that goes before QUEUED or BLOCKED.                          *)
MainReleases(i) ==
  /\ main[i] \in {"incomplete", "lost", "drop", "shut", "release"}
  /\ IF main[i] = "shut" THEN TakeAway(i) ELSE GiveBack(i) /\ UNCHANGED loosened
  /\ assigned' = IF main[i] = "lost" THEN assigned \ {i} ELSE assigned
  /\ SetMain(i, CASE main[i] = "incomplete"        -> "requeue"
                  [] main[i] = "lost"              -> IF AttemptsRemaining(i) THEN "requeue" ELSE "block"
                  [] main[i] \in {"drop", "shut"}  -> "block"
                  [] main[i] = "release"           -> "none")
  /\ UNCHANGED <<state, attempt, verdict, pr, needs, paused, outside, outdated, proc, worker, reviewer, command, bounds, ordered, standing>>

(* The plain transitions.  The smoke test after a merge, which a thread of  *)
(* its own runs, ends in DONE and a release or in BLOCKED.                  *)
MainMoves(i) ==
  /\ \E to \in CASE main[i] = "open"    -> {"CI"}
                 [] main[i] = "requeue" -> {"QUEUED"}
                 [] main[i] = "block"   -> {"BLOCKED"}
                 [] main[i] = "smoke"   -> {"DONE", "BLOCKED"}
                 [] OTHER               -> {} :
       /\ MoveOrRaise(i, to)
       /\ SetMain(i, IF to = "DONE" /\ Legal(i, to) THEN "release" ELSE "none")
  /\ UNCHANGED <<attempt, verdict, pr, assigned, needs, rows, paused, outside, outdated, proc, worker, reviewer, command, bounds, history>>

(* reconcile frees the slot of a reviewer that is gone.                     *)
ClearsSlot(i) ==
  /\ MainFree
  /\ state[i] = "REVIEW" /\ i \in assigned /\ reviewer[i] = "none"
  /\ assigned' = assigned \ {i}
  /\ UNCHANGED <<state, attempt, verdict, pr, needs, rows, paused, outside, outdated, proc, threads, command, bounds, history>>

(* Mutant: only reviews lose their locks.                                   *)
RecoversReviews(i) ==
  /\ Settled(i) /\ Holds(i)
  /\ state[i] = "REVIEW"
  /\ GiveBack(i)
  /\ UNCHANGED <<record, needs, paused, outside, outdated, proc, threads, command, bounds, history>>

(* recover_stale: locks whose issue left the states that hold them.         *)
RecoversStale(i) ==
  /\ Settled(i)
  /\ Holds(i)
  /\ state[i] \notin ResourceHolding
  /\ IF state[i] = "BLOCKED" THEN TakeAway(i) ELSE GiveBack(i) /\ UNCHANGED loosened
  /\ UNCHANGED <<record, needs, paused, outside, outdated, proc, threads, command, bounds, ordered, standing>>

(* recover_stale: locks older than its time allows.  In WORKING and REVIEW  *)
(* the heartbeat is (nobody beats between two runs, and a live run's last   *)
(* beat is old after the machine slept); elsewhere nobody ever beat and the *)
(* rows themselves are.                                                     *)
RecoversOld(i) ==
  /\ Settled(i)
  /\ Holds(i)
  /\ state[i] \in ResourceHolding
  /\ state[i] \in {"WORKING", "REVIEW"} \/ heartbeat[i] = "none"
  /\ IF state[i] = "WORKING" THEN TakeAway(i) ELSE GiveBack(i) /\ UNCHANGED loosened
  /\ UNCHANGED <<record, needs, paused, outside, outdated, proc, threads, command, bounds, ordered, standing>>

MainStep(i) ==
  \/ MainWaits(i) \/ Claims(i) \/ LocksClaim(i) \/ SetsUp(i) \/ JudgesCI(i)
  \/ StartsRepair(i) \/ SpawnsRepair(i) \/ StartsReview(i) \/ ActsOnVerdict(i)
  \/ Revalidates(i) \/ MainReleases(i) \/ MainMoves(i)

(* check_usage or the owner lifts the pause.                                *)
Resumes ==
  /\ paused /\ proc # "down"
  /\ paused' = FALSE
  /\ UNCHANGED <<record, needs, rows, outside, outdated, proc, threads, command, bounds, history>>

-----------------------------------------------------------------------------
(* Orders: agentctl of the team lead and the owner's decisions, processes   *)
(* of their own.  Some give the locks back first and move the issue later,  *)
(* some check the state first and act later; the second step is OrderEnds.  *)

(* Somebody of the orchestrator is past reading this issue's state and will *)
(* still move it.                                                           *)
InHand(i) ==
  \/ main[i] # "none"
  \/ worker[i] \in {"limited", "failed", "gaveUp", "publish", "opened", "rest", "requeue", "park"}
  \/ reviewer[i] \in {"reject", "fix"}

SetCommand(i, c) == command' = [command EXCEPT ![i] = c]
OrderBegins(i)   == Intervene /\ command[i] = "none"

(* block and requeue release before the transition that may refuse; the     *)
(* owner's reject looks at the state first, and so does a merge of his that *)
(* then finds the live contract invalid.                                    *)
OrderTakesLocks(i) ==
  /\ OrderBegins(i)
  /\ TakeAway(i)
  /\ \/ \E c \in {"block", "requeue"} : SetCommand(i, c)
     \/ state[i] = "READY_FOR_OWNER" /\ SetCommand(i, "block")
  /\ UNCHANGED <<record, needs, paused, outside, outdated, proc, threads, stops, ordered, standing>>

(* agentctl locks release, and an owner's change request.                   *)
OrderChecks(i) ==
  /\ OrderBegins(i)
  /\ \/ state[i] \notin {"CLAIMED", "WORKING"} /\ SetCommand(i, "unlock")
     \/ state[i] \in {"READY_FOR_OWNER", "BLOCKED"} /\ SetCommand(i, "change")
  /\ UNCHANGED <<store, outside, outdated, proc, threads, stops, history>>

Lifted(i) == standing' = standing \ {i}

OrderEnds(i) ==
  /\ command[i] # "none"
  /\ SetCommand(i, "none")
  /\ \/ /\ command[i] = "block"
        /\ MoveOrRaise(i, "BLOCKED")
        /\ standing' = IF ~Legal(i, "BLOCKED") THEN standing
                       ELSE IF InHand(i) THEN standing \ {i} ELSE standing \cup {i}
        /\ UNCHANGED <<attempt, rows, ordered, loosened>>
     \/ /\ command[i] = "requeue"
        /\ IF state[i] = "BLOCKED"
           THEN /\ Move(i, "QUEUED") /\ Lifted(i) /\ Buys(i)
                /\ \E n \in {0, attempt[i]} : attempt' = [attempt EXCEPT ![i] = n]
           ELSE UNCHANGED <<state, attempt, ordered, standing>>
        /\ UNCHANGED <<rows, loosened>>
     \/ /\ command[i] = "unlock"
        /\ TakeAway(i)
        /\ UNCHANGED <<state, attempt, ordered, standing>>
     \/ /\ command[i] = "change"
        /\ IF Legal(i, "FIX_REQUIRED")
           THEN Move(i, "FIX_REQUIRED") /\ Lifted(i) /\ Buys(i)
           ELSE UNCHANGED <<state, ordered, standing>>
        /\ UNCHANGED <<attempt, rows, loosened>>
  /\ UNCHANGED <<verdict, pr, assigned, needs, paused, outside, outdated, proc, threads, bounds>>

(* repair and resume-pr, with or without a fresh review, of a blocked PR.   *)
LeadRepairs(i) ==
  /\ OrderBegins(i)
  /\ state[i] = "BLOCKED" /\ i \in pr
  /\ Move(i, "FIX_REQUIRED") /\ Lifted(i) /\ Buys(i)
  /\ UNCHANGED <<attempt, verdict, pr, assigned, needs, rows, paused, outside, outdated, proc, threads, command, stops, loosened>>

LeadResumes(i) ==
  /\ OrderBegins(i)
  /\ state[i] = "BLOCKED" /\ i \in pr
  /\ Move(i, "PR_OPEN") /\ Lifted(i)
  /\ \/ UNCHANGED <<verdict, outdated>>
     \/ NewHead(i)
     \/ verdict' = [verdict EXCEPT ![i] = "none"] /\ UNCHANGED outdated
  /\ UNCHANGED <<attempt, pr, assigned, needs, rows, paused, outside, proc, threads, command, stops, ordered, loosened>>

(* The issue is closed on GitHub, or its pull request unmerged; agentctl    *)
(* resolve retires it once blocked.                                         *)
Closes(i) ==
  /\ Intervene
  /\ i \notin closed
  /\ closed' = closed \cup {i}
  /\ UNCHANGED <<store, heartbeat, orphan, outdated, proc, threads, command, stops, history>>

LeadResolves(i) ==
  /\ i \in closed /\ state[i] = "BLOCKED" /\ command[i] = "none"
  /\ Move(i, "DONE") /\ Lifted(i)
  /\ UNCHANGED <<attempt, verdict, pr, assigned, needs, rows, paused, outside, outdated, proc, threads, command, bounds, ordered, loosened>>

(* owner_merge: a contract edited meanwhile is stored, and the gates are    *)
(* green for it or refuse.                                                  *)
OwnerMerges(i) ==
  /\ state[i] = "READY_FOR_OWNER" /\ command[i] = "none"
  /\ \E wanted \in Contracts[i] :
       Adopts(i, wanted) /\ (Move(i, "MERGED") \/ (wanted # needs[i] /\ UNCHANGED state))
  /\ UNCHANGED <<attempt, verdict, pr, assigned, rows, paused, outside, outdated, proc, threads, command, stops, ordered, standing>>

Order(i) ==
  \/ OrderTakesLocks(i) \/ OrderChecks(i) \/ LeadRepairs(i) \/ LeadResumes(i)
  \/ Closes(i) \/ LeadResolves(i) \/ OwnerMerges(i)

-----------------------------------------------------------------------------
(* The process.  A kill takes the threads and leaves the agents; the pid of *)
(* one killed before its first heartbeat is in no record.                   *)

Nobody == [i \in Issues |-> "none"]

Kill ==
  /\ proc # "down" /\ stops < MaxStops
  /\ proc' = "down" /\ stops' = stops + 1
  /\ main' = Nobody /\ worker' = Nobody /\ reviewer' = Nobody
  /\ orphan' \in {o \in [Issues -> {"none", "known", "unknown"}] :
                    \A i \in Issues : worker[i] # "agent" => o[i] = orphan[i]}
  /\ UNCHANGED <<store, closed, heartbeat, outdated, command, interventions, history>>

Drain ==
  /\ proc = "up" /\ stops < MaxStops
  /\ proc' = "draining" /\ stops' = stops + 1
  /\ UNCHANGED <<store, outside, outdated, threads, command, interventions, history>>

(* The tick is over and no thread is left, or the drain's time is up.       *)
DrainEnds ==
  /\ proc = "draining" /\ MainFree
  /\ proc' = "down"
  /\ worker' = Nobody /\ reviewer' = Nobody
  /\ UNCHANGED <<store, outside, outdated, main, command, bounds, history>>

Restart ==
  /\ proc = "down"
  /\ proc' = "up"
  /\ UNCHANGED <<store, outside, outdated, threads, command, bounds, history>>

OrphanEnds(i) ==
  /\ orphan[i] # "none"
  /\ orphan' = [orphan EXCEPT ![i] = "none"]
  /\ UNCHANGED <<store, closed, heartbeat, outdated, proc, threads, command, bounds, history>>

(* stale_after_seconds pass without a heartbeat.                            *)
GrowsSilent(i) ==
  /\ state[i] = "WORKING" /\ worker[i] = "none" /\ heartbeat[i] = "fresh"
  /\ heartbeat' = [heartbeat EXCEPT ![i] = "old"]
  /\ UNCHANGED <<store, closed, orphan, outdated, proc, threads, command, bounds, history>>

-----------------------------------------------------------------------------
Init ==
  /\ state = [i \in Issues |-> "QUEUED"] /\ attempt = [i \in Issues |-> 0]
  /\ verdict = Nobody /\ pr \in SUBSET Issues /\ assigned = {}
  /\ needs \in {wanted \in [Issues -> SUBSET Table!Wishes] : \A i \in Issues : wanted[i] \in Contracts[i]}
  /\ rows = {} /\ paused = FALSE
  /\ closed = {} /\ heartbeat = Nobody /\ outdated = {} /\ orphan = Nobody
  /\ proc = "up" /\ main = Nobody /\ worker = Nobody /\ reviewer = Nobody
  /\ command = Nobody /\ stops = 0 /\ interventions = 0
  /\ ordered = [i \in Issues |-> 0] /\ standing = {} /\ loosened = {}

Orchestrator ==
  \/ Resumes
  \/ \E i \in Issues : \/ WorkerStep(i) \/ ReviewerStep(i) \/ MainReads(i) \/ MainStep(i)
                       \/ Polls(i) \/ ClearsSlot(i) \/ RecoversStale(i) \/ RecoversOld(i)
World ==
  \/ Kill \/ Drain \/ DrainEnds \/ Restart
  \/ \E i \in Issues : Order(i) \/ OrderEnds(i) \/ OrphanEnds(i) \/ GrowsSilent(i)

Next == Orchestrator \/ World

Spec == Init /\ [][Next]_vars

(* Threads and the process manager keep running, a started order ends, and  *)
(* a tick looks at every issue again and again.  An agent run, GitHub and   *)
(* the owner are owed nothing more: CI may stay pending and a PR unmerged.  *)
Fairness ==
  /\ WF_vars(Restart) /\ WF_vars(DrainEnds) /\ WF_vars(Resumes)
  /\ \A i \in Issues :
       /\ WF_vars(WorkerStep(i)) /\ WF_vars(ReviewerStep(i)) /\ WF_vars(MainStep(i))
       /\ WF_vars(OrderEnds(i)) /\ WF_vars(GrowsSilent(i))
       /\ SF_vars(MainReads(i)) /\ SF_vars(RecoversStale(i)) /\ SF_vars(ClearsSlot(i))

FairSpec == Spec /\ Fairness

-----------------------------------------------------------------------------
(* Every variable has the values the code can store or reach.               *)
TypeOK ==
  /\ state \in [Issues -> States]
  /\ attempt \in [Issues -> Nat] /\ ordered \in [Issues -> Nat]
  /\ verdict \in [Issues -> {"none", "approve", "reject"}]
  /\ rows \subseteq Table!Rows
  /\ {pr, assigned, closed, outdated, standing, loosened} \subseteq SUBSET Issues
  /\ needs \in [Issues -> SUBSET Table!Wishes] /\ \A i \in Issues : needs[i] \in Contracts[i]
  /\ heartbeat \in [Issues -> {"none", "fresh", "old"}]
  /\ paused \in BOOLEAN /\ proc \in {"up", "draining", "down"}
  /\ main \in [Issues -> Jobs \cup {"none", "claimed", "setup", "spawn", "drop", "block", "requeue", "release"}]
  /\ worker \in [Issues -> {"none", "start", "repair", "contract", "dropped", "agent", "publish", "limited",
                            "failed", "gaveUp", "opened", "rest", "requeue", "park"}]
  /\ reviewer \in [Issues -> {"none", "start", "contract", "agent", "approve", "reject", "drop", "fix", "park"}]
  /\ orphan \in [Issues -> {"none", "known", "unknown"}]
  /\ command \in [Issues -> {"none", "block", "requeue", "unlock", "change"}]
  /\ stops \in Nat /\ interventions \in Nat

(* The locks table only ever gains what one issue asked for, all of it and  *)
(* beside no conflicting row, and only ever loses all rows of one issue:    *)
(* with the orchestrator, its threads and agentctl all writing to it.       *)
LocksAreGranted == Table!Spec

(* While a worker's agent runs, its issue holds the locks of its contract,  *)
(* unless since they were granted an order, a closing or a review blocked   *)
(* it or took them away, its heartbeat grew so old that recover_stale did,  *)
(* or the contract was edited: no requeue, restart or other thread gives    *)
(* away the locks of a run, and a repair that lost them asks again.         *)
LocksCoverWork == \A i \in Issues :
  worker[i] = "agent" /\ state[i] = "WORKING" /\ i \notin loosened => Table!RowsOf(i, needs[i]) \subseteq rows

(* max_repair_attempts on top of the first run, whatever combination of     *)
(* failed runs, red CI, rejected reviews, conflicts, rate limits, kills and *)
(* restarts sends the issue back; an order of the lead or the owner buys    *)
(* one run more, not several.                                               *)
BudgetHolds == \A i \in Issues : attempt[i] <= MaxRepairAttempts + 1 + ordered[i]

(* A block of the lead (or the owner's reject) that met no thread past its  *)
(* last look at the issue stays until an order lifts it: no agent that      *)
(* finishes later, no tick and no restart takes the issue up again.         *)
BlockStands == \A i \in standing : state[i] = "BLOCKED"

(* A claimed issue is never forgotten: it comes to rest in the queue, is    *)
(* blocked, or reaches a PR, whoever dies on the way.                       *)
ClaimsAreSettled == \A i \in Issues : state[i] \in {"CLAIMED", "WORKING"} ~> state[i] \notin {"CLAIMED", "WORKING"}

(* A lock never stays with an issue that is queued, blocked or done.        *)
LocksComeFree == \A i \in Issues :
  (Holds(i) /\ state[i] \notin ResourceHolding) ~> (~Holds(i) \/ state[i] \in ResourceHolding)
=============================================================================
