# A formal model of BuildSmart

TLA+ modules for the stateful parts of BuildSmart, the TLC configurations that check them and the
TLAPS proofs about them. The planner turns a brief into a floor plan and is a pure computation over
continuous geometry; what is modelled here is everything *around* it that keeps state: the project
store and its update service, chat confirmations, design versions, requirement review, the JSON
files under all of them, the knowledge index that coding agents share, and the agent team that
develops the program: issues, locks, threads, reviews, merges and protected periods. Sources are
named relative to `src/backend/app/` unless they start with `src/`; those of the agent team are in
`src/scripts/agent_team/`.

## 1. Inventory

| Component | State | Operations | Interacts with |
|---|---|---|---|
| Project store and update service (`projects/`) | one record per project in `projects.json`: requirements, wet-room kinds and questions, preferences, audit trail, active version, flat design fields | `apply_project_update`, `rollback_to_design_version`, `set_design_model`, `set_parsed_requirements`, PATCH, activate | called by Settings, chat, design and requirements endpoints; calls the design pipeline |
| Design versions (`design/version.py`, `design/router.py`) | `design_versions.json`, append-only | append, get, list; POST /design and spatial-edit write the flat fields *without* a version | update service |
| Chat (`chat/`) | `conversations.json`, one current proposal per project in `chat_proposals.json` | send message, confirm, cancel | language model (external), update service |
| Requirements and review (`requirements/router.py`, `demo/router.py`) | fields of the project record | parse, reconcile wet rooms, review | language model (external), project store |
| JSON persistence | the four files | load whole file; open for writing (truncates); dump whole map | every handler thread |
| Knowledge index (`knowledge/`) | SQLite tables `documents`, `chunks`, `chunks_fts`, `index_meta`; a flock | index, index --changed, clear | several agent processes, the documents in the repository, embedding providers |
| Demo generation and stream (`demo/`) | none persisted; worker thread and queue per stream | generate, stream | planner |
| Planner (`vertical_slice/`, `geometry/`, `geometry_domain/`, `design/pipeline.py`) | none | generate and validate a design | architect gateway |
| Issue lifecycle (`orchestrator.py`, `state_machine.py`, `state_store.py`, `locks.py`, `reconciliation.py`, `cli.py`) | SQLite: one record per issue, the locks table, meta flags; a main thread, one worker and one reviewer thread per issue; agent processes that outlive it | tick (reconcile, advance, schedule), claim, work, CI, review, repair; block, requeue, unlock, repair, resume, resolve by order | GitHub, agent processes, agentctl, the owner |
| Merge gate (`orchestrator.py`, `remote/gateway.py`, `remote/service.py`) | the record's validated commit and verdict, the chat's pending confirmation, marks and offset of Telegram updates, an in-memory queue, handler threads | validate, review, invalidate, update the branch; offer, confirm, merge, reject; poll, replace a stuck handler | GitHub, Telegram, the tick of another process |
| Protected periods (`orchestrator.py`, `cli.py`, `worktree_manager.py`) | meta rows `period`, `integrations`, `rollup`; integration branches and their one worktree | start and end a period, integrate, smoke and revert, roll up, exclude, finish | GitHub, agentctl, the owner |
| Drafts, outbox, pairing, usage guard, heavy pool, CI jobs (`remote/`, `resource_manager.py`, ...) | tables of the same store | see `PROJECT.json` | Telegram, GitHub |
| Failure log, retrieval, architect gateways, AI harness, frontend | see `PROJECT.json` | | |

What is hard: FastAPI runs these plain `def` handlers in a thread pool and nothing in the backend
takes a lock around read-modify-write, so handlers interleave between any two repository calls and
the calls themselves interleave inside a file; a regeneration holds its copy of the project over a
language-model call; the process can die anywhere. The index is guarded by a flock, but its commits
are per document and its documents change while it runs. `PROJECT.json` lists the hazards at their
lines, with the properties that would catch each of them going wrong.

What makes each component correct:

- update service: the history is never corrupted, the design shown is the active version's, what is
  refused leaves nothing behind, the audit trail accounts for what it claims to record;
- chat: a proposal is applied at most once, and never confirmable again once applied;
- requirements: rows stay within the count, what could not be honoured is shown until re-parsed;
- persistence: a call is atomic, and what it stored survives, as long as no two writers overlap;
- index: one writer, search results match the recorded checksum, a refresh catches up, a rebuild is
  uniform, nobody waits for ever;
- issue lifecycle: locks are granted whole and exclusively and cover the work done under them, the
  repair budget holds whatever sends an issue back, a block stands, no claim and no lock is forgotten
  by a restart;
- merge gate: what is merged is the head the owner confirmed, green and approved; a confirmation is
  used once; no merge and no moved head goes unnoticed;
- protected periods: what is DONE is on main, integrated work is never lost, the records agree with
  the branches.

## 2. Modules

| Module | What it models |
|---|---|
| `ProjectService` | one project and every endpoint that changes it, several handlers at once, crashes |
| `ProjectHistory` | the abstract specification: what the store promises a single user |
| `JsonFileStore` | one JSON file below the repository calls: load, truncate, dump, crash |
| `AtomicStore` | the abstract specification: the file as ProjectService takes it, one step per call |
| `KnowledgeIndex` | agents indexing and clearing the shared index under the flock |
| `IssueLifecycle` | the issues of the agent team, its threads, orders, kills and restarts |
| `LockTable` | the abstract specification of the domain locks, which `IssueLifecycle` implements |
| `MergeGate` | the last gate of one issue: Telegram, handler threads, the owner's merge against the tick |
| `IntegrationMode` | protected periods: integration branches, smoke reverts, rollups |
| `MC...` | constants, symmetry sets and endpoint subsets for TLC |
| `ProjectServiceProofs`, `ProjectSerialProofs`, `JsonFileStoreProofs`, `KnowledgeIndexProofs`, `IssueLifecycleProofs`, `MergeGateProofs`, `IntegrationModeProofs`, `IntegrationRecordsProofs` | the theorems |

The three modules of the agent team cover the same issues at different places. `IssueLifecycle` has
the whole way from QUEUED to DONE with threads and locks, and keeps of a head only whether a verdict
is for it. `MergeGate` has heads, bases and evidence of one issue, and folds a repair into
FIX_REQUIRED. `IntegrationMode` has what happens to a validated child while a period is on, and folds
PR_OPEN, CI and REVIEW into REVIEW. `ProjectService` stands on `JsonFileStore` in the same way: one
call there is a load or a save here.

### ProjectService

`project`, `versions`, `proposal` and `conversation` are the project's records in the four files.
`pc[r]` says which repository call the handler of request `r` comes to next, `base[r]` is the copy
of the project it holds, `change[r]` the diff or rollback it executes, `call[r]` its endpoint and
the proposal it named. One action is one repository call with the computation around it:

| Code | Actions, in order |
|---|---|
| PATCH /projects/{id} | `Patch` (get, validate), `Persist` (replace), then, if the change affects the design, `StoreVersion` or `GenerationFails`, and `Mirror` (replace again) |
| activate a version | `ActivateVersion` (get, look up), `Activate` (replace) |
| POST chat/messages | `SendMessage` (read, extract, build), `SaveProposal`, `Reply` |
| confirm, cancel | `ConfirmProposal`/`CancelProposal` (look-up or 409), `MarkConsumed`, `Execute` (into the update or rollback above), `Reply` |
| POST /design, spatial-edit | `GenerateDesign`/`EditDesign`, `SetDesignModel` |
| POST /requirements | `ParseRequirements`, `SaveParsed` |
| PUT /review | `Review`, `SaveReview` |

Abstractions, all on data: a list of wet-room kinds is its length and the request that wrote it; a
preference is its id and last writer; a design is the request that computed it; the id of a version
is its position. A diff changes the wet rooms or one preference (chat proposals do exactly that;
Settings may combine fields, which the code handles field by field). A tagged value is its value:
an edit that changes only the `source` tag counts as no change here and as an edited field in the
code. The other requirement fields follow the path of `wet_rooms` without its checks and are left
out. Two reads that follow each other in a handler (project, then versions) are one step; versions
are never removed, so the second read could only see more of them. What the language model, the
parser and the solver answer is nondeterministic over everything the following code accepts,
failure included.

### JsonFileStore

The state below one "repository call" of ProjectService. The file is a map, `Torn` (contents that
`json.load` rejects) or `Mixed` (contents it reads although two dumps are mixed in them). Truncation
and dump are separate steps of a writer. Writers that have the file open together (`sharing`) flush
their buffers at offsets of their own: every block of one (`Flush`), and its last (`Dump`), may leave a
hole, a tail or a text that happens to be JSON. Of a mixture, and of what is written on top of one,
nothing is claimed: it could hold anything the two dumps are made of. ProjectService takes a
call as atomic. That this is right as long as no two *writing* calls overlap is a refinement:
until then JsonFileStore implements `AtomicStore` (`AtomicUntilOverlap`), in which a read that meets the
truncated file is refused. Beyond that JsonFileStore says what survives an overlap: a torn file stays
torn, and updates are lost only by overlap.

### KnowledgeIndex

The four tables, the lock and, per agent, its command, configuration and position. Each SQLite
transaction is one action; `clear` is four, since `executescript` commits every DELETE by itself.
`Edit` changes a document at any time, `Kill` ends an agent at any step (the kernel drops the
flock), `Embed` may raise. A document has one chunk. The meta row is written also by an incremental
run that found nothing to do, where the code skips it: the row is then the same already, except for
its time stamp, which is not modelled.

### IssueLifecycle

`state`, `attempt`, `verdict`, `pr`, `assigned` are columns of the issue records, `needs` the locks of
the contract stored with each (`Contracts[i]` are those its author may edit it into), `heartbeat` the age
of its last heartbeat, `rows` the locks table, `paused` the scheduler's meta flag. `main[i]` is what the main thread found to do for issue
`i` and has not done yet, `worker[i]` and `reviewer[i]` the position of its threads, `command[i]` the
second half of an order whose first half is done. `orphan` are agents a killed orchestrator left
running, `known` by their pid or not.

| Code | Actions |
|---|---|
| poll, reconcile, advance, schedule | `Polls`, `MainReads` (what is due), then one of the next two rows |
| `_claim_and_start` | `Claims`, `LocksClaim`, `SetsUp` |
| `_step_ci`, `_step_fix_required`, `_step_review`, `_step_ready_for_owner`, smoke, reconcile | `JudgesCI`, `StartsRepair`, `SpawnsRepair`, `StartsReview`, `ActsOnVerdict`, `Revalidates`, `MainReleases`, `MainMoves`, `MainWaits`, `ClearsSlot` |
| `recover_stale` | `RecoversStale` (the owner left the states that hold locks), `RecoversOld` (its heartbeat or its rows are too old) |
| `_worker_run`, `_complete_worker`, `_worker_failed` | `WorkerBegins`, `WorkerReadsContract`, `WorkerBlocksContract`, `WorkerFinishes`, `WorkerPublishes`, `WorkerReleases`, `WorkerMoves` |
| `_reviewer_run` | `ReviewerBegins`, `ReviewerReadsContract`, `ReviewerFinishes`, `ReviewerJudges`, `ReviewerReleases`, `ReviewerMoves` |
| agentctl and owner decisions | `OrderTakesLocks`, `OrderChecks`, `OrderEnds`, `LeadRepairs`, `LeadResumes`, `LeadResolves`, `OwnerMerges`, `Closes` |
| the process | `Kill`, `Drain`, `DrainEnds`, `Restart`, `OrphanEnds`, `GrowsSilent`, `Resumes` |

A step is one store transaction with the reads before it; `transition()` is a compare-and-set against
the table of `state_machine.py` and raises otherwise (`MoveOrRaise`). Machine load, the heavy-job
pool, priorities and dependencies of the scheduler only make it wait (`MainWaits`, or `MainReads` not
taken). `refresh_contract` is `Reads`: whoever reads the live contract (the poll, a repair about to ask for
locks, a worker or a reviewer about to start its agent) stores the edited one with its other locks
(`Adopts`) or blocks the issue (`Rejects`); none of them acquires what the edit added. One timing assumption is built in and named (`Settled`): a thread spawned in one tick has
begun before a later tick looks at its issue, ticks being seconds apart.

### MergeGate

`head`, `behind`, `merged`, `green` are GitHub's; `state`, `validated`, `approved`, `reviewing` the
record and the reviewer; `pending`, `offers` the confirmation a chat has open and all that were
shown; `presses`, `offset`, `marked`, `queue` the updates on their way; `pc[t]`, `job[t]`, `sha[t]` a
handler thread; `tick`, `seen` the orchestrator's tick and what it read before its network call.

| Code | Actions |
|---|---|
| `poll_once`, `_worker_loop`, `_ensure_worker` | `Polls`, `SavesOffset`, `Takes`, `Replaces` |
| `_do_merge_pr`, `_do_reject_pr`, `_do_confirm_merge`, `_do_confirm_reject`, cancel | `Asks`, `Offers`, `Confirms`, `Clears`, `Rejects`, `Cancels`, `Expires` |
| `owner_merge` | `Begins`, `ReadsPull`, `ChecksGates`, `ChecksBase`, `Sends`, `Records` |
| tick | `TickReads`, `TickReadsPull`, then one of `FindsMerged`, `Opens`, `JudgesCI`, `FindsNewHead`, `StartsReview`, `FindsApproval`, `Awaits`, `UpdatesBranch` + `Invalidates`, `Conflicts` |
| threads and people | `Reviews`, `Fixes`, `Smokes`, `Pushes`, `BaseMoves`, `MergesOutside`, `Orders`, `CITurnsGreen` |
| restarts | `ServiceRestarts`, `OrchestratorRestarts` |

Evidence of a head is green or not; a risk policy that asks for more is an approval that is missing;
a merge commit goes by the head it squashes.

### IntegrationMode

`day` is the calendar (even days belong to a period); `period`, `closedThrough`, `integrations`,
`rollup` the meta rows; `mine` the orchestrator's own copy of the period; `roll[p]` the rollup issue
of a period; `pr`, `base`, `branches`, `on`, `main`, `stale` GitHub; `tree` the branch the one
integration worktree was made for; `doing[a]` the next step of the tick, the finishing thread, each
smoke thread and one order of another process, with what it has read.

| Code | Actions |
|---|---|
| `check_period`, `start_period` | `FollowsEnd`, `StartsPeriod` |
| `end_period` (tick or agentctl) | `TickEndsPeriod`/`OrderEndsPeriod`, `Closes`, `MarksClosed`, `LooksForRollup`, `RefreshesRollup` or `DropsBranch` or `OpensRollup` + `FilesRollup` |
| `_integrate` | `Aims`, `MergesChild` or `MergeRefused`, `RecordsIntegrated` or `AnswerLost`, `ReadsIntegrations`, `AddsIntegration`, `AsksRollup`, `CarriesToRollup` |
| `_integration_smoke_run` | `SmokeEnds`, `SmokeReverts`, `ReadsIntegrations`, `Forgets`, `SmokeSendsBack` |
| `rollup_exclude` | `ExcludeBegins`, `ExcludeReverts`, `ReadsIntegrations`, `Forgets`, `ExcludeUnlists`, `ExcludeBlocks` |
| the rollup | `RollupReadies`, `RollupInvalidated`, `RollupClosed`, `OwnerMerges`, `MainSmokeEnds` |
| `_finish_rollup` | `FinishGathers`, `FinishRetargets`, `FinishDeletes`, `FinishClears`, `ReadsIntegrations`, `FinishTidies` |

`merge_pr` raises the same error when GitHub refused and when it merged and the answer was lost: the
child is blocked both times, `AnswerLost` with its change on the branch and on no record.
A meta row is JSON that is read in one statement and written back in another, so every
read-modify-write is two actions. `_finish_rollup`'s loop over the children, which only moves issues
that are INTEGRATED, is one. The history variable `mishaps` records five things no guard of the code
prevents, defined above the properties in the module: `cut`, `overlap`, `late`, `displaced`, `kept`.
Each property says which of them can break it, and a run with the name taken out of its list
finds a counterexample, so no excuse is there to spare. What is left is what the code does keep: the
order of steps, of two actors at once, through which red smoke tests, reverts, exclusions, early ends
and refusals pass without one of the five.

## 3. Runs

| Run | Bounds | Shows |
|---|---|---|
| `service_concurrent` | 3 requests, 2 in flight, wet rooms 0..1, 1 crash, all endpoints | `HistoryIsSound`, `MirrorsUnlessDirect`, `ConsumedBeforeApplied`, `LogExplainsPreferences`, `RefusedLeavesNoTrace` and the types hold under every interleaving |
| `service_serial` | 3 requests one after another, wet rooms 0..2, 2 crashes, all endpoints | `AppliedOnce`, `RowsExceedOnlyByCountEdit`, `VersionsAreExplained`; `KeepsHistory`: the service implements `ProjectHistory` |
| `json_store` | 4 calls on 2 projects, 3 overlapping, 1 crash | `LostOnlyByOverlap`, `TornForGood`; `AtomicUntilOverlap`: until two writers overlap the file implements `AtomicStore` |
| `knowledge_index` | 2 agents, 2 documents, 2 texts, 2 configurations, 1 edit, 1 kill | `OneWriter`, `OnlyHolderWrites`, `ChunksAreOfTheChecksum`, `RefreshCatchesUp`, `RebuildIsUniform`, and under fairness `EveryoneEnds` |
| `issue_lifecycle` | 1 issue with two contracts, 1 repair, 1 kill or drain, 1 intervention (an order, an edit, a closing, ...) | `BudgetHolds`, `BlockStands`, `LocksCoverWork`; under fairness `ClaimsAreSettled`, `LocksComeFree` |
| `issue_locks` | 2 issues that clash over a lock, one with two contracts, 2 workers, 1 intervention, no repair, no kill | `LocksAreGranted`: the locks implement `LockTable` beside conflicting rows |
| `merge_gate` | 2 handler threads, 2 heads, 1 offer, 3 presses or 2 and 1 event | `MergedAsConfirmed`, `OneAttempt`, `UpdatesHandledOnce`, and under fairness `MergeIsRecorded`, `ReadinessIsHonest` |
| `integration_mode` | 2 children, 2 periods, 1 trouble (kill, refusal, lost answer, red smoke, order) | `DoneIsOnMain`, `WorkSurvives`, `RecordsMatchBranches`, `LandedIsDone`, `MainIsTheOwnersUnlessTurned` |
| `double_confirm` | 2 in flight, PATCH and chat | violation: `AppliedOnce` |
| `direct_design` | 1 client, parse and POST /design | violation: `EveryGenerationIsAVersion` |
| `index_mixed_vectors` | 2 agents, no edits, no kills | violation: `VectorsMatchMeta` |
| `team_lead_on_main` | as `integration_mode` | violation: `MainIsTheOwners` |

Three configurations are beside the runs, one for each promise that a single statement breaks; each ends
in a violation too: `count_edit.cfg` (`RowsWithinCount`, of `MCProjectService`),
`review_drops_requests.cfg` (`UnsupportedStandsUntilParsed`, of `MCProjectService`) and
`index_stale_keywords.cfg` (`KeywordRowsAreChunks`, of `MCKnowledgeIndex`).

Why the bounds are enough. Three requests are offer, first confirmation, second confirmation; or
change, change, rollback; or two racing handlers and what a third one sees of them. Two handlers in
flight give every pairwise interleaving of repository calls, which is all a lost update takes.
Wet rooms need 0, 1 and, for rows against counts, 2. A crash is useful once per property; the serial
run takes two, so that a change made after a crash can be interrupted as well. In the index two
documents give a half-finished run, two configurations a mismatch, two texts an edit; one edit or
kill hits every step of the other agent. Requests and calls are interchangeable, so they are
symmetry sets in the runs without liveness properties.

One issue meets everything that can happen to an issue, since the threads, orders and steps of an
issue touch another only through the locks table and the caps. What two issues can do to each other
through the table is checked with two in `issue_locks`, where rows do conflict, and proved for any
number of them (`LocksImplementTable`, `LocksAreExclusive`). One repair distinguishes a spent budget from one left over. In the merge gate, one
offer and three presses are ask, confirm and confirm again, or ask, confirm and whatever happens
meanwhile; two heads are the one confirmed and the one pushed after. Two children and two periods are
needed for a rollup to be displaced by the next one, and to be late with one child while the other is
being finished. `IntegrationMode` was also checked outside the runs, which are kept short, with one
child and two troubles over two periods (1.3 million states) and over three (7.6 million), and with two
children and two troubles over one period (3.6 million states).

Fairness. `EveryoneEnds` assumes weak fairness of each agent's own steps: a runnable process is
scheduled, and its polling of the lock ends at the deadline (`acquire` compares with a monotonic
clock in every round). Nothing is assumed of edits and kills. `review_drops_requests.cfg` states the
fairness of handlers (the thread pool runs what it has accepted); the property itself is a safety
property.

`issue_lifecycle` assumes that threads and the process manager keep running, that a started order
ends, that the pause is lifted (the usage guard checks in every tick), that heartbeats age, and that
every tick looks at every issue again (strong fairness of `MainReads`, `RecoversStale` and
`ClearsSlot`: the tick loops over all issues, but what it finds may come and go between two ticks).
Nothing is assumed of CI, of a reviewer's verdict or of people. `merge_gate` assumes the
poll loop, the handler threads, the tick, the fixer and the smoke test go on, and again nothing of
CI, the reviewer and people.

Deadlock is checked in the runs of the backend; requests and agents that are all served stutter
explicitly (`Served`, `Finished`, `AllOver`). The runs of the agent team switch it off: with
everything blocked or done and the bounds reached the system really does stop, and waits for a person.

## 4. Where code and text disagree

Each of these is a finding in `PROJECT.json` with the quotation. Those with a run in brackets end in a
violation of the text's own claim; the others are named exceptions of a property that holds but for
them, or have a configuration beside the runs.

1. Lowering the count of wet rooms in Settings leaves more kinds than wet rooms (`count_edit.cfg`);
   `RowsExceedOnlyByCountEdit` says that nothing else does.
2. Two concurrent confirmations both apply one proposal (`double_confirm`).
3. Saving the review screen erases the unsupported requests, and the corridor width, the room
   relationships and the laundry request by the same omission (`review_drops_requests.cfg`).
4. A first index that failed midway lets `index --changed` of another configuration mix vectors
   (`index_mixed_vectors`).
5. Re-indexing leaves stale rows in the keyword index (`index_stale_keywords.cfg`).
6. POST /design shows a new design without a version, though every new generation is to append one
   (`direct_design`). `MirrorsUnlessDirect` excepts it.
7. The Team Lead's merge of a child reaches main, though "Main is never merged autonomously", when
   `_finish_rollup` turns the pull request to main between `_integrate`'s look at its base and the merge
   (`team_lead_on_main`). `MainIsTheOwnersUnlessTurned` says that this is the only way.
8. A child integrated after the owner merged the rollup, and before `_finish_rollup` clears the record,
   is announced as "Done — landed on main" though its change is only on the branch then deleted (mishap
   `late`, which `DoneIsOnMain` excepts).
9. An agent that outlives its killed orchestrator and the heartbeat limit meets a second worker in the
   same worktree (`orphan`), though reconciliation "never duplicates work".
10. An edited contract is adopted with its new locks and nobody acquires them: a repair asks for locks
    only when it holds none, and the contract is read again after that. An agent then works without the
    exclusive lock its contract asks for (`loosened`, which `LocksCoverWork` excepts).

Behaviours of the code that no text contradicts, met while modelling. The properties are stated so
that they hold beside them, with the exception named in the definition.

Backend: `clear` killed between its four commits leaves
checksums without chunks, which `index --changed` skips (`RefreshCatchesUp`); spatial edits do not
create a version (`MirrorsUnlessDirect`).

Issue lifecycle:

- a reviewer that sends an issue back after the main thread acted on another verdict buys one run
  more than the budget (`ordered` counts it with the runs people order);
- `agentctl block` and `requeue` release the locks before a transition that may be refused, and
  `locks release` looks at the state first and releases later: a running issue can lose its locks
  (`loosened`); a repair that was being spawned acquires locks for an issue blocked meanwhile, until
  `recover_stale` finds them;
- a thread past its last look at an issue may move it on after the lead blocked it: FIX_REQUIRED is
  legal from BLOCKED (`BlockStands` speaks of the blocks that met no such thread);
- a tick that read the record before the verdict was stored starts a second review of the same head;
- the caps of `resource_manager.py` count issues in WORKING, not repairs spawned and not begun;
- `recover_stale` releases the locks of an issue at work whose heartbeat is older than their time, as
  its text says; it looks neither at the thread nor at the pid, so a run that was only asleep with the
  machine goes on without them (`loosened`).

Merge gate:

- `owner_merge` does not look at the state again after its slow steps; what keeps it right is that
  GitHub is told the head;
- a handler that was replaced serves the queue again when it comes back, and may have shared its
  confirmation with its successor (`OneAttempt` excepts `replaced`);
- a merge whose answer is lost, followed by an invalidated readiness, ends as BLOCKED like an
  external merge: recorded, but under the wrong name;
- an update that is marked but not handled when the service dies is lost: at most once, by design.

Protected periods (`mishaps`):

- `late`: the branch of a rollup the owner has merged changes once more: a child joins it (findings 7
  and 8), or a smoke revert or an exclusion takes one off it that is on main;
- `displaced`: there is one `rollup` record; a second period's end overwrites it, and finishing the
  first rollup marks the second one's children DONE and deletes the second one's branch; an empty list
  stands for all integrations, so a rollup whose only child was excluded finishes everybody else's;
- `cut`: a crash or a refusal in the middle of `end_period`, or a crash or a lost answer after a merge
  and before its record, leaves work on a branch without a rollup, or a child on a branch that no record
  has, and nothing looks for it again;
- `overlap`: the meta rows are read, changed and written back by threads and processes without a lock;
  in particular an order to end a period that stalls before it writes can close a later one;
- `kept`: a smoke revert does not take the child off `rollup.children`; the integration worktree
  stays on the first branch it was made for, so a revert in a later period cannot be made there and
  the child is blocked with its merge left on the branch.

## 5. Proofs

`tlapm` checks every leaf. The theorems hold for any set of requests or agents, any bounds, any
number in flight, any crash count.

`ProjectServiceProofs`: `TypeCorrect`, `HistoryAlwaysSound`, `DesignShownIsActive`,
`TrailExplainsPreferences`, `RefusalsLeaveNoTrace` and `ConsumedFirst`, for any number of handlers at
once, from `NoneAssumption`, `MaxWetAssumption` and `MaxCrashesAssumption`.

- `HInv == TypeOK /\ HistoryIsSound /\ \A r \in Requests : Carries(r)` is inductive. `HistoryIsSound`
  alone is not: a handler writes back a *stale* copy, so `Carries` says that the copy every handler
  holds points at a stored version, that the version it is about to mirror or activate is stored and
  has the design it will write, that a diff about to be persisted is still valid for the copy it
  will be applied to, and which handlers have entered. Versions only grow (`Growing`), so what is
  true of a copy stays true while other handlers run. Each action is a lemma; most are instances of
  a few step lemmas (a handler that ends, that goes on holding a copy, that shows a version).
- `MInv == Mirrors(project) /\ \A r : Mirrors(base[r])` on top of it: every copy that can be written
  back mirrors its own pointer, so that a stale write loses updates without ever showing a design
  under another version's name.
- `TrailInv` says of the stored project and of every copy a handler can write back that its own audit
  trail explains its own preferences (`Explained`). Handlers overwrite each other's updates, but
  always with a whole record, so what is stored is explained whoever wrote last. That
  `_apply_diff` keeps a copy explained is `ApplyDiffExplained`: an entry a diff appends is the last
  about its preference, and the diff leaves every other preference and its entries alone.
- A refusal at the end says nothing about what the handler, or anybody who read after it, may still
  write. `Untouched` is inductive: a request that has written nothing yet (idle, looking at a
  proposal, about to apply, or refused) is `Clean`, in none of the stores and in no copy or diff
  that any handler holds. A handler signs only with its own name, so the handlers of others keep a
  request clean (one lemma per action), and its own steps leave the unwritten states only where they
  write.
- `Consumes` says of a confirmation that while its proposal can be confirmed it is clean and has not
  passed `mark_consumed` (unless it died before). `Delivered` makes that last: who offered
  something is over, so an id that was consumed or replaced is never stored again.

`ProjectSerialProofs`: `ServedAloneKeepsHistory`, `ServedAloneExplains`, `ServedAloneExceedsByEdit` and
`ServedAloneAppliesOnce`, for `InFlight = 1`: what the code means to promise a single client, and what
the runs with two handlers at once show it does not promise several.

- `SInv == HInv /\ Alone /\ Fresh` is inductive: one handler at most is between its repository calls
  (`Alone`, from the guard of `CanEnter`), so the copy it holds is the stored project, what it is about
  to mirror is the newest version, and the proposal it is about to consume is pending (`Fresh`).
- The refinement: each step that writes is one action of `ProjectHistory` (one lemma each), and a diff
  that records nothing changes nothing (`RecordedOrNothing`). That no entry is ever dropped
  (`LogGrows`) is read off the refinement and used by the other theorems.
- `ServedAloneExplains` needs that a handler that generates has signed its change (`PersistSigns`),
  `ServedAloneExceedsByEdit` that a review about to be saved fits the rows stored (`Fits`),
  `ServedAloneAppliesOnce` that of all confirmations of a proposal one at most has taken it
  (`TakenOnce`), on top of `Untouched` and `Consumes`.

`KnowledgeIndexProofs`: `TypeCorrect`, `MutualExclusion`, `WritersHoldTheLock`, `SearchIsSound`,
`RebuildsAreUniform`, `RefreshesCatchUp`, from `NoneAssumption` and `BoundsAssumption`. The inductive invariant conjoins the types (with
`Embedded`: what a handler is about to store is a content, never the absence of one), `OneWriter`,
`ClearedFirst` (the chunks are gone before the checksums are, in a clear) and
`ChunksAreOfTheChecksum`; without `ClearedFirst` the third DELETE of a clear would leave chunks
without a checksum.

The proofs about refreshes and rebuilds rest on `Progress`, what a run has done so far, as one
formula per kind of run: a rebuild has left only its own vectors in what it has swept (`Swept`,
`Rebuilt`), and a refresh has caught up with every document it is past, unless an edit overtook it
(`CaughtUp`); `ClearsClear` says what a clear has emptied, `Matched` that nothing but a clear killed
half way leaves a checksum without its chunk. From these come `RebuildsAreUniform` and
`RefreshesCatchUp`.

`JsonFileStoreProofs`: `TypeCorrect`, `TornStaysTorn`, `OverlapAloneLoses`, `CallsAreAtomicUntilOverlap` and,
for `InFlight = 1`, `AloneCallsAreAtomic`, from the assumptions of that module. `OverlapAloneLoses` needs
that a writer that met nobody is the only one at work (`Alone`), that what a writer will dump holds its
exchange (`Brought`), and that what was acknowledged is also in the copy of every writer still at work
(`Remembered`), mixtures apart. `TornStaysTorn` rests on the guard of the load: only a call that could
read the file saves. `CallsAreAtomicUntilOverlap` maps the file to what the open writer will have dumped
(`Stored`): a change takes effect when the file is truncated and is acknowledged when the dump is through.
It needs, of the states no overlap has met (`Orderly`), that one writer at most is at work (`Single`),
that nobody shares the file, and that what a call is about to save is the present file with its own
change (`Current`). `AloneCallsAreAtomic` adds that calls served one at a time never overlap.

`IssueLifecycleProofs`: `TypeCorrect`, `LocksImplementTable`, `LocksAreExclusive`, `BudgetIsKept`,
`BlockIsKept`, `WorkIsCovered`, from `ContractsAssumption` (a contract asks for a lock in one mode) and
`BoundsAssumption`.

- The refinement: every step either leaves the rows alone, gives back all rows of one issue, or adds
  what one issue needs under the guard of `LockTable!Grant` (`CanLock`). Exclusion is proved of
  `LockTable` and inherited.
- `BudgetHolds` needs the budget *before* a run begins: whoever may still start one has room
  (`Budgeted`: `MayRun(i)` implies that the attempt fits). A thread that looked at the budget and has
  not moved the issue yet is covered by the same formula.
- `BlockStands` needs that no thread past its last look exists for a standing block (`Parked`).
- `LocksCoverWork` needs `Begun` (while the main thread handles an issue, no worker of it is about to
  begin), `Careful` (what the main thread is about to release does not belong to an issue at work,
  unless its worker is gone) and `Guarded` (an issue that holds a lock holds all its stored contract
  asks for, unless it is `loosened`, and is covered so from the grant to the end of the run). A repair
  that skips `acquire` because the issue holds some lock is right for that reason alone, and only as long
  as the contract was not edited.

`MergeGateProofs`: `TypeCorrect`, `MergesAsConfirmed`, `HandledOnce`, `AttemptedOnce`, from
`ConstantsAssumption`. `Typed` strengthens the types by `Carries(t)`: a handler past its look-up
carries a stored offer and its head, and past the gates a head that is green and was approved; heads
stay green and approvals given, so what it carries stays true over the slow calls. `Waiting` says that
an update in the queue has not been handled and is there once, `Unspent` that a confirmation that is
still pending, or about to be cleared by a handler, is unused unless a handler was replaced.

`IntegrationModeProofs`: `TypeCorrect` and `OnlyTheOwnersMain` (of `MainIsTheOwnersUnlessTurned`), from
`BoundsAssumption`. `TypeCorrect`
is proved of `Typed`, which adds that an actor at work has a period and the Team Lead's merge a child.
The guard of the merge itself looks at nothing but the pull request, so that main is the owner's needs
what holds of the child from the look at its base to the merge:

- `InHand`: the child is in REVIEW, so no worker opens its pull request anew, and no smoke test of it
  is at work, so none sends it back; that is inductive with `Watched`, a smoke test only runs for a
  child that was integrated.
- `Aimed`: its pull request still aims at the branch the merge is meant for, or at main when that
  branch's rollup was finished (`Justified`), because only `_finish_rollup` turns pull requests.
- `Landing`: the branch `_finish_rollup` works on is that of a finished rollup, or a foreign record
  was in its place.

Most actions leave all of this alone in the same way (`TameStep`, `ApartStep`); the rest have a lemma
each. `MainChanges` says which actions change main at all.

`IntegrationRecordsProofs`: `WhatIsDoneIsOnMain`, `RecordsMatch`, `IntegratedWorkSurvives` and
`LandedRollupIsDone`, from the same assumption. They hold for any number of children, any calendar and
any number of kills, refusals, red smoke tests and orders; a property that excepts a mishap is proved
of the states that mishap has not met. Mishaps are never taken back (`Lasts`), so an invariant that
excepts one is assumed before a step only where it is to be shown after it. Each of the invariants
below was checked by TLC before it was proved, outside the runs, with one child, three periods and
two troubles (7.6 million states).

The four theorems share the following. `Calm` says that nothing was cut short and nothing overwritten.

- The frame: `WhoTouches` names, for every record, the actions that change it, and `WhoMoves`, for
  every actor, those that take it a step on. The lemmas after them follow each actor through its
  handler (`CloserMoves`, `SmokeUndoes`, `HandMoves`, ...), so that the later proofs look at the two
  or three actions that matter to a record and not at all of them.
- `Placed`, where a change is: a child that can still be worked on is on no branch, a change is on
  one branch at most, the one the Team Lead has just merged is on the branch it was meant for, and one
  just taken off a branch is on none until its records are put right.
- `Books` and `Gone`, when the records stop speaking for a branch: its rollup's record was replaced or
  cleared, or the merged rollup is being finished. A branch that is gone stays so (`GoneStays`); that
  needs to know that a rollup about to be filed has no record yet and nobody else files it
  (`FilesOwn`), and what `_finish_rollup` and `end_period` have read.
- `Traced`: what is on record is on its branch, unless someone is just taking it off, or the branch
  was gone and then changed late. The merge goes where the pull request was aimed.

On top of these:

- `DoneIsOnMain` (`DInv`) needs that what a merged rollup carried is on main (`MergedIsOnMain`) and
  that what the pending rollup lists is on its branch or just being taken off (`ListedThere`): a child
  becomes DONE only with the rollup that lists it.
- `RecordsMatchBranches` (`RInv`) needs the converse, that what a branch carries is on record and, once
  its rollup is pending, listed by it (`OnRecord`, `OnList`), and the calendar: the process minds the
  period that is on or is ending it (`Minds`), and a branch without a rollup is that of the period that
  is on, or somebody is at the steps of its end (`Minded`). So closing a period leaves no work behind.
- `WorkSurvives` (`SInv`) needs that a branch the records do not speak for is that of a finished rollup
  (`GoneIsDone`), and that `_finish_rollup` deletes the branch it looked up (`FinishesOwn`). Then a
  branch is only deleted when all it carries is on main, or when it carries nothing (`DeletedIsOnMain`).
- `LandedIsDone` (`LInv`) needs that rollups are of closed periods (`OfClosedPeriods`), so that no
  period brings the branch of a finished one back, that what a branch carries is INTEGRATED or DONE
  (`CarriedIsIntegrated`), and what is left of a branch while its rollup is being finished
  (`FinishedIsGone`, `FinishedIsDone`).

The attempt to prove `Minded` found a case that two periods cannot show: an end ordered by `agentctl`
for one period, stalled between reading it and writing the meta rows, closes a *later* period under
the Team Lead, whose branch then has work, no period and no rollup. `end_period` looks at neither row
again before it writes it. `Closes` and `MarksClosed` now count that as the `overlap` it is, a meta row
written over another actor's change.

Only model-checked: the liveness properties `EveryoneEnds`, `ClaimsAreSettled`, `LocksComeFree`,
`MergeIsRecorded` and `ReadinessIsHonest`. Liveness under fairness and ENABLED are out of reach of the
prover. Every other property of a passing run is stated by a theorem.

## 6. Not modelled

- The planner, geometry and validation: continuous search, out of TLC's reach. They are by far the
  largest part of the code; they keep no state, and the models take from them a design or a failure.
- Retrieval scoring and embeddings (read-only numerics), language-model gateways and prompts, the AI
  harness (offline experiments), the frontend (the models allow every order of requests, hence also
  its own).
- The failure log: one lock and an atomic replace around a bounded list.
- The demo stream: one worker and one reader of a queue, with no effect on any stored state.
- The wet-room normalizer: a pure function over the language model's answer, whose effect on the
  stored record `ProjectService` takes as any list within its rules.
- Project creation (the initial state) and the PATCHed fields without rules of their own.
- Of the agent team: integration branches of a ROOT and a period started by hand (they set the same
  records as the calendar's period, by other conditions), change requests on a rollup, analysis tasks,
  drafts, questions, pairing and the outbox of the remote control (single-table queues without effect
  on an issue), the heavy-job pool and the CI job planning (resources: they delay, which the models
  allow at any time), priorities and dependencies of the scheduler (they choose among issues the
  models let be chosen in any order).

## 7. Plan

1. Done: the modules above, twelve runs, theorems about every module.
2. Done: every safety, action and refinement property of the passing runs is proved.
3. `WetRooms`: the normalizer as functions, against reference definitions over bounded inputs.
4. `DemoStream`: worker thread, queue and generator, with a client that leaves.
5. ROOT branches in `IntegrationMode`: a second kind of branch with the same records.
