----------------------------- MODULE MergeGate -----------------------------
(***************************************************************************)
(* The last gate of one issue: the owner presses Telegram buttons, the     *)
(* remote service hands the updates to its handler thread, the gateway     *)
(* asks for a confirmation and owner_merge merges the pull request on      *)
(* GitHub, while the orchestrator's tick (another process) watches the     *)
(* same record and pull request.  The head of the branch, the base and the *)
(* record can change between any two of their steps; a merge may succeed   *)
(* and its answer be lost; either process may die; a stuck handler thread  *)
(* is replaced and goes on later.                                          *)
(*                                                                         *)
(* A repair's WORKING is folded into FIX_REQUIRED: IssueLifecycle has it,   *)
(* with locks and budgets.  A merge commit goes by the head it squashes.   *)
(***************************************************************************)
EXTENDS Naturals, Sequences, FiniteSets

CONSTANTS
  Threads, First,     \* handler threads of the remote service; the first one
  MaxHeads,           \* commits on the branch (bound)
  MaxOffers,          \* merges or rejects she asks for (bound)
  MaxEvents,          \* pushes, orders, edits, external merges, crashes, stalls (bound)
  MaxOutside          \* the owner's presses and these together (bound)

ASSUME ConstantsAssumption ==
  /\ First \in Threads
  /\ MaxHeads \in Nat \ {0} /\ MaxOffers \in Nat /\ MaxEvents \in Nat /\ MaxOutside \in Nat

VARIABLES
  head, behind, merged, green,     \* GitHub: branch head, base ahead of it, merged head (0: open), heads with green CI
  state, validated, approved,      \* the record: state, validated_commit and the head of an APPROVE verdict (0: none)
  reviewing,                       \* the head a reviewer thread reads (0: none)
  pending,                         \* the chat's pending_merge: an offer's nonce (0: none)
  offers,                          \* every confirmation shown: kind and head, by nonce
  presses,                         \* updates at Telegram
  offset, delivering, marked,      \* telegram_offset, between mark and offset, remote_updates
  queue,                           \* the service's in-memory queue
  pc, job, sha,                    \* per handler thread: where it is, its update, the head it handles
  current, replaced,               \* the thread the service watches; whether one was replaced
  tick, seen,                      \* the orchestrator's tick and the pull request it read
  events,                          \* bounded
  attempts, handled,               \* history: confirmations used per nonce, runs per update
  vetted,                          \* history: heads a reviewer approved
  mergedFor                        \* history: nonce of the merge (0: none)

github   == <<head, behind, merged, green>>
issue    == <<state, validated, approved, reviewing>>
chat     == <<pending, offers>>
telegram == <<presses, offset, delivering, marked, queue>>
handler  == <<pc, job, sha, current, replaced>>
ticker   == <<tick, seen>>
history  == <<attempts, handled, vetted, mergedFor>>
vars     == <<github, issue, chat, telegram, handler, ticker, events, history>>

(* The part of state_machine.TRANSITIONS between PR_OPEN and DONE.          *)
States == {"PR_OPEN", "CI", "REVIEW", "FIX_REQUIRED", "READY_FOR_OWNER", "MERGED", "BLOCKED", "DONE"}

Successors(s) ==
  CASE s = "PR_OPEN"         -> {"CI", "BLOCKED"}
    [] s = "CI"              -> {"REVIEW", "FIX_REQUIRED", "BLOCKED"}
    [] s = "REVIEW"          -> {"READY_FOR_OWNER", "FIX_REQUIRED", "BLOCKED", "CI"}
    [] s = "FIX_REQUIRED"    -> {"PR_OPEN", "BLOCKED"}
    [] s = "READY_FOR_OWNER" -> {"MERGED", "CI", "FIX_REQUIRED", "BLOCKED"}
    [] s = "MERGED"          -> {"DONE", "BLOCKED"}
    [] s = "BLOCKED"         -> {"PR_OPEN", "FIX_REQUIRED", "DONE"}
    [] s = "DONE"            -> {}

(* _set_state with the validated_commit that goes with it, or an exception. *)
SetState(to, commit) ==
  IF to \in Successors(state) THEN state' = to /\ validated' = commit
                         ELSE UNCHANGED <<state, validated>>

(* To the fixer, or to the lead when the budget is spent.                   *)
SendsBack == SetState("FIX_REQUIRED", validated) \/ SetState("BLOCKED", validated)

Event == events < MaxEvents /\ Len(presses) + events < MaxOutside /\ events' = events + 1

-----------------------------------------------------------------------------
(* Telegram and the poll loop.                                              *)

(* The owner writes merge or reject, or presses a button of an offer.       *)
Press(p) ==
  /\ Len(presses) + events < MaxOutside
  /\ presses' = Append(presses, p)
  /\ UNCHANGED <<github, issue, chat, offset, delivering, marked, queue, handler, ticker, events, history>>

Asked == Cardinality({u \in 1..Len(presses) : presses[u].nonce = 0})

Presses ==
  \/ Asked < MaxOffers /\ \E kind \in {"merge", "reject"} : Press([kind |-> kind, nonce |-> 0])
  \/ \E kind \in {"confirm", "cancel"}, n \in 1..Len(offers) : Press([kind |-> kind, nonce |-> n])

(* Mutant: an update is handed on whether it is marked or not.              *)
PollsAgain ==
  /\ ~delivering /\ offset < Len(presses)
  /\ delivering' = TRUE
  /\ marked' = marked \cup {offset + 1}
  /\ queue' = Append(queue, offset + 1)
  /\ UNCHANGED <<github, issue, chat, presses, offset, handler, ticker, events, history>>

(* poll_once: an update already marked is not handed on again, and the      *)
(* offset moves after that.                                                 *)
Polls ==
  /\ ~delivering /\ offset < Len(presses)
  /\ delivering' = TRUE
  /\ marked' = marked \cup {offset + 1}
  /\ queue' = IF offset + 1 \in marked THEN queue ELSE Append(queue, offset + 1)
  /\ UNCHANGED <<github, issue, chat, presses, offset, handler, ticker, events, history>>

SavesOffset ==
  /\ delivering
  /\ delivering' = FALSE /\ offset' = offset + 1
  /\ UNCHANGED <<github, issue, chat, presses, marked, queue, handler, ticker, events, history>>

-----------------------------------------------------------------------------
(* A handler thread t.                                                      *)

Goes(t, step) == pc' = [pc EXCEPT ![t] = step] /\ UNCHANGED <<job, sha>>
Stops(t)      == pc' = [pc EXCEPT ![t] = "idle"] /\ job' = [job EXCEPT ![t] = 0] /\ sha' = [sha EXCEPT ![t] = 0]
GoesWith(t, step, commit) ==
  pc' = [pc EXCEPT ![t] = step] /\ sha' = [sha EXCEPT ![t] = commit] /\ UNCHANGED job
Update(t)     == presses[job[t]]
Elsewhere     == <<presses, offset, delivering, marked, queue, current, replaced, ticker>>

(* _worker_loop; a thread that was replaced serves the queue too once it    *)
(* comes back.                                                              *)
Takes(t) ==
  /\ pc[t] = "idle" /\ queue # <<>>
  /\ queue' = Tail(queue)
  /\ job' = [job EXCEPT ![t] = Head(queue)]
  /\ handled' = [handled EXCEPT ![Head(queue)] = @ + 1]
  /\ pc' = [pc EXCEPT ![t] = presses[Head(queue)].kind]
  /\ UNCHANGED <<github, issue, chat, presses, offset, delivering, marked, sha, current, replaced, ticker,
                 events, attempts, vetted, mergedFor>>

(* _do_merge_pr and _do_reject_pr: a pull request that is ready, for the    *)
(* merge at the head that was validated.                                    *)
Asks(t) ==
  /\ pc[t] \in {"merge", "reject"}
  /\ IF state = "READY_FOR_OWNER" /\ (pc[t] = "merge" => head = validated)
     THEN GoesWith(t, IF pc[t] = "merge" THEN "offerMerge" ELSE "offerReject", validated)
     ELSE Stops(t)
  /\ UNCHANGED <<github, issue, chat, Elsewhere, events, history>>

(* Mutant: the pending confirmation names the next offer.                   *)
OffersAhead(t) ==
  /\ pc[t] \in {"offerMerge", "offerReject"}
  /\ offers' = Append(offers, [kind |-> IF pc[t] = "offerMerge" THEN "merge" ELSE "reject", head |-> sha[t]])
  /\ pending' = Len(offers) + 2
  /\ Stops(t)
  /\ UNCHANGED <<github, issue, Elsewhere, events, history>>

Offers(t) ==
  /\ pc[t] \in {"offerMerge", "offerReject"}
  /\ offers' = Append(offers, [kind |-> IF pc[t] = "offerMerge" THEN "merge" ELSE "reject", head |-> sha[t]])
  /\ pending' = Len(offers) + 1
  /\ Stops(t)
  /\ UNCHANGED <<github, issue, Elsewhere, events, history>>

Cancels(t) ==
  /\ pc[t] = "cancel"
  /\ pending' = 0
  /\ Stops(t)
  /\ UNCHANGED <<github, issue, offers, Elsewhere, events, history>>

(* _do_confirm_merge and _do_confirm_reject: only the button of the offer   *)
(* that is pending, which is used up before anything is done with it.       *)
Confirms(t) ==
  /\ pc[t] = "confirm"
  /\ IF pending = Update(t).nonce
     THEN GoesWith(t, "clear", offers[pending].head)
     ELSE Stops(t)
  /\ UNCHANGED <<github, issue, chat, Elsewhere, events, history>>

(* Mutant: the confirmation stays pending until its expiry.                 *)
ClearsNothing(t) ==
  /\ pc[t] = "clear"
  /\ attempts' = [attempts EXCEPT ![Update(t).nonce] = @ + 1]
  /\ Goes(t, IF offers[Update(t).nonce].kind = "merge" THEN "begin" ELSE "refuse")
  /\ UNCHANGED <<github, issue, chat, Elsewhere, events, handled, vetted, mergedFor>>

Clears(t) ==
  /\ pc[t] = "clear"
  /\ pending' = 0
  /\ attempts' = [attempts EXCEPT ![Update(t).nonce] = @ + 1]
  /\ Goes(t, IF offers[Update(t).nonce].kind = "merge" THEN "begin" ELSE "refuse")
  /\ UNCHANGED <<github, issue, offers, Elsewhere, events, handled, vetted, mergedFor>>

(* owner_reject.                                                            *)
Rejects(t) ==
  /\ pc[t] = "refuse"
  /\ IF state = "READY_FOR_OWNER" THEN SetState("BLOCKED", validated) ELSE UNCHANGED <<state, validated>>
  /\ Stops(t)
  /\ UNCHANGED <<github, approved, reviewing, chat, Elsewhere, events, history>>

(* owner_merge, one network call or transaction at a time.  The record      *)
(* first: ready, and validated for the head the owner confirmed.            *)
Begins(t) ==
  /\ pc[t] = "begin"
  /\ IF state = "READY_FOR_OWNER" /\ validated = sha[t] THEN Goes(t, "pull") ELSE Stops(t)
  /\ UNCHANGED <<github, issue, chat, Elsewhere, events, history>>

(* The pull request: a head that moved invalidates the readiness.           *)
ReadsPull(t) ==
  /\ pc[t] = "pull"
  /\ IF merged = 0 /\ head = sha[t] THEN Goes(t, "gates") ELSE Stops(t)
  /\ IF merged = 0 /\ head # sha[t] THEN SetState("CI", 0) ELSE UNCHANGED <<state, validated>>
  /\ UNCHANGED <<github, approved, reviewing, chat, Elsewhere, events, history>>

(* The live contract may no longer parse; then the record and the evidence  *)
(* are read again and the policy decides.                                   *)
ChecksGates(t) ==
  /\ pc[t] = "gates"
  /\ \/ /\ IF approved = sha[t] /\ sha[t] \in green THEN Goes(t, "base") ELSE Stops(t)
        /\ UNCHANGED <<state, validated, events>>
     \/ Event /\ SetState("BLOCKED", validated) /\ Stops(t)
  /\ UNCHANGED <<github, approved, reviewing, chat, Elsewhere, history>>

ChecksBase(t) ==
  /\ pc[t] = "base"
  /\ IF behind THEN Stops(t) ELSE Goes(t, "send")
  /\ UNCHANGED <<github, issue, chat, Elsewhere, events, history>>

(* Mutant: merge_pr without a sha merges whatever the head is by then.      *)
SendsAnyHead(t) ==
  /\ pc[t] = "send"
  /\ IF merged = 0
     THEN /\ merged' = head /\ mergedFor' = Update(t).nonce
          /\ Goes(t, "record") \/ Stops(t)
     ELSE Stops(t) /\ UNCHANGED <<merged, mergedFor>>
  /\ UNCHANGED <<head, behind, green, issue, chat, Elsewhere, events, attempts, handled, vetted>>

(* merge_pr names the head; GitHub merges no other.  The answer may be lost *)
(* and the owner told that nothing was merged.                              *)
Sends(t) ==
  /\ pc[t] = "send"
  /\ IF merged = 0 /\ head = sha[t]
     THEN /\ merged' = head /\ mergedFor' = Update(t).nonce
          /\ Goes(t, "record") \/ Stops(t)
     ELSE Stops(t) /\ UNCHANGED <<merged, mergedFor>>
  /\ UNCHANGED <<head, behind, green, issue, chat, Elsewhere, events, attempts, handled, vetted>>

Records(t) ==
  /\ pc[t] = "record"
  /\ SetState("MERGED", sha[t])
  /\ Stops(t)
  /\ UNCHANGED <<github, approved, reviewing, chat, Elsewhere, events, history>>

HandlerStep(t) ==
  \/ Takes(t) \/ Asks(t) \/ Offers(t) \/ Cancels(t) \/ Confirms(t) \/ Clears(t) \/ Rejects(t)
  \/ Begins(t) \/ ReadsPull(t) \/ ChecksGates(t) \/ ChecksBase(t) \/ Sends(t) \/ Records(t)

(* _ensure_worker: the thread is stuck for more than HANDLER_STALL_SECONDS. *)
Replaces(t) ==
  /\ pc[current] # "idle" /\ pc[t] = "unborn"
  /\ Event
  /\ current' = t /\ replaced' = TRUE
  /\ Stops(t)
  /\ UNCHANGED <<github, issue, chat, telegram, ticker, history>>

(* merge_confirmation_ttl_seconds are over.                                 *)
Expires ==
  /\ pending # 0 /\ Event
  /\ pending' = 0
  /\ UNCHANGED <<github, issue, offers, telegram, handler, ticker, history>>

Fresh  == [t \in Threads |-> IF t = First THEN "idle" ELSE "unborn"]
NoneOf == [t \in Threads |-> 0]

(* The service dies and is started again: its queue and threads are gone.   *)
ServiceRestarts ==
  /\ Event
  /\ pc' = Fresh /\ job' = NoneOf /\ sha' = NoneOf /\ current' = First
  /\ queue' = <<>> /\ delivering' = FALSE
  /\ UNCHANGED <<github, issue, chat, presses, offset, marked, replaced, ticker, history>>

-----------------------------------------------------------------------------
(* The orchestrator's tick.                                                 *)

Nothing  == [state |-> "DONE", validated |-> 0, approved |-> 0, head |-> 0, merged |-> 0]
TickFree == tick = "none"
TickDone == tick' = "none" /\ seen' = Nothing

(* reconcile or a step: the record, then the pull request over the network. *)
TickReads ==
  /\ TickFree /\ state \in {"PR_OPEN", "CI", "REVIEW", "READY_FOR_OWNER"}
  /\ tick' = "reading"
  /\ seen' = [state |-> state, validated |-> validated, approved |-> approved, head |-> 0, merged |-> 0]
  /\ UNCHANGED <<github, issue, chat, telegram, handler, events, history>>

TickReadsPull ==
  /\ tick = "reading"
  /\ tick' = "deciding"
  /\ seen' = [seen EXCEPT !.head = head, !.merged = merged]
  /\ UNCHANGED <<github, issue, chat, telegram, handler, events, history>>

Decides(in) == tick = "deciding" /\ seen.state \in in

(* Mutant: MERGED from any state, which only READY_FOR_OWNER allows.        *)
FindsOwnersMerge ==
  /\ Decides(States) /\ seen.merged # 0
  /\ SetState("MERGED", seen.merged)
  /\ TickDone
  /\ UNCHANGED <<github, approved, reviewing, chat, telegram, handler, events, history>>

(* Merged while every gate was green, or from outside the workflow.         *)
FindsMerged ==
  /\ Decides(States) /\ seen.merged # 0
  /\ IF seen.state = "READY_FOR_OWNER" THEN SetState("MERGED", seen.merged) ELSE SetState("BLOCKED", validated)
  /\ TickDone
  /\ UNCHANGED <<github, approved, reviewing, chat, telegram, handler, events, history>>

Opens ==
  /\ Decides({"PR_OPEN"}) /\ seen.merged = 0
  /\ SetState("CI", validated)
  /\ TickDone
  /\ UNCHANGED <<github, approved, reviewing, chat, telegram, handler, events, history>>

(* _step_ci: green, red or in conflict, or still pending.                   *)
JudgesCI ==
  /\ Decides({"CI"}) /\ seen.merged = 0
  /\ \/ /\ seen.head \in green
        /\ validated' = seen.head
        /\ state' = IF "REVIEW" \in Successors(state) THEN "REVIEW" ELSE state
     \/ seen.head \notin green /\ (SendsBack \/ SetState("FIX_REQUIRED", 0))
     \/ seen.head \notin green /\ UNCHANGED <<state, validated>>
  /\ TickDone
  /\ UNCHANGED <<github, approved, reviewing, chat, telegram, handler, events, history>>

(* Mutant: only a review is taken back when the head moves.                 *)
FindsNewHeadInReview ==
  /\ Decides({"REVIEW", "READY_FOR_OWNER"}) /\ seen.merged = 0 /\ seen.head # seen.validated
  /\ IF seen.state = "REVIEW" THEN SetState("CI", 0) ELSE UNCHANGED <<state, validated>>
  /\ TickDone
  /\ UNCHANGED <<github, approved, reviewing, chat, telegram, handler, events, history>>

(* The head moved: _invalidate_readiness, and the same in REVIEW.           *)
FindsNewHead ==
  /\ Decides({"REVIEW", "READY_FOR_OWNER"}) /\ seen.merged = 0 /\ seen.head # seen.validated
  /\ SetState("CI", 0)
  /\ TickDone
  /\ UNCHANGED <<github, approved, reviewing, chat, telegram, handler, events, history>>

Unmoved == seen.merged = 0 /\ seen.head = seen.validated

(* _step_review without a verdict for this head, and with an approval.      *)
StartsReview ==
  /\ Decides({"REVIEW"}) /\ Unmoved /\ seen.approved # seen.head
  /\ reviewing' = IF reviewing = 0 THEN seen.head ELSE reviewing
  /\ TickDone
  /\ UNCHANGED <<github, state, validated, approved, chat, telegram, handler, events, history>>

FindsApproval ==
  /\ Decides({"REVIEW"}) /\ Unmoved /\ seen.approved = seen.head
  /\ IF seen.head \in green THEN SetState("READY_FOR_OWNER", validated) ELSE UNCHANGED <<state, validated>>
  /\ TickDone
  /\ UNCHANGED <<github, approved, reviewing, chat, telegram, handler, events, history>>

(* _step_ready_for_owner: still honest; or the base advanced and is merged  *)
(* into the branch, or conflicts with it.                                   *)
Awaits ==
  /\ Decides({"READY_FOR_OWNER"}) /\ Unmoved /\ ~behind
  /\ TickDone
  /\ UNCHANGED <<github, issue, chat, telegram, handler, events, history>>

UpdatesBranch ==
  /\ Decides({"READY_FOR_OWNER"}) /\ Unmoved /\ behind
  /\ head < MaxHeads \/ merged # 0
  /\ head' = IF merged = 0 THEN head + 1 ELSE head
  /\ behind' = FALSE
  /\ tick' = "updated" /\ seen' = Nothing
  /\ UNCHANGED <<merged, green, issue, chat, telegram, handler, events, history>>

Conflicts ==
  /\ Decides({"READY_FOR_OWNER"}) /\ Unmoved /\ behind
  /\ SetState("FIX_REQUIRED", 0) \/ SetState("BLOCKED", validated)
  /\ TickDone
  /\ UNCHANGED <<github, approved, reviewing, chat, telegram, handler, events, history>>

Invalidates ==
  /\ tick = "updated"
  /\ SetState("CI", 0)
  /\ TickDone
  /\ UNCHANGED <<github, approved, reviewing, chat, telegram, handler, events, history>>

TickStep ==
  \/ TickReadsPull \/ FindsMerged \/ Opens \/ JudgesCI \/ FindsNewHead \/ StartsReview
  \/ FindsApproval \/ Awaits \/ UpdatesBranch \/ Conflicts \/ Invalidates

(* The orchestrator dies and is started again.                              *)
OrchestratorRestarts ==
  /\ ~TickFree \/ reviewing # 0
  /\ Event
  /\ TickDone /\ reviewing' = 0
  /\ UNCHANGED <<github, state, validated, approved, chat, telegram, handler, history>>

-----------------------------------------------------------------------------
(* Threads of the orchestrator and people.                                  *)

(* _reviewer_run: it looks at the state when the run ends and stores its    *)
(* verdict a few calls later, with the head it read, whatever the state and *)
(* the head are by then; or it fails, or finds the review over.             *)
Reviews ==
  /\ reviewing # 0
  /\ reviewing' = 0
  /\ \/ approved' = reviewing /\ vetted' = vetted \cup {reviewing} /\ UNCHANGED <<state, validated>>
     \/ approved' = 0 /\ SendsBack /\ UNCHANGED vetted
     \/ approved' = 0 /\ head # reviewing /\ UNCHANGED <<state, validated, vetted>>
     \/ UNCHANGED <<state, validated, approved, vetted>>
  /\ UNCHANGED <<github, chat, telegram, handler, ticker, events, attempts, handled, mergedFor>>

(* The fixer pushes, or finds nothing to commit.                            *)
Fixes ==
  /\ state = "FIX_REQUIRED"
  /\ head' \in {head} \cup IF head < MaxHeads /\ merged = 0 THEN {head + 1} ELSE {}
  /\ SetState("PR_OPEN", 0)
  /\ UNCHANGED <<behind, merged, green, approved, reviewing, chat, telegram, handler, ticker, events, history>>

Smokes ==
  /\ state = "MERGED"
  /\ \E to \in {"DONE", "BLOCKED"} : SetState(to, validated)
  /\ UNCHANGED <<github, approved, reviewing, chat, telegram, handler, ticker, events, history>>

CITurnsGreen ==
  /\ head \notin green
  /\ green' = green \cup {head}
  /\ UNCHANGED <<head, behind, merged, issue, chat, telegram, handler, ticker, events, history>>

(* Somebody pushes to the branch; the base moves; the owner merges on       *)
(* GitHub; block, a change request or repair, resume-pr.                    *)
Pushes ==
  /\ Event /\ head < MaxHeads /\ merged = 0
  /\ head' = head + 1
  /\ UNCHANGED <<behind, merged, green, issue, chat, telegram, handler, ticker, history>>

BaseMoves ==
  /\ Event /\ ~behind
  /\ behind' = TRUE
  /\ UNCHANGED <<head, merged, green, issue, chat, telegram, handler, ticker, history>>

MergesOutside ==
  /\ Event /\ merged = 0
  /\ merged' = head
  /\ UNCHANGED <<head, behind, green, issue, chat, telegram, handler, ticker, history>>

Orders ==
  /\ Event
  /\ \/ SetState("BLOCKED", validated)
     \/ state \in {"READY_FOR_OWNER", "BLOCKED"} /\ SetState("FIX_REQUIRED", validated)
     \/ state = "BLOCKED" /\ SetState("PR_OPEN", 0)
  /\ UNCHANGED <<github, approved, reviewing, chat, telegram, handler, ticker, history>>

-----------------------------------------------------------------------------
Init ==
  /\ head = 1 /\ behind = FALSE /\ merged = 0 /\ green = {}
  /\ state = "PR_OPEN" /\ validated = 0 /\ approved = 0 /\ reviewing = 0
  /\ pending = 0 /\ offers = <<>>
  /\ presses = <<>> /\ offset = 0 /\ delivering = FALSE /\ marked = {} /\ queue = <<>>
  /\ pc = Fresh /\ job = NoneOf /\ sha = NoneOf
  /\ current = First /\ replaced = FALSE
  /\ tick = "none" /\ seen = Nothing
  /\ events = 0
  /\ attempts = [n \in 1..MaxOffers |-> 0] /\ handled = [u \in 1..MaxOutside |-> 0]
  /\ vetted = {} /\ mergedFor = 0

Service == Polls \/ SavesOffset \/ \E t \in Threads : HandlerStep(t) \/ Replaces(t)
Team    == TickReads \/ TickStep \/ Reviews \/ Fixes \/ Smokes
World   == \/ Presses \/ Expires \/ ServiceRestarts \/ OrchestratorRestarts \/ CITurnsGreen
           \/ Pushes \/ BaseMoves \/ MergesOutside \/ Orders

Next == Service \/ Team \/ World
Spec == Init /\ [][Next]_vars

(* The poll loop, the handlers, the tick, the fixer and the smoke test go   *)
(* on.  CI, the reviewer and people owe nothing.                            *)
Fairness ==
  /\ WF_vars(Polls) /\ WF_vars(SavesOffset) /\ \A t \in Threads : WF_vars(HandlerStep(t))
  /\ SF_vars(TickReads) /\ WF_vars(TickStep) /\ WF_vars(Fixes) /\ WF_vars(Smokes)

FairSpec == Spec /\ Fairness

-----------------------------------------------------------------------------
(* Every variable has the values the code can store or reach.               *)
TypeOK ==
  /\ {head, merged, validated, approved, reviewing, mergedFor, offset, events} \subseteq Nat
  /\ {behind, delivering, replaced} \subseteq BOOLEAN
  /\ green \subseteq Nat /\ vetted \subseteq Nat /\ marked \subseteq Nat
  /\ state \in States
  /\ offers \in Seq([kind : {"merge", "reject"}, head : Nat])
  /\ pending \in 0..Len(offers)
  /\ presses \in Seq([kind : {"merge", "reject", "confirm", "cancel"}, nonce : 0..Len(offers)])
  /\ queue \in Seq(1..Len(presses))
  /\ pc \in [Threads -> {"unborn", "idle", "merge", "reject", "confirm", "cancel", "offerMerge", "offerReject",
                         "clear", "refuse", "begin", "pull", "gates", "base", "send", "record"}]
  /\ job \in [Threads -> 0..Len(presses)] /\ sha \in [Threads -> Nat]
  /\ current \in Threads
  /\ tick \in {"none", "reading", "deciding", "updated"}
  /\ seen \in [state : States, validated : Nat, approved : Nat, head : Nat, merged : Nat]
  /\ attempts \in [1..MaxOffers -> Nat] /\ handled \in [1..MaxOutside -> Nat]

(* owner_merge merges the very head the owner's confirmation showed, whose  *)
(* checks are green and which the reviewer approved: however late the       *)
(* button, whatever was pushed, revalidated or restarted meanwhile.         *)
MergedAsConfirmed ==
  mergedFor # 0 =>
    /\ offers[mergedFor] = [kind |-> "merge", head |-> merged]
    /\ merged \in green \cap vetted

(* One confirmation, one attempt: a button pressed again, an update handed  *)
(* out again or a restart starts no second merge or reject.  A handler that *)
(* is replaced while it works may share its confirmation with the next one. *)
OneAttempt == ~replaced => \A n \in 1..MaxOffers : attempts[n] <= 1

(* No press is handled twice: not when the service dies between the mark    *)
(* and the offset, nor when Telegram delivers the update again.             *)
UpdatesHandledOnce == \A u \in 1..MaxOutside : handled[u] <= 1

(* A merged pull request never goes unnoticed, whoever merged it and        *)
(* whichever answer or process was lost: the issue is MERGED, or BLOCKED    *)
(* for the lead.                                                            *)
MergeIsRecorded == merged # 0 ~> state \in {"MERGED", "DONE", "BLOCKED"}

(* READY_FOR_OWNER is taken back when the head is no longer the validated   *)
(* one.                                                                     *)
ReadinessIsHonest ==
  (state = "READY_FOR_OWNER" /\ head # validated) ~> (state # "READY_FOR_OWNER" \/ head = validated)
=============================================================================
