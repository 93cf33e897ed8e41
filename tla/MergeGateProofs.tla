--------------------------- MODULE MergeGateProofs ---------------------------
(***************************************************************************)
(* What holds of MergeGate for any number of handler threads, commits,     *)
(* confirmations, presses, crashes and pushes: the types, that owner_merge *)
(* merges what the owner confirmed, that no update is handled twice and    *)
(* that a confirmation is used once.                                       *)
(***************************************************************************)
EXTENDS MergeGate, SequenceTheorems, TLAPS

Kinds == {"merge", "reject", "confirm", "cancel"}
Offer == [kind : {"merge", "reject"}, head : Nat]
Steps == Kinds \cup {"unborn", "idle", "offerMerge", "offerReject", "clear", "refuse",
                     "begin", "pull", "gates", "base", "send", "record"}

(* Steps after the confirmation matched, those of owner_merge, and those    *)
(* after the gates were found green.                                        *)
Confirmed == {"clear", "refuse", "begin", "pull", "gates", "base", "send", "record"}
Merging   == {"begin", "pull", "gates", "base", "send", "record"}
Cleared   == {"base", "send", "record"}

-----------------------------------------------------------------------------
(* The type invariant in parts, with what the types need to be inductive.   *)
GithubOK ==
  /\ head \in Nat \ {0} /\ merged \in Nat
  /\ green \subseteq Nat \ {0}

IssueOK ==
  /\ state \in States /\ validated \in Nat
  /\ approved \in Nat /\ reviewing \in Nat /\ vetted \subseteq Nat
  /\ approved # 0 => approved \in vetted

ChatOK == offers \in Seq(Offer) /\ pending \in 0..Len(offers)

TelegramOK ==
  /\ presses \in Seq([kind : Kinds, nonce : 0..Len(offers)])
  /\ offset \in Nat /\ marked \subseteq Nat
  /\ queue \in Seq(1..Len(presses))
  /\ \A u \in 1..Len(presses) : presses[u].kind = "confirm" => presses[u].nonce # 0

HandlerOK ==
  /\ pc \in [Threads -> Steps]
  /\ job \in [Threads -> 0..Len(presses)] /\ sha \in [Threads -> Nat]
  /\ current \in Threads

FlagsOK == {behind, delivering, replaced} \subseteq BOOLEAN

TickOK ==
  /\ tick \in {"none", "reading", "deciding", "updated"}
  /\ seen \in [state : States, validated : Nat, approved : Nat, head : Nat, merged : Nat]

HistoryOK ==
  /\ events \in Nat /\ mergedFor \in 0..Len(offers)
  /\ attempts \in [1..MaxOffers -> Nat] /\ handled \in [1..MaxOutside -> Nat]

(* What a handler at work carries: an update, and from the confirmation on  *)
(* the offer it names.                                                      *)
Carries(t) ==
  /\ pc[t] \in Kinds \cup Confirmed => job[t] # 0
  /\ pc[t] \in {"confirm"} \cup Confirmed => Update(t).nonce # 0
  /\ pc[t] \in Confirmed => sha[t] = offers[Update(t).nonce].head
  /\ pc[t] \in Merging => offers[Update(t).nonce].kind = "merge"
  /\ pc[t] \in Cleared => sha[t] \in green \cap vetted

Typed == /\ GithubOK /\ FlagsOK /\ IssueOK /\ ChatOK /\ TelegramOK /\ HandlerOK /\ TickOK /\ HistoryOK
         /\ \A t \in Threads : Carries(t)

LEMMA TypedIsTyped == Typed => TypeOK
<1> SUFFICES ASSUME Typed PROVE TypeOK
  OBVIOUS
<1>1. GithubOK /\ IssueOK /\ TickOK
  BY DEF Typed
<1>2. /\ offers \in Seq([kind : {"merge", "reject"}, head : Nat]) /\ pending \in 0..Len(offers)
      /\ presses \in Seq([kind : {"merge", "reject", "confirm", "cancel"}, nonce : 0..Len(offers)])
      /\ queue \in Seq(1..Len(presses)) /\ offset \in Nat /\ marked \subseteq Nat
  BY DEF Typed, ChatOK, TelegramOK, Offer, Kinds
<1>3. HandlerOK
  BY DEF Typed
<1>4. events \in Nat /\ mergedFor \in Nat /\ attempts \in [1..MaxOffers -> Nat] /\ handled \in [1..MaxOutside -> Nat]
  <2>1. Len(offers) \in Nat
    BY <1>2, LenProperties
  <2> QED
    BY <2>1 DEF Typed, HistoryOK
<1>5. pc \in [Threads -> {"unborn", "idle", "merge", "reject", "confirm", "cancel", "offerMerge", "offerReject",
                         "clear", "refuse", "begin", "pull", "gates", "base", "send", "record"}]
  BY <1>3 DEF HandlerOK, Steps, Kinds
<1>6. {head, merged, validated, approved, reviewing, mergedFor, offset, events} \subseteq Nat
  BY <1>1, <1>2, <1>4 DEF GithubOK, IssueOK
<1>7. {behind, delivering, replaced} \subseteq BOOLEAN
  BY DEF Typed, FlagsOK
<1> QED
  BY <1>1, <1>2, <1>3, <1>4, <1>5, <1>6, <1>7 DEF TypeOK, GithubOK, IssueOK, TickOK, HandlerOK

LEMMA NothingSeen ==
  Nothing \in [state : States, validated : Nat, approved : Nat, head : Nat, merged : Nat]
BY DEF Nothing, States

LEMMA NobodyWorks ==
  ASSUME NEW n \in Nat
  PROVE  /\ Fresh \in [Threads -> Steps] /\ NoneOf \in [Threads -> 0..n] /\ NoneOf \in [Threads -> Nat]
         /\ \A t \in Threads : Fresh[t] \in {"idle", "unborn"}
BY DEF Fresh, NoneOf, Steps

LEMMA IdleCarries ==
  ASSUME NEW t \in Threads, pc[t] \in {"idle", "unborn", "merge", "reject", "offerMerge", "offerReject"},
         pc[t] \in {"merge", "reject"} => job[t] # 0
  PROVE  Carries(t)
BY DEF Carries, Kinds, Confirmed, Merging, Cleared

LEMMA TypedInit == Init => Typed
<1> SUFFICES ASSUME Init PROVE Typed
  OBVIOUS
<1>1. offers = <<>> /\ presses = <<>> /\ queue = <<>>
  BY DEF Init
<1>2. /\ offers \in Seq(Offer) /\ presses \in Seq([kind : Kinds, nonce : 0..Len(offers)]) /\ queue \in Seq(1..Len(presses))
      /\ Len(offers) = 0 /\ Len(presses) = 0
  BY <1>1, EmptySeq
<1>3. GithubOK /\ IssueOK
  BY DEF Init, GithubOK, IssueOK, States
<1>7. TickOK
  BY NothingSeen DEF Init, TickOK
<1>4. ChatOK /\ TelegramOK
  BY <1>2 DEF Init, ChatOK, TelegramOK
<1>8. HistoryOK
  BY <1>2 DEF Init, HistoryOK
<1>9. FlagsOK
  BY DEF Init, FlagsOK
<1>5. HandlerOK
  BY <1>2, NobodyWorks, ConstantsAssumption DEF Init, HandlerOK
<1>6. \A t \in Threads : Carries(t)
  BY NobodyWorks, IdleCarries DEF Init
<1> QED
  BY <1>3, <1>4, <1>5, <1>6, <1>7, <1>8, <1>9 DEF Typed

-----------------------------------------------------------------------------
(* Steps of the team and of people: they touch the record, the pull request *)
(* and the tick, never the chat, the updates or a handler.                  *)
Outer == \/ Team \/ OrchestratorRestarts \/ CITurnsGreen
         \/ Pushes \/ BaseMoves \/ MergesOutside \/ Orders

Apart == UNCHANGED <<pending, offers, presses, offset, delivering, marked, queue, pc, job, sha,
                     current, replaced, attempts, handled, mergedFor>>

LEMMA OuterIsApart == ASSUME Outer PROVE Apart
<1>1. CASE TickReads
  BY <1>1 DEF TickReads, Apart, github, issue, chat, telegram, handler, history
<1>2. CASE TickReadsPull
  BY <1>2 DEF TickReadsPull, Apart, github, issue, chat, telegram, handler, history
<1>3. CASE FindsMerged
  BY <1>3 DEF FindsMerged, Apart, github, issue, chat, telegram, handler, history
<1>4. CASE Opens
  BY <1>4 DEF Opens, Apart, github, issue, chat, telegram, handler, history
<1>5. CASE JudgesCI
  BY <1>5 DEF JudgesCI, Apart, github, issue, chat, telegram, handler, history
<1>6. CASE FindsNewHead
  BY <1>6 DEF FindsNewHead, Apart, github, issue, chat, telegram, handler, history
<1>7. CASE StartsReview
  BY <1>7 DEF StartsReview, Apart, github, issue, chat, telegram, handler, history
<1>8. CASE FindsApproval
  BY <1>8 DEF FindsApproval, Apart, github, issue, chat, telegram, handler, history
<1>9. CASE Awaits
  BY <1>9 DEF Awaits, Apart, github, issue, chat, telegram, handler, history
<1>10. CASE UpdatesBranch
  BY <1>10 DEF UpdatesBranch, Apart, github, issue, chat, telegram, handler, history
<1>11. CASE Conflicts
  BY <1>11 DEF Conflicts, Apart, github, issue, chat, telegram, handler, history
<1>12. CASE Invalidates
  BY <1>12 DEF Invalidates, Apart, github, issue, chat, telegram, handler, history
<1>13. CASE Reviews
  BY <1>13 DEF Reviews, Apart, github, issue, chat, telegram, handler, history
<1>14. CASE Fixes
  BY <1>14 DEF Fixes, Apart, github, issue, chat, telegram, handler, history
<1>15. CASE Smokes
  BY <1>15 DEF Smokes, Apart, github, issue, chat, telegram, handler, history
<1>16. CASE OrchestratorRestarts
  BY <1>16 DEF OrchestratorRestarts, Apart, github, issue, chat, telegram, handler, history
<1>17. CASE CITurnsGreen
  BY <1>17 DEF CITurnsGreen, Apart, github, issue, chat, telegram, handler, history
<1>18. CASE Pushes
  BY <1>18 DEF Pushes, Apart, github, issue, chat, telegram, handler, history
<1>19. CASE BaseMoves
  BY <1>19 DEF BaseMoves, Apart, github, issue, chat, telegram, handler, history
<1>20. CASE MergesOutside
  BY <1>20 DEF MergesOutside, Apart, github, issue, chat, telegram, handler, history
<1>21. CASE Orders
  BY <1>21 DEF Orders, Apart, github, issue, chat, telegram, handler, history
<1> QED
  BY <1>1, <1>2, <1>3, <1>4, <1>5, <1>6, <1>7, <1>8, <1>9, <1>10, <1>11, <1>12, <1>13, <1>14, <1>15, <1>16, <1>17, <1>18, <1>19, <1>20, <1>21 DEF Outer, Team, TickStep

LEMMA SetStateOK ==
  ASSUME IssueOK, NEW to \in States, NEW commit \in Nat, SetState(to, commit),
         UNCHANGED <<approved, reviewing, vetted>>
  PROVE  IssueOK'
BY DEF SetState, IssueOK

LEMMA SendsBackOK == ASSUME IssueOK, SendsBack, UNCHANGED <<approved, reviewing, vetted>> PROVE IssueOK'
<1>1. {"FIX_REQUIRED", "BLOCKED"} \subseteq States /\ validated \in Nat
  BY DEF States, IssueOK
<1> QED
  BY <1>1, SetStateOK DEF SendsBack

LEMMA TickDoneOK == ASSUME TickDone PROVE TickOK'
BY NothingSeen DEF TickDone, TickOK

Kept ==
  /\ GithubOK' /\ IssueOK' /\ TickOK' /\ FlagsOK' /\ events' \in Nat
  /\ green \subseteq green' /\ vetted \subseteq vetted' /\ (merged # 0 => merged' = merged)

LEMMA IssueStepKeeps ==
  ASSUME Typed, IssueOK', TickOK', UNCHANGED <<head, behind, merged, green, delivering, replaced>>,
         events' \in {events, events + 1}, vetted \subseteq vetted'
  PROVE  Kept
<1>1. GithubOK' /\ FlagsOK'
  BY DEF Typed, GithubOK, FlagsOK
<1>2. events' \in Nat
  BY DEF Typed, HistoryOK
<1> QED
  BY <1>1, <1>2 DEF Kept

(* A step of the tick that decides: the record moves or stays, and the tick *)
(* is over.                                                                 *)
LEMMA DecisionKeeps ==
  ASSUME Typed, TickDone, UNCHANGED <<head, behind, merged, green, delivering, replaced, events, vetted, approved, reviewing>>,
         \/ UNCHANGED <<state, validated>>
         \/ SendsBack
         \/ \E to \in States, commit \in Nat : SetState(to, commit)
  PROVE  Kept
<1>1. IssueOK
  BY DEF Typed
<1>2. IssueOK'
  <2>1. CASE UNCHANGED <<state, validated>>
    BY <1>1, <2>1 DEF IssueOK
  <2>2. CASE SendsBack
    BY <1>1, <2>2, SendsBackOK
  <2>3. CASE \E to \in States, commit \in Nat : SetState(to, commit)
    BY <1>1, <2>3, SetStateOK
  <2> QED
    BY <2>1, <2>2, <2>3
<1> QED
  BY <1>2, TickDoneOK, IssueStepKeeps

LEMMA OuterKeeps == ASSUME Typed, Outer PROVE Kept
<1> USE DEF github, issue, chat, telegram, handler, history
<1>1. /\ GithubOK /\ IssueOK /\ TickOK /\ FlagsOK /\ events \in Nat
      /\ validated \in Nat /\ seen.merged \in Nat /\ seen.head \in Nat
      /\ head \in Nat \ {0} /\ merged \in Nat
  BY DEF Typed, GithubOK, IssueOK, TickOK, HistoryOK
<1>2. /\ {"CI", "REVIEW", "FIX_REQUIRED", "READY_FOR_OWNER", "MERGED", "BLOCKED", "DONE", "PR_OPEN"} \subseteq States
      /\ 0 \in Nat
  BY DEF States
<1>3. CASE TickReads
  <2>1. TickOK'
    BY <1>1, <1>3 DEF TickReads, TickOK, IssueOK
  <2>2. IssueOK'
    BY <1>1, <1>3 DEF TickReads, IssueOK
  <2> QED
    BY <1>3, <2>1, <2>2, IssueStepKeeps DEF TickReads
<1>4. CASE TickReadsPull
  <2>1. TickOK'
    BY <1>1, <1>4 DEF TickReadsPull, TickOK
  <2>2. IssueOK'
    BY <1>1, <1>4 DEF TickReadsPull, IssueOK
  <2> QED
    BY <1>4, <2>1, <2>2, IssueStepKeeps DEF TickReadsPull
<1>5. CASE FindsMerged
  BY <1>1, <1>2, <1>5, DecisionKeeps DEF FindsMerged
<1>6. CASE Opens
  BY <1>1, <1>2, <1>6, DecisionKeeps DEF Opens
<1>7. CASE JudgesCI
  <2>1. IssueOK'
    <3>1. CASE /\ validated' = seen.head
               /\ state' = IF "REVIEW" \in Successors(state) THEN "REVIEW" ELSE state
      BY <1>1, <1>2, <3>1, <1>7 DEF JudgesCI, IssueOK
    <3>2. CASE SendsBack
      BY <1>1, <3>2, <1>7, SendsBackOK DEF JudgesCI
    <3>3. CASE SetState("FIX_REQUIRED", 0)
      BY <1>1, <1>2, <3>3, <1>7, SetStateOK DEF JudgesCI
    <3>4. CASE UNCHANGED <<state, validated>>
      BY <1>1, <3>4, <1>7 DEF JudgesCI, IssueOK
    <3> QED
      BY <1>7, <3>1, <3>2, <3>3, <3>4 DEF JudgesCI
  <2> QED
    BY <1>7, <2>1, TickDoneOK, IssueStepKeeps DEF JudgesCI
<1>8. CASE FindsNewHead
  BY <1>1, <1>2, <1>8, DecisionKeeps DEF FindsNewHead
<1>9. CASE StartsReview
  <2>1. IssueOK'
    BY <1>1, <1>9 DEF StartsReview, IssueOK
  <2> QED
    BY <1>9, <2>1, TickDoneOK, IssueStepKeeps DEF StartsReview
<1>10. CASE FindsApproval
  BY <1>1, <1>2, <1>10, DecisionKeeps DEF FindsApproval
<1>11. CASE Awaits
  BY <1>1, <1>2, <1>11, DecisionKeeps DEF Awaits
<1>12. CASE UpdatesBranch
  <2>1. IssueOK' /\ TickOK'
    BY <1>1, <1>12, NothingSeen DEF UpdatesBranch, IssueOK, TickOK
  <2>2. GithubOK'
    BY <1>1, <1>12 DEF UpdatesBranch, GithubOK
  <2>3. FlagsOK'
    BY <1>1, <1>12 DEF UpdatesBranch, FlagsOK
  <2> QED
    BY <1>1, <1>12, <2>1, <2>2, <2>3 DEF UpdatesBranch, Kept
<1>13. CASE Conflicts
  BY <1>1, <1>2, <1>13, DecisionKeeps DEF Conflicts
<1>14. CASE Invalidates
  BY <1>1, <1>2, <1>14, DecisionKeeps DEF Invalidates
<1>15. CASE Reviews
  <2>1. IssueOK' /\ vetted \subseteq vetted'
    <3>1. CASE approved' = reviewing /\ vetted' = vetted \cup {reviewing} /\ UNCHANGED <<state, validated>>
      BY <1>1, <3>1, <1>15 DEF Reviews, IssueOK
    <3>2. CASE approved' = 0 /\ SendsBack /\ UNCHANGED vetted
      <4>1. state' \in States /\ validated' \in Nat
        BY <1>1, <1>2, <3>2 DEF SendsBack, SetState, IssueOK
      <4> QED
        BY <1>1, <3>2, <4>1, <1>15 DEF Reviews, IssueOK
    <3>3. CASE approved' = 0 /\ head # reviewing /\ UNCHANGED <<state, validated, vetted>>
      BY <1>1, <3>3, <1>15 DEF Reviews, IssueOK
    <3>4. CASE UNCHANGED <<state, validated, approved, vetted>>
      BY <1>1, <3>4, <1>15 DEF Reviews, IssueOK
    <3> QED
      BY <1>15, <3>1, <3>2, <3>3, <3>4 DEF Reviews
  <2>2. TickOK'
    BY <1>1, <1>15 DEF Reviews, ticker, TickOK
  <2> QED
    BY <1>15, <2>1, <2>2, IssueStepKeeps DEF Reviews
<1>16. CASE Fixes
  <2>1. IssueOK'
    BY <1>1, <1>2, <1>16, SetStateOK DEF Fixes
  <2>2. GithubOK' /\ FlagsOK' /\ TickOK'
    BY <1>1, <1>16 DEF Fixes, ticker, GithubOK, FlagsOK, TickOK
  <2> QED
    BY <1>1, <1>16, <2>1, <2>2 DEF Fixes, Kept
<1>17. CASE Smokes
  <2>1. IssueOK'
    BY <1>1, <1>2, <1>17, SetStateOK DEF Smokes
  <2>2. TickOK'
    BY <1>1, <1>17 DEF Smokes, ticker, TickOK
  <2> QED
    BY <1>17, <2>1, <2>2, IssueStepKeeps DEF Smokes
<1>18. CASE OrchestratorRestarts
  <2>1. IssueOK'
    BY <1>1, <1>18 DEF OrchestratorRestarts, IssueOK
  <2> QED
    BY <1>18, <2>1, TickDoneOK, IssueStepKeeps DEF OrchestratorRestarts, Event
<1>19. CASE CITurnsGreen
  <2>1. IssueOK' /\ TickOK'
    BY <1>1, <1>19 DEF CITurnsGreen, ticker, IssueOK, TickOK
  <2>2. GithubOK' /\ FlagsOK'
    BY <1>1, <1>19 DEF CITurnsGreen, Event, GithubOK, FlagsOK
  <2> QED
    BY <1>1, <1>19, <2>1, <2>2 DEF CITurnsGreen, Event, Kept
<1>20. CASE Pushes
  <2>1. IssueOK' /\ TickOK'
    BY <1>1, <1>20 DEF Pushes, ticker, IssueOK, TickOK
  <2>2. GithubOK' /\ FlagsOK'
    BY <1>1, <1>20 DEF Pushes, Event, GithubOK, FlagsOK
  <2> QED
    BY <1>1, <1>20, <2>1, <2>2 DEF Pushes, Event, Kept
<1>21. CASE BaseMoves
  <2>1. IssueOK' /\ TickOK'
    BY <1>1, <1>21 DEF BaseMoves, ticker, IssueOK, TickOK
  <2>2. GithubOK' /\ FlagsOK'
    BY <1>1, <1>21 DEF BaseMoves, Event, GithubOK, FlagsOK
  <2> QED
    BY <1>1, <1>21, <2>1, <2>2 DEF BaseMoves, Event, Kept
<1>22. CASE MergesOutside
  <2>1. IssueOK' /\ TickOK'
    BY <1>1, <1>22 DEF MergesOutside, ticker, IssueOK, TickOK
  <2>2. GithubOK' /\ FlagsOK'
    BY <1>1, <1>22 DEF MergesOutside, Event, GithubOK, FlagsOK
  <2> QED
    BY <1>1, <1>22, <2>1, <2>2 DEF MergesOutside, Event, Kept
<1>23. CASE Orders
  <2>1. IssueOK'
    BY <1>1, <1>2, <1>23, SetStateOK DEF Orders
  <2>2. TickOK'
    BY <1>1, <1>23 DEF Orders, ticker, TickOK
  <2> QED
    BY <1>23, <2>1, <2>2, IssueStepKeeps DEF Orders, Event
<1> QED
  BY <1>3, <1>4, <1>5, <1>6, <1>7, <1>8, <1>9, <1>10, <1>11, <1>12, <1>13, <1>14, <1>15, <1>16, <1>17, <1>18, <1>19, <1>20, <1>21, <1>22, <1>23 DEF Outer, Team, TickStep

-----------------------------------------------------------------------------
(* What handlers carry stays true when updates, offers, green heads and     *)
(* approvals only grow.                                                     *)
Same(t) == pc'[t] = pc[t] /\ job'[t] = job[t] /\ sha'[t] = sha[t]

Growth ==
  /\ Len(presses) <= Len(presses') /\ \A u \in 1..Len(presses) : presses'[u] = presses[u]
  /\ Len(offers) <= Len(offers') /\ \A n \in 1..Len(offers) : offers'[n] = offers[n]
  /\ green \subseteq green' /\ vetted \subseteq vetted'

LEMMA Lengths == ASSUME Typed PROVE Len(presses) \in Nat /\ Len(offers) \in Nat
<1>1. presses \in Seq([kind : Kinds, nonce : 0..Len(offers)]) /\ offers \in Seq(Offer)
  BY DEF Typed, TelegramOK, ChatOK
<1> QED
  BY <1>1, LenProperties

LEMMA UpdateOK ==
  ASSUME Typed, NEW t \in Threads, job[t] # 0
  PROVE  /\ job[t] \in 1..Len(presses) /\ Update(t) = presses[job[t]]
         /\ Update(t).kind \in Kinds /\ Update(t).nonce \in 0..Len(offers)
<1>1. job[t] \in 1..Len(presses)
  BY Lengths DEF Typed, HandlerOK
<1>2. presses[job[t]] \in [kind : Kinds, nonce : 0..Len(offers)]
  BY <1>1, ElementOfSeq DEF Typed, TelegramOK
<1> QED
  BY <1>1, <1>2 DEF Update

LEMMA OfferOK ==
  ASSUME Typed, NEW n \in 1..Len(offers)
  PROVE  offers[n] \in Offer /\ offers[n].head \in Nat /\ offers[n].kind \in {"merge", "reject"}
<1>1. offers[n] \in Offer
  BY ElementOfSeq DEF Typed, ChatOK
<1> QED
  BY <1>1 DEF Offer

LEMMA CarriesOn ==
  ASSUME Typed, NEW t \in Threads, Same(t), Growth
  PROVE  Carries(t)'
<1>1. Carries(t) /\ Len(presses) \in Nat /\ Len(offers) \in Nat
  BY Lengths DEF Typed
<1>2. job[t] # 0 => Update(t)' = Update(t) /\ Update(t).nonce \in 0..Len(offers)
  BY UpdateOK DEF Same, Growth, Update
<1>3. \A n \in 0..Len(offers) : n # 0 => offers'[n] = offers[n]
  BY <1>1 DEF Growth
<1>4. pc'[t] = pc[t] /\ job'[t] = job[t] /\ sha'[t] = sha[t]
  BY DEF Same
<1>5. Confirmed \subseteq Kinds \cup Confirmed /\ {"confirm"} \subseteq Kinds /\ Merging \subseteq Confirmed
  BY DEF Kinds, Confirmed, Merging
<1>6. job'[t] # 0 /\ Update(t)'.nonce # 0 => offers'[Update(t)'.nonce] = offers[Update(t).nonce]
  BY <1>2, <1>3, <1>4
<1> QED
  BY <1>1, <1>2, <1>4, <1>5, <1>6 DEF Carries, Growth

LEMMA OuterTyped == ASSUME Typed, Outer PROVE Typed'
<1>1. Apart /\ Kept
  BY OuterIsApart, OuterKeeps
<1>2. ChatOK' /\ TelegramOK' /\ HandlerOK' /\ HistoryOK'
  BY <1>1 DEF Apart, Kept, Typed, ChatOK, TelegramOK, HandlerOK, HistoryOK
<1>3. ASSUME NEW t \in Threads PROVE Carries(t)'
  <2>1. Same(t) /\ Growth
    BY <1>1, Lengths DEF Apart, Kept, Same, Growth
  <2> QED
    BY <2>1, CarriesOn
<1> QED
  BY <1>1, <1>2, <1>3 DEF Kept, Typed

-----------------------------------------------------------------------------
(* The handler threads.                                                     *)
LEMMA MoveOK ==
  ASSUME Typed, NEW t \in Threads, UNCHANGED <<presses, current>>,
         \/ Stops(t)
         \/ \E step \in Steps : Goes(t, step)
         \/ \E step \in Steps, commit \in Nat : GoesWith(t, step, commit)
  PROVE  HandlerOK' /\ \A s \in Threads \ {t} : Same(s)
<1>1. /\ pc \in [Threads -> Steps] /\ job \in [Threads -> 0..Len(presses)] /\ sha \in [Threads -> Nat]
      /\ "idle" \in Steps /\ 0 \in 0..Len(presses) /\ current \in Threads
  BY Lengths DEF Typed, HandlerOK, Steps
<1>2. CASE Stops(t)
  BY <1>1, <1>2 DEF Stops, HandlerOK, Same
<1>3. CASE \E step \in Steps : Goes(t, step)
  BY <1>1, <1>3 DEF Goes, HandlerOK, Same
<1>4. CASE \E step \in Steps, commit \in Nat : GoesWith(t, step, commit)
  BY <1>1, <1>4 DEF GoesWith, HandlerOK, Same
<1> QED
  BY <1>2, <1>3, <1>4

LEMMA StopCarries == ASSUME Typed, NEW t \in Threads, Stops(t) PROVE Carries(t)'
<1>1. pc'[t] = "idle"
  BY DEF Typed, HandlerOK, Stops
<1> QED
  BY <1>1 DEF Carries, Kinds, Confirmed, Merging, Cleared

(* On to a later step of the same confirmation.                             *)
LEMMA GoCarries ==
  ASSUME Typed, NEW t \in Threads, NEW step \in Steps, Goes(t, step), UNCHANGED <<presses, offers, green, vetted>>,
         pc[t] \in Confirmed, step \in Confirmed,
         step \in Merging => pc[t] \in Merging \/ offers[Update(t).nonce].kind = "merge",
         step \in Cleared => pc[t] \in Cleared \/ sha[t] \in green \cap vetted
  PROVE  Carries(t)'
<1>1. pc'[t] = step /\ job' = job /\ sha' = sha
  BY DEF Typed, HandlerOK, Goes
<1>2. Update(t)' = Update(t)
  BY <1>1 DEF Update
<1>3. Carries(t)
  BY DEF Typed
<1> QED
  BY <1>1, <1>2, <1>3 DEF Carries

LEMMA HandlerStepKeeps ==
  ASSUME Typed, NEW t \in Threads, HandlerOK', Carries(t)', \A s \in Threads \ {t} : Same(s),
         UNCHANGED <<presses, offset, delivering, marked, queue, replaced, tick, seen,
                     head, behind, green, reviewing, approved, vetted, handled>>,
         merged' \in {merged, head}, state' \in States, validated' \in Nat,
         Len(offers) <= Len(offers'), \A n \in 1..Len(offers) : offers'[n] = offers[n], ChatOK',
         events' \in {events, events + 1}, attempts' \in [1..MaxOffers -> Nat], mergedFor' \in 0..Len(offers')
  PROVE  Typed'
<1>1. Len(presses) \in Nat /\ Len(offers) \in Nat /\ Len(offers') \in Nat
  BY Lengths, LenProperties DEF ChatOK
<1>2. GithubOK' /\ IssueOK'
  BY DEF Typed, GithubOK, IssueOK
<1>3. TickOK' /\ HistoryOK'
  BY DEF Typed, TickOK, HistoryOK
<1>4. TelegramOK'
  <2>1. [kind : Kinds, nonce : 0..Len(offers)] \subseteq [kind : Kinds, nonce : 0..Len(offers')]
    BY <1>1
  <2>2. presses \in Seq([kind : Kinds, nonce : 0..Len(offers)])
    BY DEF Typed, TelegramOK
  <2>3. presses \in Seq([kind : Kinds, nonce : 0..Len(offers')])
    BY <2>1, <2>2, SeqMonotonic
  <2> QED
    BY <2>3 DEF Typed, TelegramOK
<1>5. FlagsOK'
  BY DEF Typed, FlagsOK
<1>6. ASSUME NEW s \in Threads PROVE Carries(s)'
  <2>1. Growth
    BY <1>1 DEF Growth
  <2> QED
    BY <2>1, CarriesOn
<1> QED
  BY <1>2, <1>3, <1>4, <1>5, <1>6 DEF Typed

LEMMA CountsOn ==
  ASSUME NEW S, NEW f \in [S -> Nat], NEW x
  PROVE  [f EXCEPT ![x] = @ + 1] \in [S -> Nat]
<1>1. CASE x \in S
  BY <1>1
<1>2. CASE x \notin S
  BY <1>2
<1> QED
  BY <1>1, <1>2

LEMMA AsksStep == ASSUME Typed, NEW t \in Threads, Asks(t) PROVE Typed'
<1> USE DEF github, issue, chat, Elsewhere, history
<1>1. /\ {"offerMerge", "offerReject"} \subseteq Steps /\ validated \in Nat /\ state \in States /\ ChatOK
      /\ merged \in Nat /\ Len(offers) \in Nat /\ attempts \in [1..MaxOffers -> Nat] /\ mergedFor \in 0..Len(offers)
  BY Lengths DEF Typed, IssueOK, GithubOK, HistoryOK, Steps
<1>2. Stops(t) \/ \E step \in {"offerMerge", "offerReject"} : GoesWith(t, step, validated)
  BY DEF Asks
<1>3. HandlerOK' /\ \A s \in Threads \ {t} : Same(s)
  BY <1>1, <1>2, MoveOK DEF Asks
<1>4. Carries(t)'
  <2>1. CASE Stops(t)
    BY <2>1, StopCarries
  <2>2. CASE \E step \in {"offerMerge", "offerReject"} : GoesWith(t, step, validated)
    <3>1. pc'[t] \in {"offerMerge", "offerReject"}
      BY <2>2 DEF GoesWith, Typed, HandlerOK
    <3> QED
      BY <3>1 DEF Carries, Kinds, Confirmed, Merging, Cleared
  <2> QED
    BY <1>2, <2>1, <2>2
<1> QED
  BY <1>1, <1>3, <1>4, HandlerStepKeeps DEF Asks, ChatOK, ticker

LEMMA OffersStep == ASSUME Typed, NEW t \in Threads, Offers(t) PROVE Typed'
<1> USE DEF github, issue, Elsewhere, history
<1>1. /\ validated \in Nat /\ state \in States /\ merged \in Nat /\ Len(offers) \in Nat
      /\ attempts \in [1..MaxOffers -> Nat] /\ mergedFor \in 0..Len(offers) /\ offers \in Seq(Offer) /\ sha[t] \in Nat
  BY Lengths DEF Typed, IssueOK, GithubOK, HistoryOK, ChatOK, HandlerOK
<1> DEFINE o == [kind |-> IF pc[t] = "offerMerge" THEN "merge" ELSE "reject", head |-> sha[t]]
<1>2. o \in Offer
  BY <1>1 DEF Offer
<1>3. offers' = Append(offers, o) /\ pending' = Len(offers) + 1
  BY DEF Offers
<1> HIDE DEF o
<1>4. /\ offers' \in Seq(Offer) /\ Len(offers') = Len(offers) + 1
      /\ \A n \in 1..Len(offers) : offers'[n] = offers[n]
  BY <1>1, <1>2, <1>3, AppendProperties
<1>5. HandlerOK' /\ (\A s \in Threads \ {t} : Same(s)) /\ Carries(t)'
  BY MoveOK, StopCarries DEF Offers
<1>6. ChatOK' /\ mergedFor' \in 0..Len(offers') /\ Len(offers) <= Len(offers')
  BY <1>1, <1>3, <1>4 DEF Offers, ChatOK
<1> QED
  BY <1>1, <1>4, <1>5, <1>6, HandlerStepKeeps DEF Offers, ticker

LEMMA CancelsStep == ASSUME Typed, NEW t \in Threads, Cancels(t) PROVE Typed'
<1> USE DEF github, issue, Elsewhere, history
<1>1. /\ validated \in Nat /\ state \in States /\ merged \in Nat /\ Len(offers) \in Nat
      /\ attempts \in [1..MaxOffers -> Nat] /\ mergedFor \in 0..Len(offers) /\ offers \in Seq(Offer)
  BY Lengths DEF Typed, IssueOK, GithubOK, HistoryOK, ChatOK
<1>2. HandlerOK' /\ (\A s \in Threads \ {t} : Same(s)) /\ Carries(t)'
  BY MoveOK, StopCarries DEF Cancels
<1>3. ChatOK'
  BY <1>1 DEF Cancels, ChatOK
<1> QED
  BY <1>1, <1>2, <1>3, HandlerStepKeeps DEF Cancels, ticker

LEMMA ConfirmsStep == ASSUME Typed, NEW t \in Threads, Confirms(t) PROVE Typed'
<1> USE DEF github, issue, chat, Elsewhere, history
<1>1. /\ validated \in Nat /\ state \in States /\ merged \in Nat /\ Len(offers) \in Nat /\ ChatOK
      /\ attempts \in [1..MaxOffers -> Nat] /\ mergedFor \in 0..Len(offers)
  BY Lengths DEF Typed, IssueOK, GithubOK, HistoryOK
<1>2. pc[t] = "confirm" /\ job[t] # 0 /\ Update(t).nonce # 0 /\ Update(t).nonce \in 0..Len(offers)
  BY UpdateOK DEF Confirms, Typed, Carries, Kinds
<1> DEFINE n == Update(t).nonce
<1>3. offers[n].head \in Nat
  BY <1>1, <1>2, OfferOK
<1>4. Stops(t) \/ GoesWith(t, "clear", offers[n].head)
  BY DEF Confirms
<1>5. HandlerOK' /\ \A s \in Threads \ {t} : Same(s)
  BY <1>3, <1>4, MoveOK DEF Confirms, Steps
<1>6. Carries(t)'
  <2>1. CASE Stops(t)
    BY <2>1, StopCarries
  <2>2. CASE GoesWith(t, "clear", offers[n].head)
    <3>1. pc'[t] = "clear" /\ sha'[t] = offers[n].head /\ job' = job /\ Update(t)' = Update(t) /\ offers' = offers
      BY <2>2 DEF Confirms, GoesWith, Typed, HandlerOK, Update
    <3> QED
      BY <1>2, <3>1 DEF Carries, Merging, Cleared
  <2> QED
    BY <1>4, <2>1, <2>2
<1> QED
  BY <1>1, <1>5, <1>6, HandlerStepKeeps DEF Confirms, ChatOK, ticker

LEMMA ClearsStep == ASSUME Typed, NEW t \in Threads, Clears(t) PROVE Typed'
<1> USE DEF github, issue, Elsewhere, history
<1>1. /\ validated \in Nat /\ state \in States /\ merged \in Nat /\ Len(offers) \in Nat /\ ChatOK
      /\ attempts \in [1..MaxOffers -> Nat] /\ mergedFor \in 0..Len(offers)
  BY Lengths DEF Typed, IssueOK, GithubOK, HistoryOK
<1>2. /\ {"begin", "refuse"} \subseteq Steps /\ {"begin", "refuse", "clear"} \subseteq Confirmed
      /\ "refuse" \notin Merging /\ "begin" \notin Cleared /\ "refuse" \notin Cleared
  BY DEF Steps, Confirmed, Merging, Cleared
<1> DEFINE step == IF offers[Update(t).nonce].kind = "merge" THEN "begin" ELSE "refuse"
<1>3. pc[t] = "clear" /\ Goes(t, step) /\ step \in {"begin", "refuse"}
  BY DEF Clears
<1>4. HandlerOK' /\ \A s \in Threads \ {t} : Same(s)
  BY <1>2, <1>3, MoveOK DEF Clears
<1>5. Carries(t)'
  BY <1>2, <1>3, GoCarries DEF Clears
<1>6. attempts' \in [1..MaxOffers -> Nat]
  BY <1>1, CountsOn DEF Clears
<1>7. ChatOK'
  BY <1>1 DEF Clears, ChatOK
<1> QED
  BY <1>1, <1>4, <1>5, <1>6, <1>7, HandlerStepKeeps DEF Clears, ticker

(* Steps that leave chat and history alone and move the record at most.     *)
LEMMA RecordStepKeeps ==
  ASSUME Typed, NEW t \in Threads, HandlerOK', Carries(t)', \A s \in Threads \ {t} : Same(s),
         UNCHANGED <<chat, Elsewhere, github, approved, reviewing, history>>,
         IssueOK', events' \in {events, events + 1}
  PROVE  Typed'
<1>1. /\ merged \in Nat /\ Len(offers) \in Nat /\ ChatOK
      /\ attempts \in [1..MaxOffers -> Nat] /\ mergedFor \in 0..Len(offers)
  BY Lengths DEF Typed, GithubOK, HistoryOK
<1>2. ChatOK' /\ mergedFor' \in 0..Len(offers') /\ Len(offers) <= Len(offers')
  BY <1>1 DEF chat, history, ChatOK
<1> QED
  BY <1>1, <1>2, HandlerStepKeeps DEF chat, Elsewhere, github, history, ticker, IssueOK

LEMMA RejectsStep == ASSUME Typed, NEW t \in Threads, Rejects(t) PROVE Typed'
<1>1. HandlerOK' /\ (\A s \in Threads \ {t} : Same(s)) /\ Carries(t)'
  BY MoveOK, StopCarries DEF Rejects, Elsewhere
<1>2. IssueOK'
  <2>1. IssueOK /\ validated \in Nat /\ "BLOCKED" \in States
    BY DEF Typed, IssueOK, States
  <2>2. UNCHANGED <<approved, reviewing, vetted>>
    BY DEF Rejects, history
  <2>3. CASE UNCHANGED <<state, validated>>
    BY <2>1, <2>2, <2>3 DEF IssueOK
  <2>4. CASE SetState("BLOCKED", validated)
    BY <2>1, <2>2, <2>4, SetStateOK
  <2> QED
    BY <2>3, <2>4 DEF Rejects
<1> QED
  BY <1>1, <1>2, RecordStepKeeps DEF Rejects

LEMMA MergingSteps ==
  /\ Merging \subseteq Steps /\ Merging \subseteq Confirmed /\ Cleared \subseteq Merging
  /\ \A step \in Cleared : step \in {"base", "send", "record"}
  /\ {"begin", "pull", "gates"} \cap Cleared = {}
BY DEF Merging, Steps, Confirmed, Cleared

LEMMA UnmovedOK == ASSUME Typed, UNCHANGED <<issue, vetted>> PROVE IssueOK'
BY DEF Typed, issue, IssueOK

LEMMA BeginsStep == ASSUME Typed, NEW t \in Threads, Begins(t) PROVE Typed'
<1>1. pc[t] = "begin" /\ (Goes(t, "pull") \/ Stops(t)) /\ {"begin", "pull"} \subseteq Merging
  BY DEF Begins, Merging
<1>2. HandlerOK' /\ \A s \in Threads \ {t} : Same(s)
  BY <1>1, MergingSteps, MoveOK DEF Begins, Elsewhere
<1>3. Carries(t)'
  BY <1>1, MergingSteps, GoCarries, StopCarries DEF Begins, Elsewhere, github, chat, history
<1>4. IssueOK'
  BY UnmovedOK DEF Begins, history
<1> QED
  BY <1>2, <1>3, <1>4, RecordStepKeeps DEF Begins, issue

LEMMA ReadsPullStep == ASSUME Typed, NEW t \in Threads, ReadsPull(t) PROVE Typed'
<1>1. pc[t] = "pull" /\ (Goes(t, "gates") \/ Stops(t)) /\ {"pull", "gates"} \subseteq Merging
  BY DEF ReadsPull, Merging
<1>2. HandlerOK' /\ \A s \in Threads \ {t} : Same(s)
  BY <1>1, MergingSteps, MoveOK DEF ReadsPull, Elsewhere
<1>3. Carries(t)'
  BY <1>1, MergingSteps, GoCarries, StopCarries DEF ReadsPull, Elsewhere, github, chat, history
<1>4. IssueOK'
  <2>1. IssueOK /\ "CI" \in States /\ 0 \in Nat
    BY DEF Typed, States
  <2>2. UNCHANGED <<approved, reviewing, vetted>>
    BY DEF ReadsPull, history
  <2>3. CASE UNCHANGED <<state, validated>>
    BY <2>1, <2>2, <2>3 DEF IssueOK
  <2>4. CASE SetState("CI", 0)
    BY <2>1, <2>2, <2>4, SetStateOK
  <2> QED
    BY <2>3, <2>4 DEF ReadsPull
<1> QED
  BY <1>2, <1>3, <1>4, RecordStepKeeps DEF ReadsPull

(* The gates: a green head that is the approved one was approved.           *)
LEMMA ChecksGatesStep == ASSUME Typed, NEW t \in Threads, ChecksGates(t) PROVE Typed'
<1>1. /\ pc[t] = "gates" /\ (Goes(t, "base") \/ Stops(t)) /\ {"gates", "base"} \subseteq Merging
      /\ Goes(t, "base") => (approved = sha[t] /\ sha[t] \in green) \/ Stops(t)
  BY DEF ChecksGates, Merging
<1>2. HandlerOK' /\ \A s \in Threads \ {t} : Same(s)
  BY <1>1, MergingSteps, MoveOK DEF ChecksGates, Elsewhere
<1>3. Carries(t)'
  <2>1. CASE Stops(t)
    BY <2>1, StopCarries
  <2>2. CASE Goes(t, "base") /\ ~Stops(t)
    <3>1. approved = sha[t] /\ sha[t] \in green
      BY <1>1, <2>2
    <3>2. sha[t] \in green \cap vetted
      BY <3>1 DEF Typed, GithubOK, IssueOK
    <3> QED
      BY <1>1, <2>2, <3>2, MergingSteps, GoCarries DEF ChecksGates, Elsewhere, github, chat, history
  <2> QED
    BY <1>1, <2>1, <2>2
<1>4. IssueOK'
  <2>1. IssueOK /\ validated \in Nat /\ "BLOCKED" \in States
    BY DEF Typed, IssueOK, States
  <2>2. UNCHANGED <<approved, reviewing, vetted>>
    BY DEF ChecksGates, history
  <2>3. CASE UNCHANGED <<state, validated>>
    BY <2>1, <2>2, <2>3 DEF IssueOK
  <2>4. CASE SetState("BLOCKED", validated)
    BY <2>1, <2>2, <2>4, SetStateOK
  <2> QED
    BY <2>3, <2>4 DEF ChecksGates
<1> QED
  BY <1>2, <1>3, <1>4, RecordStepKeeps DEF ChecksGates, Event

LEMMA ChecksBaseStep == ASSUME Typed, NEW t \in Threads, ChecksBase(t) PROVE Typed'
<1>1. pc[t] = "base" /\ (Goes(t, "send") \/ Stops(t)) /\ {"base", "send"} \subseteq Merging /\ pc[t] \in Cleared
  BY DEF ChecksBase, Merging, Cleared
<1>2. HandlerOK' /\ \A s \in Threads \ {t} : Same(s)
  BY <1>1, MergingSteps, MoveOK DEF ChecksBase, Elsewhere
<1>3. Carries(t)'
  BY <1>1, MergingSteps, GoCarries, StopCarries DEF ChecksBase, Elsewhere, github, chat, history
<1>4. IssueOK'
  BY UnmovedOK DEF ChecksBase, history
<1> QED
  BY <1>2, <1>3, <1>4, RecordStepKeeps DEF ChecksBase, issue

LEMMA RecordsStep == ASSUME Typed, NEW t \in Threads, Records(t) PROVE Typed'
<1>1. HandlerOK' /\ (\A s \in Threads \ {t} : Same(s)) /\ Carries(t)'
  BY MoveOK, StopCarries DEF Records, Elsewhere
<1>2. IssueOK'
  <2>1. IssueOK /\ sha[t] \in Nat /\ "MERGED" \in States
    BY DEF Typed, HandlerOK, States
  <2> QED
    BY <2>1, SetStateOK DEF Records, history
<1> QED
  BY <1>1, <1>2, RecordStepKeeps DEF Records

LEMMA SendsStep == ASSUME Typed, NEW t \in Threads, Sends(t) PROVE Typed'
<1> USE DEF issue, chat, Elsewhere
<1>1. pc[t] = "send" /\ (Goes(t, "record") \/ Stops(t)) /\ {"send", "record"} \subseteq Merging /\ pc[t] \in Cleared
  BY DEF Sends, Merging, Cleared
<1>2. HandlerOK' /\ \A s \in Threads \ {t} : Same(s)
  BY <1>1, MergingSteps, MoveOK DEF Sends
<1>3. Carries(t)'
  BY <1>1, MergingSteps, GoCarries, StopCarries DEF Sends
<1>4. /\ validated \in Nat /\ state \in States /\ merged \in Nat /\ Len(offers) \in Nat /\ ChatOK
      /\ attempts \in [1..MaxOffers -> Nat] /\ mergedFor \in 0..Len(offers)
  BY Lengths DEF Typed, IssueOK, GithubOK, HistoryOK
<1>5. Update(t).nonce \in 0..Len(offers)
  BY <1>1, UpdateOK, MergingSteps DEF Typed, Carries
<1>6. merged' \in {merged, head} /\ mergedFor' \in 0..Len(offers') /\ ChatOK'
  BY <1>4, <1>5 DEF Sends, ChatOK
<1> QED
  BY <1>2, <1>3, <1>4, <1>6, HandlerStepKeeps DEF Sends, ticker

LEMMA QueueOK ==
  ASSUME Typed, queue # <<>>
  PROVE  Head(queue) \in 1..Len(presses) /\ Tail(queue) \in Seq(1..Len(presses))
<1>1. queue \in Seq(1..Len(presses))
  BY DEF Typed, TelegramOK
<1> QED
  BY <1>1, HeadTailProperties

LEMMA TakesStep == ASSUME Typed, NEW t \in Threads, Takes(t) PROVE Typed'
<1> USE DEF github, issue, chat
<1>1. /\ Head(queue) \in 1..Len(presses) /\ Tail(queue) \in Seq(1..Len(presses))
      /\ Len(presses) \in Nat /\ Len(offers) \in Nat
  BY QueueOK, Lengths DEF Takes
<1>2. /\ presses[Head(queue)] \in [kind : Kinds, nonce : 0..Len(offers)]
      /\ presses[Head(queue)].kind = "confirm" => presses[Head(queue)].nonce # 0
  BY <1>1, ElementOfSeq DEF Typed, TelegramOK
<1>3. GithubOK' /\ IssueOK' /\ ChatOK' /\ TickOK'
  BY DEF Takes, Typed, GithubOK, IssueOK, ChatOK, TickOK, ticker
<1>4. HistoryOK'
  BY CountsOn DEF Takes, Typed, HistoryOK
<1>5. TelegramOK'
  BY <1>1 DEF Takes, Typed, TelegramOK
<1>6. FlagsOK'
  BY DEF Takes, Typed, FlagsOK
<1>7. HandlerOK' /\ \A s \in Threads \ {t} : Same(s)
  <2>1. presses[Head(queue)].kind \in Steps /\ Head(queue) \in 0..Len(presses)
    BY <1>1, <1>2 DEF Steps
  <2> QED
    BY <2>1 DEF Takes, Typed, HandlerOK, Same
<1>8. ASSUME NEW s \in Threads PROVE Carries(s)'
  <2>1. CASE s # t
    <3>1. Same(s) /\ Growth
      BY <1>1, <1>7, <2>1 DEF Takes, Growth
    <3> QED
      BY <3>1, CarriesOn
  <2>2. CASE s = t
    <3>1. pc'[t] = presses[Head(queue)].kind /\ job'[t] = Head(queue) /\ presses' = presses
      BY DEF Takes, Typed, HandlerOK
    <3>2. pc'[t] \in Kinds /\ job'[t] # 0 /\ Update(t)' = presses[Head(queue)]
      BY <1>1, <1>2, <3>1 DEF Update
    <3>3. Kinds \cap Confirmed = {} /\ Merging \subseteq Confirmed /\ Cleared \subseteq Confirmed
      BY DEF Kinds, Confirmed, Merging, Cleared
    <3> QED
      BY <1>2, <2>2, <3>1, <3>2, <3>3 DEF Carries
  <2> QED
    BY <2>1, <2>2
<1> QED
  BY <1>3, <1>4, <1>5, <1>6, <1>7, <1>8 DEF Typed

LEMMA HandlerStepTyped == ASSUME Typed, NEW t \in Threads, HandlerStep(t) PROVE Typed'
BY TakesStep, AsksStep, OffersStep, CancelsStep, ConfirmsStep, ClearsStep, RejectsStep, BeginsStep,
   ReadsPullStep, ChecksGatesStep, ChecksBaseStep, SendsStep, RecordsStep DEF HandlerStep

-----------------------------------------------------------------------------
(* Telegram, the poll loop and the service.                                 *)
LEMMA ServiceStepKeeps ==
  ASSUME Typed, TelegramOK', HandlerOK', FlagsOK', pending' \in 0..Len(offers), events' \in {events, events + 1},
         UNCHANGED <<head, merged, green, state, validated, approved, reviewing, vetted, offers, tick, seen,
                     attempts, handled, mergedFor>>,
         \A t \in Threads : Carries(t)'
  PROVE  Typed'
<1>1. GithubOK' /\ IssueOK' /\ TickOK'
  BY DEF Typed, GithubOK, IssueOK, TickOK
<1>2. ChatOK'
  BY DEF Typed, ChatOK
<1>3. HistoryOK'
  BY DEF Typed, HistoryOK
<1> QED
  BY <1>1, <1>2, <1>3 DEF Typed

LEMMA PollsStep == ASSUME Typed, Polls PROVE Typed'
<1> USE DEF github, issue, chat, handler, ticker, history
<1>1. Len(presses) \in Nat /\ queue \in Seq(1..Len(presses)) /\ offset + 1 \in 1..Len(presses)
  BY Lengths DEF Typed, TelegramOK, Polls
<1>2. Append(queue, offset + 1) \in Seq(1..Len(presses))
  BY <1>1, AppendProperties
<1>3. TelegramOK'
  <2>1. queue' \in Seq(1..Len(presses')) /\ presses' = presses /\ offset' = offset /\ offers' = offers
    BY <1>1, <1>2 DEF Polls
  <2>2. marked' \subseteq Nat
    BY <1>1 DEF Typed, TelegramOK, Polls
  <2> QED
    BY <2>1, <2>2 DEF Typed, TelegramOK
<1>4. HandlerOK'
  BY DEF Typed, HandlerOK, Polls
<1>5. FlagsOK'
  BY DEF Typed, FlagsOK, Polls
<1>6. \A t \in Threads : Carries(t)'
  BY CarriesOn, Lengths DEF Polls, Same, Growth
<1> QED
  BY <1>3, <1>4, <1>5, <1>6, ServiceStepKeeps DEF Polls, Typed, ChatOK

LEMMA SavesOffsetStep == ASSUME Typed, SavesOffset PROVE Typed'
<1> USE DEF github, issue, chat, handler, ticker, history
<1>1. TelegramOK'
  BY DEF Typed, TelegramOK, SavesOffset
<1>2. HandlerOK'
  BY DEF Typed, HandlerOK, SavesOffset
<1>3. FlagsOK'
  BY DEF Typed, FlagsOK, SavesOffset
<1>4. \A t \in Threads : Carries(t)'
  BY CarriesOn, Lengths DEF SavesOffset, Same, Growth
<1> QED
  BY <1>1, <1>2, <1>3, <1>4, ServiceStepKeeps DEF SavesOffset, Typed, ChatOK

LEMMA PressesStep == ASSUME Typed, Presses PROVE Typed'
<1> USE DEF github, issue, chat, handler, ticker, history
<1>1. PICK p : Press(p) /\ p \in [kind : Kinds, nonce : 0..Len(offers)] /\ (p.kind = "confirm" => p.nonce # 0)
  <2>1. CASE \E kind \in {"merge", "reject"} : Press([kind |-> kind, nonce |-> 0])
    BY <2>1, Lengths DEF Kinds
  <2>2. CASE \E kind \in {"confirm", "cancel"}, n \in 1..Len(offers) : Press([kind |-> kind, nonce |-> n])
    BY <2>2, Lengths DEF Kinds
  <2> QED
    BY <2>1, <2>2 DEF Presses
<1>2. presses \in Seq([kind : Kinds, nonce : 0..Len(offers)]) /\ Len(presses) \in Nat /\ Len(offers) \in Nat
  BY Lengths DEF Typed, TelegramOK
<1>3. /\ presses' = Append(presses, p) /\ presses' \in Seq([kind : Kinds, nonce : 0..Len(offers)])
      /\ Len(presses') = Len(presses) + 1 /\ presses'[Len(presses) + 1] = p
      /\ \A u \in 1..Len(presses) : presses'[u] = presses[u]
  BY <1>1, <1>2, AppendProperties DEF Press
<1>4. TelegramOK'
  <2>1. queue \in Seq(1..Len(presses')) /\ queue' = queue
    <3>1. 1..Len(presses) \subseteq 1..Len(presses')
      BY <1>2, <1>3
    <3> QED
      BY <1>1, <3>1, SeqMonotonic DEF Typed, TelegramOK, Press
  <2>2. \A u \in 1..Len(presses') : presses'[u].kind = "confirm" => presses'[u].nonce # 0
    BY <1>1, <1>2, <1>3 DEF Typed, TelegramOK
  <2> QED
    BY <1>1, <1>3, <2>1, <2>2 DEF Typed, TelegramOK, Press
<1>5. HandlerOK'
  BY <1>1, <1>2, <1>3 DEF Typed, HandlerOK, Press
<1>6. FlagsOK'
  BY <1>1 DEF Typed, FlagsOK, Press
<1>7. \A t \in Threads : Carries(t)'
  BY <1>1, <1>2, <1>3, CarriesOn DEF Press, Same, Growth
<1> QED
  BY <1>1, <1>4, <1>5, <1>6, <1>7, ServiceStepKeeps DEF Press, Typed, ChatOK

LEMMA ExpiresStep == ASSUME Typed, Expires PROVE Typed'
<1> USE DEF github, issue, telegram, handler, ticker, history
<1>1. TelegramOK'
  BY DEF Typed, TelegramOK, Expires
<1>2. HandlerOK'
  BY DEF Typed, HandlerOK, Expires
<1>3. FlagsOK'
  BY DEF Typed, FlagsOK, Expires
<1>4. \A t \in Threads : Carries(t)'
  BY CarriesOn, Lengths DEF Expires, Same, Growth
<1>5. pending' \in 0..Len(offers)
  BY Lengths DEF Expires
<1> QED
  BY <1>1, <1>2, <1>3, <1>4, <1>5, ServiceStepKeeps DEF Expires, Event

LEMMA ReplacesStep == ASSUME Typed, NEW t \in Threads, Replaces(t) PROVE Typed'
<1> USE DEF github, issue, chat, telegram, ticker, history
<1>1. TelegramOK'
  BY DEF Typed, TelegramOK, Replaces
<1>2. HandlerOK' /\ \A s \in Threads \ {t} : Same(s)
  BY Lengths DEF Typed, HandlerOK, Replaces, Stops, Steps, Same
<1>3. FlagsOK'
  BY DEF Typed, FlagsOK, Replaces
<1>4. ASSUME NEW s \in Threads PROVE Carries(s)'
  <2>1. CASE s = t
    BY <2>1, StopCarries DEF Replaces
  <2>2. CASE s # t
    BY <1>2, <2>2, CarriesOn, Lengths DEF Replaces, Growth
  <2> QED
    BY <2>1, <2>2
<1> QED
  BY <1>1, <1>2, <1>3, <1>4, ServiceStepKeeps DEF Replaces, Event, Typed, ChatOK

LEMMA ServiceRestartsStep == ASSUME Typed, ServiceRestarts PROVE Typed'
<1> USE DEF github, issue, chat, ticker, history
<1>1. TelegramOK'
  <2>1. <<>> \in Seq(1..Len(presses))
    BY EmptySeq
  <2> QED
    BY <2>1 DEF Typed, TelegramOK, ServiceRestarts
<1>2. HandlerOK'
  BY NobodyWorks, Lengths, ConstantsAssumption DEF HandlerOK, ServiceRestarts
<1>3. FlagsOK'
  BY DEF Typed, FlagsOK, ServiceRestarts
<1>4. ASSUME NEW s \in Threads PROVE Carries(s)'
  <2>1. pc'[s] \in {"idle", "unborn"}
    BY NobodyWorks, Lengths DEF ServiceRestarts
  <2> QED
    BY <2>1 DEF Carries, Kinds, Confirmed, Merging, Cleared
<1> QED
  BY <1>1, <1>2, <1>3, <1>4, ServiceStepKeeps DEF ServiceRestarts, Event, Typed, ChatOK

LEMMA TypedNext == Typed /\ [Next]_vars => Typed'
<1> SUFFICES ASSUME Typed, [Next]_vars PROVE Typed'
  OBVIOUS
<1>1. CASE Service
  BY <1>1, PollsStep, SavesOffsetStep, HandlerStepTyped, ReplacesStep DEF Service
<1>2. CASE Outer
  BY <1>2, OuterTyped
<1>3. CASE Presses \/ Expires \/ ServiceRestarts
  BY <1>3, PressesStep, ExpiresStep, ServiceRestartsStep
<1>4. CASE UNCHANGED vars
  <2> USE DEF vars, github, issue, chat, telegram, handler, ticker, history
  <2>1. TelegramOK'
    BY <1>4 DEF Typed, TelegramOK
  <2>2. HandlerOK'
    BY <1>4 DEF Typed, HandlerOK
  <2>3. FlagsOK'
    BY <1>4 DEF Typed, FlagsOK
  <2>4. \A t \in Threads : Carries(t)'
    BY <1>4, CarriesOn, Lengths DEF Same, Growth
  <2> QED
    BY <1>4, <2>1, <2>2, <2>3, <2>4, ServiceStepKeeps DEF Typed, ChatOK
<1> QED
  BY <1>1, <1>2, <1>3, <1>4 DEF Next, World, Outer

(* Every variable keeps its type, and a handler always has the update, the  *)
(* offer and the head its step stands for.                                  *)
THEOREM TypeCorrect == Spec => []TypeOK
<1> QED
  BY TypedInit, TypedNext, TypedIsTyped, PTL DEF Spec

-----------------------------------------------------------------------------
(* The merge.                                                               *)
LEMMA SendsGrows == ASSUME Typed, NEW t \in Threads, Sends(t) PROVE Growth
BY Lengths DEF Sends, issue, chat, Elsewhere, Growth

(* No other step of a handler merges or forgets for whom.                   *)
LEMMA OthersDoNotMerge ==
  ASSUME NEW t \in Threads, HandlerStep(t), ~Sends(t)
  PROVE  UNCHANGED <<merged, green, vetted, mergedFor, presses>>
<1> USE DEF github, issue, chat, Elsewhere, history
<1>1. CASE Takes(t)
  BY <1>1 DEF Takes, Event
<1>2. CASE Asks(t)
  BY <1>2 DEF Asks, Event
<1>3. CASE Offers(t)
  BY <1>3 DEF Offers, Event
<1>4. CASE Cancels(t)
  BY <1>4 DEF Cancels, Event
<1>5. CASE Confirms(t)
  BY <1>5 DEF Confirms, Event
<1>6. CASE Clears(t)
  BY <1>6 DEF Clears, Event
<1>7. CASE Rejects(t)
  BY <1>7 DEF Rejects, Event
<1>8. CASE Begins(t)
  BY <1>8 DEF Begins, Event
<1>9. CASE ReadsPull(t)
  BY <1>9 DEF ReadsPull, Event
<1>10. CASE ChecksGates(t)
  BY <1>10 DEF ChecksGates, Event
<1>11. CASE ChecksBase(t)
  BY <1>11 DEF ChecksBase, Event
<1>12. CASE Records(t)
  BY <1>12 DEF Records, Event
<1> QED
  BY <1>1, <1>2, <1>3, <1>4, <1>5, <1>6, <1>7, <1>8, <1>9, <1>10, <1>11, <1>12 DEF HandlerStep

LEMMA OffersGrow ==
  ASSUME Typed, NEW t \in Threads, HandlerStep(t)
  PROVE  Len(offers) <= Len(offers') /\ \A n \in 1..Len(offers) : offers'[n] = offers[n]
<1> USE DEF issue, chat, Elsewhere
<1>1. CASE Offers(t)
  <2> DEFINE o == [kind |-> IF pc[t] = "offerMerge" THEN "merge" ELSE "reject", head |-> sha[t]]
  <2>1. offers \in Seq(Offer) /\ o \in Offer /\ Len(offers) \in Nat
    BY Lengths DEF Typed, ChatOK, HandlerOK, Offer
  <2>2. offers' = Append(offers, o)
    BY <1>1 DEF Offers
  <2> HIDE DEF o
  <2> QED
    BY <2>1, <2>2, AppendProperties
<1>2. CASE ~Offers(t)
  <2>1. offers' = offers
    BY <1>2 DEF HandlerStep, Takes, Asks, Cancels, Confirms, Clears, Rejects, Begins, ReadsPull, ChecksGates,
                ChecksBase, Sends, Records
  <2> QED
    BY <2>1, Lengths
<1> QED
  BY <1>1, <1>2

(* Every step but a merge keeps the merge and whom it was for.              *)
LEMMA MergeStands ==
  ASSUME Typed, Next, \A t \in Threads : ~Sends(t)
  PROVE  /\ mergedFor' = mergedFor /\ (merged # 0 => merged' = merged)
         /\ \A n \in 1..Len(offers) : offers'[n] = offers[n]
         /\ green \subseteq green' /\ vetted \subseteq vetted'
<1>1. CASE Outer
  BY <1>1, OuterIsApart, OuterKeeps DEF Apart, Kept
<1>2. CASE \E t \in Threads : HandlerStep(t)
  BY <1>2, OthersDoNotMerge, OffersGrow
<1>3. CASE Polls \/ SavesOffset \/ \E t \in Threads : Replaces(t)
  BY <1>3 DEF Polls, SavesOffset, Replaces, github, chat, history
<1>4. CASE Expires \/ ServiceRestarts
  BY <1>4 DEF Expires, ServiceRestarts, github, chat, history
<1>5. CASE Presses
  BY <1>5 DEF Presses, Press, github, chat, history
<1> QED
  BY <1>1, <1>2, <1>3, <1>4, <1>5 DEF Next, Service, World, Outer

LEMMA MergedAsConfirmedNext == Typed /\ MergedAsConfirmed /\ [Next]_vars => MergedAsConfirmed'
<1> SUFFICES ASSUME Typed, MergedAsConfirmed, [Next]_vars, mergedFor' # 0
             PROVE  /\ offers'[mergedFor'] = [kind |-> "merge", head |-> merged']
                    /\ merged' \in green' \cap vetted'
  BY DEF MergedAsConfirmed
<1>1. CASE UNCHANGED vars
  BY <1>1 DEF MergedAsConfirmed, vars, github, chat, history
<1>2. CASE mergedFor # 0 /\ Next /\ \A t \in Threads : ~Sends(t)
  <2>1. mergedFor \in 1..Len(offers) /\ merged # 0
    BY <1>2, Lengths DEF MergedAsConfirmed, Typed, HistoryOK, GithubOK
  <2> QED
    BY <1>2, <2>1, MergeStands DEF MergedAsConfirmed
<1>3. ASSUME NEW t \in Threads, Sends(t) PROVE /\ offers'[mergedFor'] = [kind |-> "merge", head |-> merged']
                                               /\ merged' \in green' \cap vetted'
  <2>1. pc[t] = "send" /\ green' = green /\ vetted' = vetted /\ offers' = offers
    BY <1>3 DEF Sends, chat
  <2>2. CASE merged = 0 /\ head = sha[t]
    <3>1. merged' = sha[t] /\ mergedFor' = Update(t).nonce
      BY <1>3, <2>2 DEF Sends
    <3>2. /\ job[t] # 0 /\ Update(t).nonce # 0 /\ sha[t] = offers[Update(t).nonce].head
          /\ offers[Update(t).nonce].kind = "merge" /\ sha[t] \in green \cap vetted
      BY <2>1 DEF Typed, Carries, Confirmed, Merging, Cleared
    <3>3. Update(t).nonce \in 1..Len(offers)
      BY <3>2, UpdateOK, Lengths
    <3>4. offers[Update(t).nonce] = [kind |-> "merge", head |-> sha[t]]
      BY <3>2, <3>3, OfferOK DEF Offer
    <3> QED
      BY <2>1, <3>1, <3>2, <3>4
  <2>3. CASE ~(merged = 0 /\ head = sha[t])
    BY <1>3, <2>1, <2>3 DEF Sends, MergedAsConfirmed
  <2> QED
    BY <2>2, <2>3
<1>4. CASE mergedFor = 0 /\ Next /\ \A t \in Threads : ~Sends(t)
  BY <1>4, MergeStands
<1> QED
  BY <1>1, <1>2, <1>3, <1>4

(* owner_merge only ever merges the head the owner's confirmation showed,   *)
(* green and approved: for any number of handlers, commits, offers, pushes  *)
(* and restarts.                                                            *)
THEOREM MergesAsConfirmed == Spec => []MergedAsConfirmed
<1>1. Init => MergedAsConfirmed
  BY DEF Init, MergedAsConfirmed
<1> QED
  BY <1>1, TypedInit, TypedNext, MergedAsConfirmedNext, PTL DEF Spec

-----------------------------------------------------------------------------
(* Updates.  An update waits at most once, unhandled, and marked; one that  *)
(* is not marked was never handled.                                         *)
Waiting ==
  /\ \A k \in 1..Len(queue) : queue[k] \in marked /\ (queue[k] \in 1..MaxOutside => handled[queue[k]] = 0)
  /\ \A j, k \in 1..Len(queue) : queue[j] = queue[k] => j = k
  /\ \A u \in 1..MaxOutside : u \notin marked => handled[u] = 0
  /\ \A u \in 1..MaxOutside : handled[u] <= 1

LEMMA OthersDoNotDeliver ==
  ASSUME Typed, [Next]_vars, ~Polls, ~ServiceRestarts, \A t \in Threads : ~Takes(t)
  PROVE  UNCHANGED <<queue, marked, handled>>
<1> USE DEF vars, chat, telegram, handler, history, Elsewhere
<1>1. CASE Outer
  BY <1>1, OuterIsApart DEF Apart
<1>2. ASSUME NEW t \in Threads, HandlerStep(t) PROVE UNCHANGED <<queue, marked, handled>>
  BY <1>2 DEF HandlerStep, Asks, Offers, Cancels, Confirms, Clears, Rejects, Begins, ReadsPull, ChecksGates,
              ChecksBase, Sends, Records
<1>3. CASE SavesOffset \/ Presses \/ Expires \/ (\E t \in Threads : Replaces(t)) \/ UNCHANGED vars
  BY <1>3 DEF SavesOffset, Presses, Press, Expires, Replaces
<1> QED
  BY <1>1, <1>2, <1>3 DEF Next, Service, World, Outer

LEMMA WaitingNext == Typed /\ Waiting /\ [Next]_vars => Waiting'
<1> SUFFICES ASSUME Typed, Waiting, [Next]_vars PROVE Waiting'
  OBVIOUS
<1>0. queue \in Seq(1..Len(presses)) /\ handled \in [1..MaxOutside -> Nat] /\ Len(queue) \in Nat
  <2>1. queue \in Seq(1..Len(presses)) /\ handled \in [1..MaxOutside -> Nat]
    BY DEF Typed, TelegramOK, HistoryOK
  <2> QED
    BY <2>1, LenProperties
<1>1. CASE Polls
  <2>1. handled' = handled /\ marked' = marked \cup {offset + 1} /\ marked \subseteq Nat /\ offset \in Nat
    BY <1>1 DEF Polls, history, Typed, TelegramOK
  <2>2. CASE offset + 1 \in marked
    <3>1. queue' = queue
      BY <1>1, <2>2 DEF Polls
    <3> QED
      BY <2>1, <2>2, <3>1 DEF Waiting
  <2>3. CASE offset + 1 \notin marked
    <3>1. offset + 1 \in 1..Len(presses)
      BY <1>1, Lengths DEF Polls, Typed, TelegramOK
    <3>2. /\ queue' = Append(queue, offset + 1) /\ Len(queue') = Len(queue) + 1
          /\ queue'[Len(queue) + 1] = offset + 1 /\ \A k \in 1..Len(queue) : queue'[k] = queue[k]
      BY <1>0, <1>1, <2>3, <3>1, AppendProperties DEF Polls
    <3>3. \A k \in 1..Len(queue) : queue[k] # offset + 1
      BY <2>3 DEF Waiting
    <3>4. \A k \in 1..Len(queue') : k \in 1..Len(queue) \/ k = Len(queue) + 1
      BY <1>0, <3>2
    <3>5. \A k \in 1..Len(queue') : queue'[k] \in marked' /\ (queue'[k] \in 1..MaxOutside => handled'[queue'[k]] = 0)
      BY <2>1, <2>3, <3>2, <3>4 DEF Waiting
    <3>6. \A j, k \in 1..Len(queue') : queue'[j] = queue'[k] => j = k
      BY <3>2, <3>3, <3>4 DEF Waiting
    <3> QED
      BY <2>1, <3>5, <3>6 DEF Waiting
  <2> QED
    BY <2>2, <2>3
<1>2. CASE ServiceRestarts
  <2>1. queue' = <<>> /\ Len(queue') = 0 /\ UNCHANGED <<marked, handled>>
    BY <1>2, EmptySeq DEF ServiceRestarts, history
  <2> QED
    BY <2>1 DEF Waiting
<1>3. ASSUME NEW t \in Threads, Takes(t) PROVE Waiting'
  <2> DEFINE u == Head(queue)
  <2>1. /\ queue' = Tail(queue) /\ marked' = marked /\ handled' = [handled EXCEPT ![u] = @ + 1]
        /\ queue # <<>>
    BY <1>3 DEF Takes
  <2>2. /\ u = queue[1] /\ Len(queue) # 0 /\ Len(queue') = Len(queue) - 1
        /\ \A k \in 1..Len(queue') : queue'[k] = queue[k + 1]
    BY <1>0, <2>1, HeadTailProperties, EmptySeq
  <2>3. \A k \in 1..Len(queue') : k + 1 \in 1..Len(queue) /\ k + 1 # 1
    BY <1>0, <2>2
  <2>4. 1 \in 1..Len(queue)
    BY <1>0, <2>2
  <2>5. \A k \in 1..Len(queue') : queue'[k] # u
    BY <2>2, <2>3, <2>4 DEF Waiting
  <2>6. u \in marked /\ (u \in 1..MaxOutside => handled[u] = 0)
    BY <2>2, <2>4 DEF Waiting
  <2>7. \A v \in 1..MaxOutside : handled'[v] = IF v = u THEN 1 ELSE handled[v]
    BY <1>0, <2>1, <2>6
  <2> HIDE DEF u
  <2>8. \A k \in 1..Len(queue') : queue'[k] \in marked' /\ (queue'[k] \in 1..MaxOutside => handled'[queue'[k]] = 0)
    BY <2>1, <2>2, <2>3, <2>5, <2>7 DEF Waiting
  <2>9. \A j, k \in 1..Len(queue') : queue'[j] = queue'[k] => j = k
    <3> SUFFICES ASSUME NEW j \in 1..Len(queue'), NEW k \in 1..Len(queue'), queue'[j] = queue'[k]
                 PROVE  j = k
      OBVIOUS
    <3>1. j + 1 = k + 1
      BY <2>2, <2>3 DEF Waiting
    <3> QED
      BY <3>1
  <2>10. \A v \in 1..MaxOutside : (v \notin marked' => handled'[v] = 0) /\ handled'[v] <= 1
    BY <2>1, <2>6, <2>7 DEF Waiting
  <2> QED
    BY <2>8, <2>9, <2>10 DEF Waiting
<1>4. CASE ~Polls /\ ~ServiceRestarts /\ \A t \in Threads : ~Takes(t)
  BY <1>4, OthersDoNotDeliver DEF Waiting
<1> QED
  BY <1>1, <1>2, <1>3, <1>4

(* No press is handled twice, for any number of presses, handlers and       *)
(* restarts of the service.                                                 *)
THEOREM HandledOnce == Spec => []UpdatesHandledOnce
<1>1. Init => Waiting
  BY EmptySeq DEF Init, Waiting
<1>2. Waiting => UpdatesHandledOnce
  BY DEF Waiting, UpdatesHandledOnce
<1> QED
  BY <1>1, <1>2, TypedInit, TypedNext, WaitingNext, PTL DEF Spec

-----------------------------------------------------------------------------
(* Confirmations.  While no handler was replaced only the first one works,  *)
(* and an offer that is pending, about to be cleared or not made yet was    *)
(* never used.                                                              *)
Unused(n) == pending = n \/ n > Len(offers) \/ (pc[First] = "clear" /\ Update(First).nonce = n)

Unspent ==
  /\ \A t \in Threads : t # First => pc[t] = "unborn"
  /\ \A n \in 1..MaxOffers : attempts[n] <= 1 /\ (Unused(n) => attempts[n] = 0)

(* A step that makes nothing unused that was used.                          *)
LEMMA UnspentStays ==
  ASSUME Unspent, attempts' = attempts, \A t \in Threads : t # First => pc'[t] = pc[t],
         \A n \in 1..MaxOffers : Unused(n)' => Unused(n)
  PROVE  Unspent'
BY DEF Unspent

LEMMA OthersUseNothing ==
  ASSUME Typed, NEW t \in Threads, HandlerStep(t), ~Offers(t), ~Cancels(t), ~Confirms(t), ~Clears(t)
  PROVE  pc'[t] # "clear" /\ UNCHANGED <<pending, offers, presses, attempts>>
<1> USE DEF chat, Elsewhere, history
<1>1. CASE Takes(t)
  <2>1. presses[Head(queue)].kind \in Kinds
    <3>1. presses[Head(queue)] \in [kind : Kinds, nonce : 0..Len(offers)]
      BY <1>1, QueueOK, ElementOfSeq DEF Takes, Typed, TelegramOK
    <3> QED
      BY <3>1
  <2> QED
    BY <1>1, <2>1 DEF Takes, Typed, HandlerOK, Kinds
<1>2. CASE Asks(t)
  BY <1>2 DEF Asks, Stops, Goes, GoesWith, Typed, HandlerOK, Event
<1>3. CASE Rejects(t)
  BY <1>3 DEF Rejects, Stops, Goes, GoesWith, Typed, HandlerOK, Event
<1>4. CASE Begins(t)
  BY <1>4 DEF Begins, Stops, Goes, GoesWith, Typed, HandlerOK, Event
<1>5. CASE ReadsPull(t)
  BY <1>5 DEF ReadsPull, Stops, Goes, GoesWith, Typed, HandlerOK, Event
<1>6. CASE ChecksGates(t)
  BY <1>6 DEF ChecksGates, Stops, Goes, GoesWith, Typed, HandlerOK, Event
<1>7. CASE ChecksBase(t)
  BY <1>7 DEF ChecksBase, Stops, Goes, GoesWith, Typed, HandlerOK, Event
<1>8. CASE Sends(t)
  BY <1>8 DEF Sends, Stops, Goes, GoesWith, Typed, HandlerOK, Event
<1>9. CASE Records(t)
  BY <1>9 DEF Records, Stops, Goes, GoesWith, Typed, HandlerOK, Event
<1> QED
  BY <1>1, <1>2, <1>3, <1>4, <1>5, <1>6, <1>7, <1>8, <1>9 DEF HandlerStep

LEMMA UnspentHandler ==
  ASSUME Typed, Unspent, NEW t \in Threads, HandlerStep(t)
  PROVE  Unspent'
<1>1. First \in Threads
  BY ConstantsAssumption
<1>2. t = First
  BY DEF Unspent, HandlerStep, Takes, Asks, Offers, Cancels, Confirms, Clears, Rejects, Begins, ReadsPull,
         ChecksGates, ChecksBase, Sends, Records
<1>3. HandlerOK
  BY DEF Typed
<1>4. Len(offers) \in Nat /\ pending \in 0..Len(offers) /\ attempts \in [1..MaxOffers -> Nat]
  BY Lengths DEF Typed, ChatOK, HistoryOK
<1>5. CASE Offers(t)
  <2>1. /\ pending' = Len(offers) + 1 /\ Len(offers') = Len(offers) + 1 /\ pc'[First] = "idle" /\ attempts' = attempts
        /\ \A s \in Threads : s # First => pc'[s] = pc[s]
    <3>1. /\ pending' = Len(offers) + 1 /\ attempts' = attempts /\ Stops(t)
          /\ offers' = Append(offers, [kind |-> IF pc[t] = "offerMerge" THEN "merge" ELSE "reject", head |-> sha[t]])
      BY <1>5 DEF Offers, history
    <3>2. Len(offers') = Len(offers) + 1
      BY <3>1, AppendProperties DEF Typed, ChatOK, HandlerOK, Offer
    <3> QED
      BY <1>1, <1>2, <1>3, <3>1, <3>2 DEF Stops, HandlerOK
  <2>2. \A n \in 1..MaxOffers : Unused(n)' => Unused(n)
    BY <1>4, <2>1 DEF Unused
  <2> QED
    BY <2>1, <2>2, UnspentStays
<1>6. CASE Cancels(t)
  <2>1. /\ pending' = 0 /\ offers' = offers /\ pc'[First] = "idle" /\ attempts' = attempts
        /\ \A s \in Threads : s # First => pc'[s] = pc[s]
    BY <1>1, <1>2, <1>3, <1>6 DEF Cancels, Stops, HandlerOK, history
  <2>2. \A n \in 1..MaxOffers : Unused(n)' => Unused(n)
    BY <1>4, <2>1 DEF Unused
  <2> QED
    BY <2>1, <2>2, UnspentStays
<1>7. CASE Confirms(t)
  <2>1. /\ UNCHANGED <<pending, offers, presses, attempts>> /\ pc[First] = "confirm"
        /\ \A s \in Threads : s # First => pc'[s] = pc[s]
        /\ pc'[First] = "clear" => pending = Update(First).nonce /\ Update(First)' = Update(First)
    BY <1>1, <1>2, <1>3, <1>7 DEF Confirms, Stops, GoesWith, HandlerOK, history, chat, Elsewhere, Update
  <2>2. \A n \in 1..MaxOffers : Unused(n)' => Unused(n)
    BY <1>4, <2>1 DEF Unused
  <2> QED
    BY <2>1, <2>2, UnspentStays
<1>8. CASE Clears(t)
  <2> DEFINE used == Update(First).nonce
  <2>1. /\ pending' = 0 /\ offers' = offers /\ pc[First] = "clear" /\ pc'[First] # "clear"
        /\ \A s \in Threads : s # First => pc'[s] = pc[s]
        /\ attempts' = [attempts EXCEPT ![used] = @ + 1]
    BY <1>1, <1>2, <1>3, <1>8 DEF Clears, Goes, HandlerOK
  <2>2. used \in 0..Len(offers)
    BY <1>1, <2>1, UpdateOK DEF Typed, Carries, Confirmed
  <2> HIDE DEF used
  <2>3. \A n \in 1..MaxOffers : n = used => Unused(n)
    BY <2>1 DEF Unused, used
  <2>4. \A n \in 1..MaxOffers : Unused(n)' => n > Len(offers)
    BY <2>1 DEF Unused
  <2>5. ASSUME NEW n \in 1..MaxOffers PROVE attempts'[n] <= 1 /\ (Unused(n)' => attempts'[n] = 0)
    <3>1. CASE n = used
      BY <1>4, <2>1, <2>2, <2>3, <2>4, <3>1 DEF Unspent
    <3>2. CASE n # used
      <4>1. attempts'[n] = attempts[n]
        BY <1>4, <2>1, <3>2
      <4> QED
        BY <2>4, <4>1 DEF Unspent, Unused
    <3> QED
      BY <3>1, <3>2
  <2> QED
    BY <2>1, <2>5 DEF Unspent
<1>9. CASE ~Offers(t) /\ ~Cancels(t) /\ ~Confirms(t) /\ ~Clears(t)
  <2>1. pc'[First] # "clear" /\ UNCHANGED <<pending, offers, presses, attempts>>
    BY <1>2, <1>9, OthersUseNothing
  <2>2. \A s \in Threads : s # First => pc'[s] = pc[s]
    BY <1>2, <1>3, <1>9 DEF HandlerStep, Takes, Asks, Rejects, Begins, ReadsPull, ChecksGates, ChecksBase, Sends,
       Records, Stops, Goes, GoesWith, HandlerOK
  <2> QED
    BY <2>1, <2>2, UnspentStays DEF Unused
<1> QED
  BY <1>5, <1>6, <1>7, <1>8, <1>9

LEMMA UnspentNext == Typed /\ (~replaced => Unspent) /\ [Next]_vars => (~replaced' => Unspent')
<1> SUFFICES ASSUME Typed, ~replaced => Unspent, [Next]_vars, ~replaced' PROVE Unspent'
  OBVIOUS
<1>1. First \in Threads /\ HandlerOK /\ Len(presses) \in Nat
  BY Lengths, ConstantsAssumption DEF Typed
<1>2. ~replaced /\ \A t \in Threads : ~Replaces(t)
  <2>1. \A t \in Threads : ~Replaces(t)
    BY DEF Replaces
  <2>2. replaced' = replaced
    <3>1. CASE Outer
      BY <3>1, OuterIsApart DEF Apart
    <3>2. ASSUME NEW t \in Threads, HandlerStep(t) PROVE replaced' = replaced
      BY <3>2 DEF HandlerStep, Takes, Asks, Offers, Cancels, Confirms, Clears, Rejects, Begins, ReadsPull,
         ChecksGates, ChecksBase, Sends, Records, Elsewhere
    <3>3. CASE Polls \/ SavesOffset \/ Presses \/ Expires \/ ServiceRestarts \/ UNCHANGED vars
      BY <3>3 DEF Polls, SavesOffset, Presses, Press, Expires, ServiceRestarts, vars, handler
    <3> QED
      BY <2>1, <3>1, <3>2, <3>3 DEF Next, Service, World, Outer
  <2> QED
    BY <2>1, <2>2
<1>3. CASE \E t \in Threads : HandlerStep(t)
  BY <1>2, <1>3, UnspentHandler
<1>4. CASE Outer \/ Polls \/ SavesOffset \/ UNCHANGED vars
  <2>1. UNCHANGED <<pending, offers, presses, pc, job, attempts>>
    BY <1>4, OuterIsApart DEF Apart, Polls, SavesOffset, vars, chat, handler, telegram, history
  <2> QED
    BY <1>2, <2>1 DEF Unspent, Unused, Update
<1>5. CASE Presses
  <2>a. PICK p \in [kind : Kinds, nonce : 0..Len(offers)] : Press(p)
    <3>1. CASE \E kind \in {"merge", "reject"} : Press([kind |-> kind, nonce |-> 0])
      BY <3>1, Lengths DEF Kinds
    <3>2. CASE \E kind \in {"confirm", "cancel"}, n \in 1..Len(offers) : Press([kind |-> kind, nonce |-> n])
      BY <3>2, Lengths DEF Kinds
    <3> QED
      BY <1>5, <3>1, <3>2 DEF Presses
  <2>1. /\ UNCHANGED <<pending, offers, pc, job, attempts>>
        /\ presses' = Append(presses, p)
    BY <2>a DEF Press, chat, handler, history
  <2>2. \A u \in 1..Len(presses) : presses'[u] = presses[u]
    BY <2>1, AppendProperties DEF Typed, TelegramOK
  <2>3. pc[First] = "clear" => Update(First)' = Update(First)
    BY <1>1, <2>1, <2>2, UpdateOK DEF Typed, Carries, Confirmed, Update
  <2>4. \A n \in 1..MaxOffers : Unused(n)' => Unused(n)
    BY <2>1, <2>3 DEF Unused
  <2> QED
    BY <1>2, <2>1, <2>4, UnspentStays
<1>6. CASE Expires
  <2>1. pending' = 0 /\ UNCHANGED <<offers, presses, pc, job, attempts>>
    BY <1>6 DEF Expires, telegram, handler, history
  <2>2. \A n \in 1..MaxOffers : Unused(n)' => Unused(n)
    BY <2>1 DEF Unused, Update
  <2> QED
    BY <1>2, <2>1, <2>2, UnspentStays
<1>7. CASE ServiceRestarts
  <2>1. pc' = Fresh /\ UNCHANGED <<pending, offers, attempts>>
    BY <1>7 DEF ServiceRestarts, chat, history
  <2>2. pc'[First] = "idle" /\ \A t \in Threads : t # First => pc'[t] = "unborn"
    BY <1>1, <2>1 DEF Fresh
  <2> QED
    BY <1>2, <2>1, <2>2 DEF Unspent, Unused
<1> QED
  BY <1>2, <1>3, <1>4, <1>5, <1>6, <1>7 DEF Next, Service, World, Outer

(* One confirmation, one attempt, for any number of offers and presses and  *)
(* any number of restarts, unless a stuck handler was replaced.             *)
THEOREM AttemptedOnce == Spec => []OneAttempt
<1>1. Init => Unspent
  BY ConstantsAssumption DEF Init, Unspent, Fresh
<1>2. (~replaced => Unspent) => OneAttempt
  BY DEF Unspent, OneAttempt
<1> QED
  BY <1>1, <1>2, TypedInit, TypedNext, UnspentNext, PTL DEF Spec
=============================================================================
