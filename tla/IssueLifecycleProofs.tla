------------------------- MODULE IssueLifecycleProofs -------------------------
(***************************************************************************)
(* Proofs about IssueLifecycle, for any issues, locks and contracts and    *)
(* any limits: type correctness, the locks table as an implementation  *)
(* of LockTable, the repair budget, the lead's block, and the locks of a   *)
(* running worker.                                                         *)
(***************************************************************************)
EXTENDS IssueLifecycle, TLAPS

-----------------------------------------------------------------------------
(* Type correctness, part by part.                                          *)

MainJobs == Jobs \cup {"none", "claimed", "setup", "spawn", "drop", "block", "requeue", "release"}
WorkerPlaces == {"none", "start", "repair", "contract", "dropped", "agent", "publish", "limited",
                 "failed", "gaveUp", "opened", "rest", "requeue", "park"}
ReviewerPlaces == {"none", "start", "contract", "agent", "approve", "reject", "drop", "fix", "park"}

RecordOK ==
  /\ state \in [Issues -> States] /\ attempt \in [Issues -> Nat]
  /\ verdict \in [Issues -> {"none", "approve", "reject"}]
  /\ pr \subseteq Issues /\ assigned \subseteq Issues
NeedsOK == needs \in [Issues -> SUBSET Table!Wishes] /\ \A i \in Issues : needs[i] \in Contracts[i]
HistoryOK ==
  /\ ordered \in [Issues -> Nat] /\ standing \subseteq Issues /\ loosened \subseteq Issues
ThreadsOK ==
  /\ main \in [Issues -> MainJobs] /\ worker \in [Issues -> WorkerPlaces]
  /\ reviewer \in [Issues -> ReviewerPlaces]
WorldOK ==
  /\ closed \subseteq Issues /\ heartbeat \in [Issues -> {"none", "fresh", "old"}] /\ outdated \subseteq Issues
  /\ proc \in {"up", "draining", "down"} /\ orphan \in [Issues -> {"none", "known", "unknown"}]
  /\ command \in [Issues -> {"none", "block", "requeue", "unlock", "change"}]
  /\ stops \in Nat /\ interventions \in Nat
Typed == RecordOK /\ NeedsOK /\ HistoryOK /\ ThreadsOK /\ WorldOK /\ rows \subseteq Table!Rows /\ paused \in BOOLEAN

LEMMA TypedIsTypeOK == Typed <=> TypeOK
  BY DEF Typed, TypeOK, RecordOK, NeedsOK, HistoryOK, ThreadsOK, WorldOK, MainJobs, WorkerPlaces, ReviewerPlaces

(* The rows of what a contract asks for are rows of the table.              *)
LEMMA NeedsAreRows == ASSUME NEW i \in Issues, NEW wanted \in Contracts[i]
                      PROVE Table!RowsOf(i, wanted) \subseteq Table!Rows
<1>1. wanted \subseteq Table!Wishes
  BY ContractsAssumption
<1> QED
  BY <1>1 DEF Table!RowsOf, Table!Rows, Table!Wishes

(* Giving back and acquiring keep the table a table.                        *)
LEMMA RowsKept == ASSUME NEW i \in Issues, rows \subseteq Table!Rows, GiveBack(i) PROVE rows' \subseteq Table!Rows
  BY DEF GiveBack

LEMMA RowsGained == ASSUME NEW i \in Issues, NEW wanted \in Contracts[i],
                           rows \subseteq Table!Rows, loosened \subseteq Issues, Acquire(i, wanted)
                    PROVE rows' \subseteq Table!Rows /\ loosened' \subseteq Issues
  BY NeedsAreRows DEF Acquire

(* What a contract is read into stays among the contracts.                  *)
LEMMA ReadTyped == ASSUME NEW i \in Issues, NEW wanted \in Contracts[i], NeedsOK, interventions \in Nat, Reads(i, wanted)
                   PROVE NeedsOK' /\ interventions' \in Nat
<1>1. wanted \subseteq Table!Wishes
  BY ContractsAssumption
<1> QED
  BY <1>1 DEF Reads, NeedsOK, Intervene

LEMMA AdoptedTyped == ASSUME NEW i \in Issues, NEW wanted \in Contracts[i], NeedsOK, interventions \in Nat,
                             loosened \subseteq Issues, Adopts(i, wanted)
                      PROVE NeedsOK' /\ interventions' \in Nat /\ loosened' \subseteq Issues
  BY ReadTyped DEF Adopts

LEMMA RejectedTyped == ASSUME NEW i \in Issues, NeedsOK, interventions \in Nat, rows \subseteq Table!Rows,
                              loosened \subseteq Issues, Rejects(i)
                       PROVE NeedsOK' /\ interventions' \in Nat /\ rows' \subseteq Table!Rows /\ loosened' \subseteq Issues
  BY RowsKept DEF Rejects, TakeAway, Intervene, NeedsOK

(* NeedsOK is opened by the lemmas above alone: an action that keeps needs  *)
(* keeps it.                                                                *)
LEMMA NeedsKept == NeedsOK /\ UNCHANGED needs => NeedsOK'
  BY DEF NeedsOK

LEMMA TypedNext == Typed /\ [Next]_vars => Typed'
<1> SUFFICES ASSUME Typed, [Next]_vars PROVE Typed'
  OBVIOUS
<1> USE NeedsKept DEF Typed, RecordOK, HistoryOK, ThreadsOK, WorldOK, MainJobs, WorkerPlaces, ReviewerPlaces,
    record, store, threads, outside, history, bounds, Jobs, States, Nobody,
    Move, MoveOrRaise, TakeAway, SetMain, SetWorker, SetReviewer, SetCommand, NewHead, Buys, Lifted, Intervene, OrderBegins
<1>1. ASSUME NEW i \in Issues, WorkerBegins(i) PROVE Typed'
  BY <1>1 DEF WorkerBegins
<1>2. ASSUME NEW i \in Issues, WorkerReadsContract(i) PROVE Typed'
  BY <1>2, AdoptedTyped, RejectedTyped DEF WorkerReadsContract
<1>3. ASSUME NEW i \in Issues, WorkerBlocksContract(i) PROVE Typed'
  BY <1>3 DEF WorkerBlocksContract
<1>4. ASSUME NEW i \in Issues, WorkerFinishes(i) PROVE Typed'
  BY <1>4 DEF WorkerFinishes
<1>5. ASSUME NEW i \in Issues, WorkerPublishes(i) PROVE Typed'
  BY <1>5 DEF WorkerPublishes
<1>6. ASSUME NEW i \in Issues, WorkerReleases(i) PROVE Typed'
  BY <1>6, RowsKept DEF WorkerReleases
<1>7. ASSUME NEW i \in Issues, WorkerMoves(i) PROVE Typed'
  BY <1>7 DEF WorkerMoves
<1>8. ASSUME NEW i \in Issues, ReviewerBegins(i) PROVE Typed'
  BY <1>8 DEF ReviewerBegins
<1>9. ASSUME NEW i \in Issues, ReviewerReadsContract(i) PROVE Typed'
  BY <1>9, AdoptedTyped, RejectedTyped DEF ReviewerReadsContract
<1>10. ASSUME NEW i \in Issues, ReviewerFinishes(i) PROVE Typed'
  <2>1. paused' \in BOOLEAN
    BY <1>10 DEF ReviewerFinishes
  <2> QED
    BY <1>10, <2>1 DEF ReviewerFinishes
<1>11. ASSUME NEW i \in Issues, ReviewerJudges(i) PROVE Typed'
  BY <1>11 DEF ReviewerJudges
<1>12. ASSUME NEW i \in Issues, ReviewerReleases(i) PROVE Typed'
  BY <1>12, RowsKept DEF ReviewerReleases
<1>13. ASSUME NEW i \in Issues, ReviewerMoves(i) PROVE Typed'
  BY <1>13 DEF ReviewerMoves
<1>14. ASSUME NEW i \in Issues, MainReads(i) PROVE Typed'
  BY <1>14 DEF MainReads
<1>15. ASSUME NEW i \in Issues, MainWaits(i) PROVE Typed'
  BY <1>15 DEF MainWaits
<1>16. ASSUME NEW i \in Issues, Claims(i) PROVE Typed'
  BY <1>16 DEF Claims
<1>17. ASSUME NEW i \in Issues, LocksClaim(i) PROVE Typed'
  <2>1. CASE CanLock(i, needs[i])
    <3>1. needs[i] \in Contracts[i]
      BY DEF NeedsOK
    <3> QED
      BY <1>17, <2>1, <3>1, RowsGained DEF LocksClaim
  <2>2. CASE ~CanLock(i, needs[i])
    BY <1>17, <2>2 DEF LocksClaim
  <2> QED
    BY <2>1, <2>2
<1>18. ASSUME NEW i \in Issues, SetsUp(i) PROVE Typed'
  BY <1>18 DEF SetsUp
<1>19. ASSUME NEW i \in Issues, JudgesCI(i) PROVE Typed'
  BY <1>19, AdoptedTyped, RejectedTyped DEF JudgesCI
<1>20. ASSUME NEW i \in Issues, StartsRepair(i) PROVE Typed'
  <2>1. NeedsOK' /\ interventions' \in Nat /\ rows' \subseteq Table!Rows /\ loosened' \subseteq Issues
    <3>1. CASE Rejects(i)
      BY <3>1, RejectedTyped
    <3>2. ASSUME NEW wanted \in Contracts[i], Adopts(i, wanted), UNCHANGED rows
          PROVE NeedsOK' /\ interventions' \in Nat /\ rows' \subseteq Table!Rows /\ loosened' \subseteq Issues
      BY <3>2, AdoptedTyped
    <3>3. ASSUME NEW wanted \in Contracts[i], Reads(i, wanted), Acquire(i, wanted)
          PROVE NeedsOK' /\ interventions' \in Nat /\ rows' \subseteq Table!Rows /\ loosened' \subseteq Issues
      BY <3>3, ReadTyped, RowsGained
    <3> QED
      BY <1>20, <3>1, <3>2, <3>3 DEF StartsRepair
  <2>2. main' \in [Issues -> MainJobs]
    BY <1>20 DEF StartsRepair
  <2> QED
    BY <1>20, <2>1, <2>2 DEF StartsRepair
<1>21. ASSUME NEW i \in Issues, SpawnsRepair(i) PROVE Typed'
  BY <1>21 DEF SpawnsRepair
<1>22. ASSUME NEW i \in Issues, StartsReview(i) PROVE Typed'
  BY <1>22 DEF StartsReview
<1>23. ASSUME NEW i \in Issues, ActsOnVerdict(i) PROVE Typed'
  BY <1>23 DEF ActsOnVerdict
<1>24. ASSUME NEW i \in Issues, Revalidates(i) PROVE Typed'
  BY <1>24 DEF Revalidates
<1>25. ASSUME NEW i \in Issues, MainReleases(i) PROVE Typed'
  BY <1>25, RowsKept DEF MainReleases
<1>26. ASSUME NEW i \in Issues, MainMoves(i) PROVE Typed'
  BY <1>26 DEF MainMoves
<1>27. ASSUME NEW i \in Issues, ClearsSlot(i) PROVE Typed'
  BY <1>27 DEF ClearsSlot
<1>28. ASSUME NEW i \in Issues, RecoversStale(i) PROVE Typed'
  BY <1>28, RowsKept DEF RecoversStale
<1>29. ASSUME NEW i \in Issues, OrderTakesLocks(i) PROVE Typed'
  BY <1>29, RowsKept DEF OrderTakesLocks
<1>30. ASSUME NEW i \in Issues, OrderChecks(i) PROVE Typed'
  BY <1>30 DEF OrderChecks
<1>31. ASSUME NEW i \in Issues, LeadRepairs(i) PROVE Typed'
  BY <1>31 DEF LeadRepairs
<1>32. ASSUME NEW i \in Issues, LeadResumes(i) PROVE Typed'
  BY <1>32 DEF LeadResumes
<1>33. ASSUME NEW i \in Issues, Closes(i) PROVE Typed'
  BY <1>33 DEF Closes
<1>34. ASSUME NEW i \in Issues, LeadResolves(i) PROVE Typed'
  BY <1>34 DEF LeadResolves
<1>35. ASSUME NEW i \in Issues, OwnerMerges(i) PROVE Typed'
  BY <1>35, AdoptedTyped DEF OwnerMerges
<1>36. ASSUME NEW i \in Issues, OrderEnds(i) PROVE Typed'
  BY <1>36, RowsKept DEF OrderEnds
<1>37. ASSUME NEW i \in Issues, OrphanEnds(i) PROVE Typed'
  BY <1>37 DEF OrphanEnds
<1>38. ASSUME NEW i \in Issues, GrowsSilent(i) PROVE Typed'
  BY <1>38 DEF GrowsSilent
<1>39. CASE Resumes
  BY <1>39 DEF Resumes
<1>40. CASE Kill
  BY <1>40 DEF Kill
<1>41. CASE Drain
  BY <1>41 DEF Drain
<1>42. CASE DrainEnds
  BY <1>42 DEF DrainEnds
<1>43. CASE Restart
  BY <1>43 DEF Restart
<1>44. CASE UNCHANGED vars
  BY <1>44 DEF vars
<1>45. ASSUME NEW i \in Issues, Polls(i) PROVE Typed'
  BY <1>45, AdoptedTyped DEF Polls
<1>46. ASSUME NEW i \in Issues, RecoversOld(i) PROVE Typed'
  BY <1>46, RowsKept DEF RecoversOld
<1> QED
  BY <1>1, <1>2, <1>3, <1>4, <1>5, <1>6, <1>7, <1>8, <1>9, <1>10, <1>11, <1>12, <1>13, <1>14, <1>15,
     <1>16, <1>17, <1>18, <1>19, <1>20, <1>21, <1>22, <1>23, <1>24, <1>25, <1>26, <1>27, <1>28,
     <1>29, <1>30, <1>31, <1>32, <1>33, <1>34, <1>35, <1>36, <1>37, <1>38, <1>39, <1>40, <1>41,
     <1>42, <1>43, <1>44, <1>45, <1>46
  DEF Next, Orchestrator, World, WorkerStep, ReviewerStep, MainStep, Order

LEMMA TypedInit == Init => Typed
<1>1. Init => paused \in BOOLEAN
  BY DEF Init
<1>2. Init => RecordOK /\ NeedsOK /\ HistoryOK /\ ThreadsOK /\ WorldOK /\ rows \subseteq Table!Rows
  BY DEF Init, Nobody, RecordOK, NeedsOK, HistoryOK, ThreadsOK, WorldOK, MainJobs, WorkerPlaces, ReviewerPlaces, Jobs, States
<1> QED
  BY <1>1, <1>2 DEF Typed

LEMMA TypedAlways == Spec => []Typed
  BY TypedInit, TypedNext, PTL DEF Spec

(* Whatever the orchestrator, its threads, orders, kills and restarts do,   *)
(* every record, lock and thread stays among the values the code can store. *)
THEOREM TypeCorrect == Spec => []TypeOK
  BY TypedAlways, TypedIsTypeOK, PTL

-----------------------------------------------------------------------------
(* The locks table implements LockTable.                                    *)

LEMMA GiveBackIsAStep == ASSUME NEW i \in Issues, GiveBack(i) PROVE Table!Next
  BY DEF GiveBack, Table!Next, Table!GiveBack

(* CanLock is what Grant asks for, row by row.                              *)
LEMMA AcquireIsAStep == ASSUME NEW i \in Issues, NEW wanted \in Contracts[i], rows \subseteq Table!Rows,
                               CanLock(i, wanted), Acquire(i, wanted)
                        PROVE Table!Next
<1>1. wanted \in SUBSET Table!Wishes
  BY ContractsAssumption
<1>2. \A r \in rows, q \in Table!RowsOf(i, wanted) : ~Table!Conflict(r, q)
  <2> SUFFICES ASSUME NEW r \in rows, NEW w \in wanted, r.name = w.name, r.issue # i,
                      "exclusive" \in {r.mode, w.mode}
               PROVE FALSE
    BY DEF Table!RowsOf, Table!Conflict
  <2>1. r \in Blocking(i, w)
    BY DEF Blocking
  <2> QED
    BY <2>1 DEF CanLock
<1>3. rows' = {r \in rows : r.issue # i \/ \A w \in wanted : w.name # r.name} \cup Table!RowsOf(i, wanted)
  BY DEF Acquire, Replaced
<1>4. Table!Grant(i, wanted)
  BY <1>2, <1>3 DEF Table!Grant
<1> QED
  BY <1>1, <1>4 DEF Table!Next

LEMMA TableStep == Typed /\ [Next]_vars => [Table!Next]_rows
<1> SUFFICES ASSUME Typed, [Next]_vars PROVE Table!Next \/ rows' = rows
  OBVIOUS
<1> USE DEF record, store, threads, outside, history, bounds, TakeAway, Rejects, Typed
<1>1. ASSUME NEW i \in Issues, WorkerBegins(i) PROVE Table!Next \/ rows' = rows
  BY <1>1 DEF WorkerBegins
<1>2. ASSUME NEW i \in Issues, WorkerReadsContract(i) PROVE Table!Next \/ rows' = rows
  BY <1>2, GiveBackIsAStep DEF WorkerReadsContract
<1>3. ASSUME NEW i \in Issues, WorkerBlocksContract(i) PROVE Table!Next \/ rows' = rows
  BY <1>3 DEF WorkerBlocksContract
<1>4. ASSUME NEW i \in Issues, WorkerFinishes(i) PROVE Table!Next \/ rows' = rows
  BY <1>4 DEF WorkerFinishes
<1>5. ASSUME NEW i \in Issues, WorkerPublishes(i) PROVE Table!Next \/ rows' = rows
  BY <1>5 DEF WorkerPublishes
<1>6. ASSUME NEW i \in Issues, WorkerReleases(i) PROVE Table!Next \/ rows' = rows
  BY <1>6, GiveBackIsAStep DEF WorkerReleases
<1>7. ASSUME NEW i \in Issues, WorkerMoves(i) PROVE Table!Next \/ rows' = rows
  BY <1>7 DEF WorkerMoves
<1>8. ASSUME NEW i \in Issues, ReviewerBegins(i) PROVE Table!Next \/ rows' = rows
  BY <1>8 DEF ReviewerBegins
<1>9. ASSUME NEW i \in Issues, ReviewerReadsContract(i) PROVE Table!Next \/ rows' = rows
  BY <1>9, GiveBackIsAStep DEF ReviewerReadsContract
<1>10. ASSUME NEW i \in Issues, ReviewerFinishes(i) PROVE Table!Next \/ rows' = rows
  BY <1>10 DEF ReviewerFinishes
<1>11. ASSUME NEW i \in Issues, ReviewerJudges(i) PROVE Table!Next \/ rows' = rows
  BY <1>11 DEF ReviewerJudges
<1>12. ASSUME NEW i \in Issues, ReviewerReleases(i) PROVE Table!Next \/ rows' = rows
  BY <1>12, GiveBackIsAStep DEF ReviewerReleases
<1>13. ASSUME NEW i \in Issues, ReviewerMoves(i) PROVE Table!Next \/ rows' = rows
  BY <1>13 DEF ReviewerMoves
<1>14. ASSUME NEW i \in Issues, MainReads(i) PROVE Table!Next \/ rows' = rows
  BY <1>14 DEF MainReads
<1>15. ASSUME NEW i \in Issues, MainWaits(i) PROVE Table!Next \/ rows' = rows
  BY <1>15 DEF MainWaits
<1>16. ASSUME NEW i \in Issues, Claims(i) PROVE Table!Next \/ rows' = rows
  BY <1>16 DEF Claims
<1>17. ASSUME NEW i \in Issues, LocksClaim(i) PROVE Table!Next \/ rows' = rows
  BY <1>17, AcquireIsAStep DEF LocksClaim, NeedsOK
<1>18. ASSUME NEW i \in Issues, SetsUp(i) PROVE Table!Next \/ rows' = rows
  BY <1>18 DEF SetsUp
<1>19. ASSUME NEW i \in Issues, JudgesCI(i) PROVE Table!Next \/ rows' = rows
  BY <1>19, GiveBackIsAStep DEF JudgesCI
<1>20. ASSUME NEW i \in Issues, StartsRepair(i) PROVE Table!Next \/ rows' = rows
  BY <1>20, GiveBackIsAStep, AcquireIsAStep DEF StartsRepair
<1>21. ASSUME NEW i \in Issues, SpawnsRepair(i) PROVE Table!Next \/ rows' = rows
  BY <1>21 DEF SpawnsRepair
<1>22. ASSUME NEW i \in Issues, StartsReview(i) PROVE Table!Next \/ rows' = rows
  BY <1>22 DEF StartsReview
<1>23. ASSUME NEW i \in Issues, ActsOnVerdict(i) PROVE Table!Next \/ rows' = rows
  BY <1>23 DEF ActsOnVerdict
<1>24. ASSUME NEW i \in Issues, Revalidates(i) PROVE Table!Next \/ rows' = rows
  BY <1>24 DEF Revalidates
<1>25. ASSUME NEW i \in Issues, MainReleases(i) PROVE Table!Next \/ rows' = rows
  BY <1>25, GiveBackIsAStep DEF MainReleases
<1>26. ASSUME NEW i \in Issues, MainMoves(i) PROVE Table!Next \/ rows' = rows
  BY <1>26 DEF MainMoves
<1>27. ASSUME NEW i \in Issues, ClearsSlot(i) PROVE Table!Next \/ rows' = rows
  BY <1>27 DEF ClearsSlot
<1>28. ASSUME NEW i \in Issues, RecoversStale(i) PROVE Table!Next \/ rows' = rows
  BY <1>28, GiveBackIsAStep DEF RecoversStale
<1>29. ASSUME NEW i \in Issues, OrderTakesLocks(i) PROVE Table!Next \/ rows' = rows
  BY <1>29, GiveBackIsAStep DEF OrderTakesLocks
<1>30. ASSUME NEW i \in Issues, OrderChecks(i) PROVE Table!Next \/ rows' = rows
  BY <1>30 DEF OrderChecks
<1>31. ASSUME NEW i \in Issues, LeadRepairs(i) PROVE Table!Next \/ rows' = rows
  BY <1>31 DEF LeadRepairs
<1>32. ASSUME NEW i \in Issues, LeadResumes(i) PROVE Table!Next \/ rows' = rows
  BY <1>32 DEF LeadResumes
<1>33. ASSUME NEW i \in Issues, Closes(i) PROVE Table!Next \/ rows' = rows
  BY <1>33 DEF Closes
<1>34. ASSUME NEW i \in Issues, LeadResolves(i) PROVE Table!Next \/ rows' = rows
  BY <1>34 DEF LeadResolves
<1>35. ASSUME NEW i \in Issues, OwnerMerges(i) PROVE Table!Next \/ rows' = rows
  BY <1>35 DEF OwnerMerges
<1>36. ASSUME NEW i \in Issues, OrderEnds(i) PROVE Table!Next \/ rows' = rows
  BY <1>36, GiveBackIsAStep DEF OrderEnds
<1>37. ASSUME NEW i \in Issues, OrphanEnds(i) PROVE Table!Next \/ rows' = rows
  BY <1>37 DEF OrphanEnds
<1>38. ASSUME NEW i \in Issues, GrowsSilent(i) PROVE Table!Next \/ rows' = rows
  BY <1>38 DEF GrowsSilent
<1>39. CASE Resumes
  BY <1>39 DEF Resumes
<1>40. CASE Kill
  BY <1>40 DEF Kill
<1>41. CASE Drain
  BY <1>41 DEF Drain
<1>42. CASE DrainEnds
  BY <1>42 DEF DrainEnds
<1>43. CASE Restart
  BY <1>43 DEF Restart
<1>44. CASE UNCHANGED vars
  BY <1>44 DEF vars
<1>45. ASSUME NEW i \in Issues, Polls(i) PROVE Table!Next \/ rows' = rows
  BY <1>45 DEF Polls
<1>46. ASSUME NEW i \in Issues, RecoversOld(i) PROVE Table!Next \/ rows' = rows
  BY <1>46, GiveBackIsAStep DEF RecoversOld
<1> QED
  BY <1>1, <1>2, <1>3, <1>4, <1>5, <1>6, <1>7, <1>8, <1>9, <1>10, <1>11, <1>12, <1>13, <1>14, <1>15,
     <1>16, <1>17, <1>18, <1>19, <1>20, <1>21, <1>22, <1>23, <1>24, <1>25, <1>26, <1>27, <1>28,
     <1>29, <1>30, <1>31, <1>32, <1>33, <1>34, <1>35, <1>36, <1>37, <1>38, <1>39, <1>40, <1>41,
     <1>42, <1>43, <1>44, <1>45, <1>46
  DEF Next, Orchestrator, World, WorkerStep, ReviewerStep, MainStep, Order

(* With the orchestrator, its threads, agentctl and recovery all writing to *)
(* it, the locks table only ever does what LockTable allows, for any issues *)
(* and any needs.                                                           *)
THEOREM LocksImplementTable == Spec => LocksAreGranted
<1>1. Init => Table!Init
  BY DEF Init, Table!Init
<1> QED
  BY <1>1, TypedAlways, TableStep, PTL DEF Spec, LocksAreGranted, Table!Spec

LocksExclude == \A r, q \in rows : ~Table!Conflict(r, q)

LEMMA GrantExcludes == LocksExclude /\ [Table!Next]_rows => LocksExclude'
<1> SUFFICES ASSUME LocksExclude, Table!Next \/ rows' = rows PROVE LocksExclude'
  OBVIOUS
<1>1. CASE rows' = rows
  BY <1>1 DEF LocksExclude
<1>2. ASSUME NEW i \in Issues, Table!GiveBack(i) PROVE LocksExclude'
  BY <1>2 DEF LocksExclude, Table!GiveBack
<1>3. ASSUME NEW i \in Issues, NEW wanted \in SUBSET Table!Wishes, Table!Grant(i, wanted) PROVE LocksExclude'
  <2>1. \A r \in rows' : r \in rows \/ r \in Table!RowsOf(i, wanted)
    BY <1>3 DEF Table!Grant
  <2>2. \A r \in rows, q \in Table!RowsOf(i, wanted) : ~Table!Conflict(r, q) /\ ~Table!Conflict(q, r)
    BY <1>3 DEF Table!Grant, Table!Conflict
  <2>3. \A r, q \in Table!RowsOf(i, wanted) : ~Table!Conflict(r, q)
    BY DEF Table!RowsOf, Table!Conflict
  <2> QED
    BY <2>1, <2>2, <2>3 DEF LocksExclude
<1> QED
  BY <1>1, <1>2, <1>3 DEF Table!Next

(* No lock is ever held exclusively beside another issue's row.             *)
THEOREM LocksAreExclusive == Spec => []LocksExclude
<1>1. Init => LocksExclude
  BY DEF Init, LocksExclude
<1> QED
  BY <1>1, TypedAlways, TableStep, GrantExcludes, PTL DEF Spec

-----------------------------------------------------------------------------
(* A thread spawned for an issue begins while the main thread has left the  *)
(* issue alone.                                                             *)
Begun == \A i \in Issues : main[i] # "none" => worker[i] \notin {"start", "repair"}

LEMMA BegunNext == Typed /\ Begun /\ [Next]_vars => Begun'
<1> SUFFICES ASSUME Typed, Begun, [Next]_vars PROVE Begun'
  OBVIOUS
<1> USE DEF Typed, ThreadsOK, Begun, Nobody, record, store, threads, outside, history, bounds, SetMain, SetWorker
<1>1. ASSUME NEW i \in Issues, WorkerBegins(i) PROVE Begun'
  BY <1>1 DEF WorkerBegins
<1>2. ASSUME NEW i \in Issues, WorkerReadsContract(i) PROVE Begun'
  BY <1>2 DEF WorkerReadsContract
<1>3. ASSUME NEW i \in Issues, WorkerBlocksContract(i) PROVE Begun'
  BY <1>3 DEF WorkerBlocksContract
<1>4. ASSUME NEW i \in Issues, WorkerFinishes(i) PROVE Begun'
  BY <1>4 DEF WorkerFinishes
<1>5. ASSUME NEW i \in Issues, WorkerPublishes(i) PROVE Begun'
  BY <1>5 DEF WorkerPublishes
<1>6. ASSUME NEW i \in Issues, WorkerReleases(i) PROVE Begun'
  BY <1>6 DEF WorkerReleases
<1>7. ASSUME NEW i \in Issues, WorkerMoves(i) PROVE Begun'
  BY <1>7 DEF WorkerMoves
<1>8. ASSUME NEW i \in Issues, ReviewerBegins(i) PROVE Begun'
  BY <1>8 DEF ReviewerBegins
<1>9. ASSUME NEW i \in Issues, ReviewerReadsContract(i) PROVE Begun'
  BY <1>9 DEF ReviewerReadsContract
<1>10. ASSUME NEW i \in Issues, ReviewerFinishes(i) PROVE Begun'
  BY <1>10 DEF ReviewerFinishes
<1>11. ASSUME NEW i \in Issues, ReviewerJudges(i) PROVE Begun'
  BY <1>11 DEF ReviewerJudges
<1>12. ASSUME NEW i \in Issues, ReviewerReleases(i) PROVE Begun'
  BY <1>12 DEF ReviewerReleases
<1>13. ASSUME NEW i \in Issues, ReviewerMoves(i) PROVE Begun'
  BY <1>13 DEF ReviewerMoves
<1>14. ASSUME NEW i \in Issues, MainReads(i) PROVE Begun'
  BY <1>14 DEF MainReads, Settled, MainFree
<1>15. ASSUME NEW i \in Issues, MainWaits(i) PROVE Begun'
  BY <1>15 DEF MainWaits
<1>16. ASSUME NEW i \in Issues, Claims(i) PROVE Begun'
  BY <1>16 DEF Claims
<1>17. ASSUME NEW i \in Issues, LocksClaim(i) PROVE Begun'
  BY <1>17 DEF LocksClaim
<1>18. ASSUME NEW i \in Issues, SetsUp(i) PROVE Begun'
  BY <1>18 DEF SetsUp
<1>19. ASSUME NEW i \in Issues, JudgesCI(i) PROVE Begun'
  BY <1>19 DEF JudgesCI
<1>20. ASSUME NEW i \in Issues, StartsRepair(i) PROVE Begun'
  BY <1>20 DEF StartsRepair
<1>21. ASSUME NEW i \in Issues, SpawnsRepair(i) PROVE Begun'
  BY <1>21 DEF SpawnsRepair
<1>22. ASSUME NEW i \in Issues, StartsReview(i) PROVE Begun'
  BY <1>22 DEF StartsReview
<1>23. ASSUME NEW i \in Issues, ActsOnVerdict(i) PROVE Begun'
  BY <1>23 DEF ActsOnVerdict
<1>24. ASSUME NEW i \in Issues, Revalidates(i) PROVE Begun'
  BY <1>24 DEF Revalidates
<1>25. ASSUME NEW i \in Issues, MainReleases(i) PROVE Begun'
  BY <1>25 DEF MainReleases
<1>26. ASSUME NEW i \in Issues, MainMoves(i) PROVE Begun'
  BY <1>26 DEF MainMoves
<1>27. ASSUME NEW i \in Issues, ClearsSlot(i) PROVE Begun'
  BY <1>27 DEF ClearsSlot
<1>28. ASSUME NEW i \in Issues, RecoversStale(i) PROVE Begun'
  BY <1>28 DEF RecoversStale
<1>29. ASSUME NEW i \in Issues, OrderTakesLocks(i) PROVE Begun'
  BY <1>29 DEF OrderTakesLocks
<1>30. ASSUME NEW i \in Issues, OrderChecks(i) PROVE Begun'
  BY <1>30 DEF OrderChecks
<1>31. ASSUME NEW i \in Issues, LeadRepairs(i) PROVE Begun'
  BY <1>31 DEF LeadRepairs
<1>32. ASSUME NEW i \in Issues, LeadResumes(i) PROVE Begun'
  BY <1>32 DEF LeadResumes
<1>33. ASSUME NEW i \in Issues, Closes(i) PROVE Begun'
  BY <1>33 DEF Closes
<1>34. ASSUME NEW i \in Issues, LeadResolves(i) PROVE Begun'
  BY <1>34 DEF LeadResolves
<1>35. ASSUME NEW i \in Issues, OwnerMerges(i) PROVE Begun'
  BY <1>35 DEF OwnerMerges
<1>36. ASSUME NEW i \in Issues, OrderEnds(i) PROVE Begun'
  BY <1>36 DEF OrderEnds
<1>37. ASSUME NEW i \in Issues, OrphanEnds(i) PROVE Begun'
  BY <1>37 DEF OrphanEnds
<1>38. ASSUME NEW i \in Issues, GrowsSilent(i) PROVE Begun'
  BY <1>38 DEF GrowsSilent
<1>39. CASE Resumes
  BY <1>39 DEF Resumes
<1>40. CASE Kill
  BY <1>40 DEF Kill
<1>41. CASE Drain
  BY <1>41 DEF Drain
<1>42. CASE DrainEnds
  BY <1>42 DEF DrainEnds, MainFree
<1>43. CASE Restart
  BY <1>43 DEF Restart
<1>44. CASE UNCHANGED vars
  BY <1>44 DEF vars
<1>45. ASSUME NEW i \in Issues, Polls(i) PROVE Begun'
  BY <1>45 DEF Polls
<1>46. ASSUME NEW i \in Issues, RecoversOld(i) PROVE Begun'
  BY <1>46 DEF RecoversOld
<1> QED
  BY <1>1, <1>2, <1>3, <1>4, <1>5, <1>6, <1>7, <1>8, <1>9, <1>10, <1>11, <1>12, <1>13, <1>14, <1>15,
     <1>16, <1>17, <1>18, <1>19, <1>20, <1>21, <1>22, <1>23, <1>24, <1>25, <1>26, <1>27, <1>28,
     <1>29, <1>30, <1>31, <1>32, <1>33, <1>34, <1>35, <1>36, <1>37, <1>38, <1>39, <1>40, <1>41,
     <1>42, <1>43, <1>44, <1>45, <1>46
  DEF Next, Orchestrator, World, WorkerStep, ReviewerStep, MainStep, Order

LEMMA BegunAlways == Spec => []Begun
<1>1. Init => Begun
  BY DEF Init, Begun, Nobody
<1> QED
  BY <1>1, TypedAlways, BegunNext, PTL DEF Spec

-----------------------------------------------------------------------------
(* The repair budget.                                                       *)

(* One more run fits the budget.  It does wherever a run may begin, and     *)
(* wherever somebody is about to send the issue back to the queue.          *)
Room(i)   == attempt[i] <= MaxRepairAttempts + ordered[i]
MayRun(i) ==
  \/ state[i] \in {"QUEUED", "CLAIMED", "FIX_REQUIRED"}
  \/ main[i] \in {"incomplete", "claimed", "requeue"}
  \/ worker[i] \in {"rest", "requeue"}
Budgeted  == \A i \in Issues : attempt[i] <= MaxRepairAttempts + 1 + ordered[i] /\ (MayRun(i) => Room(i))

LEMMA BudgetNext == Typed /\ Begun /\ Budgeted /\ [Next]_vars => Budgeted'
<1> SUFFICES ASSUME Typed, Begun, Budgeted, [Next]_vars PROVE Budgeted'
  OBVIOUS
<1> USE DEF Typed, RecordOK, HistoryOK, ThreadsOK, Begun, Budgeted, MayRun, Room, Nobody, record, store, threads, outside, history, bounds,
    Move, MoveOrRaise, SetMain, SetWorker, Buys, AttemptsRemaining
<1>1. ASSUME NEW i \in Issues, WorkerBegins(i) PROVE Budgeted'
  BY <1>1, BoundsAssumption DEF WorkerBegins
<1>2. ASSUME NEW i \in Issues, WorkerReadsContract(i) PROVE Budgeted'
  BY <1>2, BoundsAssumption DEF WorkerReadsContract
<1>3. ASSUME NEW i \in Issues, WorkerBlocksContract(i) PROVE Budgeted'
  BY <1>3, BoundsAssumption DEF WorkerBlocksContract
<1>4. ASSUME NEW i \in Issues, WorkerFinishes(i) PROVE Budgeted'
  BY <1>4, BoundsAssumption DEF WorkerFinishes
<1>5. ASSUME NEW i \in Issues, WorkerPublishes(i) PROVE Budgeted'
  BY <1>5, BoundsAssumption DEF WorkerPublishes
<1>6. ASSUME NEW i \in Issues, WorkerReleases(i) PROVE Budgeted'
  BY <1>6, BoundsAssumption DEF WorkerReleases
<1>7. ASSUME NEW i \in Issues, WorkerMoves(i) PROVE Budgeted'
  BY <1>7, BoundsAssumption DEF WorkerMoves
<1>8. ASSUME NEW i \in Issues, ReviewerBegins(i) PROVE Budgeted'
  BY <1>8, BoundsAssumption DEF ReviewerBegins
<1>9. ASSUME NEW i \in Issues, ReviewerReadsContract(i) PROVE Budgeted'
  BY <1>9, BoundsAssumption DEF ReviewerReadsContract
<1>10. ASSUME NEW i \in Issues, ReviewerFinishes(i) PROVE Budgeted'
  BY <1>10, BoundsAssumption DEF ReviewerFinishes
<1>11. ASSUME NEW i \in Issues, ReviewerJudges(i) PROVE Budgeted'
  BY <1>11, BoundsAssumption DEF ReviewerJudges
<1>12. ASSUME NEW i \in Issues, ReviewerReleases(i) PROVE Budgeted'
  BY <1>12, BoundsAssumption DEF ReviewerReleases
<1>13. ASSUME NEW i \in Issues, ReviewerMoves(i) PROVE Budgeted'
  BY <1>13, BoundsAssumption DEF ReviewerMoves
<1>14. ASSUME NEW i \in Issues, MainReads(i) PROVE Budgeted'
  BY <1>14, BoundsAssumption DEF MainReads, Due, Jobs
<1>15. ASSUME NEW i \in Issues, MainWaits(i) PROVE Budgeted'
  BY <1>15, BoundsAssumption DEF MainWaits
<1>16. ASSUME NEW i \in Issues, Claims(i) PROVE Budgeted'
  BY <1>16, BoundsAssumption DEF Claims
<1>17. ASSUME NEW i \in Issues, LocksClaim(i) PROVE Budgeted'
  BY <1>17, BoundsAssumption DEF LocksClaim
<1>18. ASSUME NEW i \in Issues, SetsUp(i) PROVE Budgeted'
  BY <1>18, BoundsAssumption DEF SetsUp
<1>19. ASSUME NEW i \in Issues, JudgesCI(i) PROVE Budgeted'
  BY <1>19, BoundsAssumption DEF JudgesCI
<1>20. ASSUME NEW i \in Issues, StartsRepair(i) PROVE Budgeted'
  BY <1>20, BoundsAssumption DEF StartsRepair
<1>21. ASSUME NEW i \in Issues, SpawnsRepair(i) PROVE Budgeted'
  BY <1>21, BoundsAssumption DEF SpawnsRepair
<1>22. ASSUME NEW i \in Issues, StartsReview(i) PROVE Budgeted'
  BY <1>22, BoundsAssumption DEF StartsReview
<1>23. ASSUME NEW i \in Issues, ActsOnVerdict(i) PROVE Budgeted'
  BY <1>23, BoundsAssumption DEF ActsOnVerdict
<1>24. ASSUME NEW i \in Issues, Revalidates(i) PROVE Budgeted'
  BY <1>24, BoundsAssumption DEF Revalidates
<1>25. ASSUME NEW i \in Issues, MainReleases(i) PROVE Budgeted'
  BY <1>25, BoundsAssumption DEF MainReleases
<1>26. ASSUME NEW i \in Issues, MainMoves(i) PROVE Budgeted'
  BY <1>26, BoundsAssumption DEF MainMoves
<1>27. ASSUME NEW i \in Issues, ClearsSlot(i) PROVE Budgeted'
  BY <1>27, BoundsAssumption DEF ClearsSlot
<1>28. ASSUME NEW i \in Issues, RecoversStale(i) PROVE Budgeted'
  BY <1>28, BoundsAssumption DEF RecoversStale
<1>29. ASSUME NEW i \in Issues, OrderTakesLocks(i) PROVE Budgeted'
  BY <1>29, BoundsAssumption DEF OrderTakesLocks
<1>30. ASSUME NEW i \in Issues, OrderChecks(i) PROVE Budgeted'
  BY <1>30, BoundsAssumption DEF OrderChecks
<1>31. ASSUME NEW i \in Issues, LeadRepairs(i) PROVE Budgeted'
  BY <1>31, BoundsAssumption DEF LeadRepairs
<1>32. ASSUME NEW i \in Issues, LeadResumes(i) PROVE Budgeted'
  BY <1>32, BoundsAssumption DEF LeadResumes
<1>33. ASSUME NEW i \in Issues, Closes(i) PROVE Budgeted'
  BY <1>33, BoundsAssumption DEF Closes
<1>34. ASSUME NEW i \in Issues, LeadResolves(i) PROVE Budgeted'
  BY <1>34, BoundsAssumption DEF LeadResolves
<1>35. ASSUME NEW i \in Issues, OwnerMerges(i) PROVE Budgeted'
  BY <1>35, BoundsAssumption DEF OwnerMerges
<1>36. ASSUME NEW i \in Issues, OrderEnds(i) PROVE Budgeted'
  BY <1>36, BoundsAssumption DEF OrderEnds
<1>37. ASSUME NEW i \in Issues, OrphanEnds(i) PROVE Budgeted'
  BY <1>37, BoundsAssumption DEF OrphanEnds
<1>38. ASSUME NEW i \in Issues, GrowsSilent(i) PROVE Budgeted'
  BY <1>38, BoundsAssumption DEF GrowsSilent
<1>39. CASE Resumes
  BY <1>39, BoundsAssumption DEF Resumes
<1>40. CASE Kill
  BY <1>40, BoundsAssumption DEF Kill
<1>41. CASE Drain
  BY <1>41, BoundsAssumption DEF Drain
<1>42. CASE DrainEnds
  BY <1>42, BoundsAssumption DEF DrainEnds
<1>43. CASE Restart
  BY <1>43, BoundsAssumption DEF Restart
<1>44. CASE UNCHANGED vars
  BY <1>44, BoundsAssumption DEF vars
<1>45. ASSUME NEW i \in Issues, Polls(i) PROVE Budgeted'
  BY <1>45 DEF Polls
<1>46. ASSUME NEW i \in Issues, RecoversOld(i) PROVE Budgeted'
  BY <1>46 DEF RecoversOld
<1> QED
  BY <1>1, <1>2, <1>3, <1>4, <1>5, <1>6, <1>7, <1>8, <1>9, <1>10, <1>11, <1>12, <1>13, <1>14, <1>15,
     <1>16, <1>17, <1>18, <1>19, <1>20, <1>21, <1>22, <1>23, <1>24, <1>25, <1>26, <1>27, <1>28,
     <1>29, <1>30, <1>31, <1>32, <1>33, <1>34, <1>35, <1>36, <1>37, <1>38, <1>39, <1>40, <1>41,
     <1>42, <1>43, <1>44, <1>45, <1>46
  DEF Next, Orchestrator, World, WorkerStep, ReviewerStep, MainStep, Order

(* max_repair_attempts holds for any number of issues, kills and orders.    *)
THEOREM BudgetIsKept == Spec => []BudgetHolds
<1>1. Init => Budgeted
  BY BoundsAssumption DEF Init, Budgeted, MayRun, Room, Nobody
<1>2. Budgeted => BudgetHolds
  BY DEF Budgeted, BudgetHolds
<1> QED
  BY <1>1, <1>2, TypedAlways, BegunAlways, BudgetNext, PTL DEF Spec

-----------------------------------------------------------------------------
(* The lead's block.                                                        *)

(* Nobody holds in hand an issue that was blocked out of everybody's hands. *)
Parked == \A i \in standing : state[i] = "BLOCKED" /\ ~InHand(i)

LEMMA ParkedNext == Typed /\ Parked /\ [Next]_vars => Parked'
<1> SUFFICES ASSUME Typed, Parked, [Next]_vars PROVE Parked'
  OBVIOUS
<1> USE DEF Typed, RecordOK, HistoryOK, ThreadsOK, Parked, InHand, Nobody, record, store, threads, outside, history, bounds,
    Move, MoveOrRaise, SetMain, SetWorker, SetReviewer, Lifted
<1>1. ASSUME NEW i \in Issues, WorkerBegins(i) PROVE Parked'
  BY <1>1 DEF WorkerBegins
<1>2. ASSUME NEW i \in Issues, WorkerReadsContract(i) PROVE Parked'
  BY <1>2 DEF WorkerReadsContract
<1>3. ASSUME NEW i \in Issues, WorkerBlocksContract(i) PROVE Parked'
  BY <1>3 DEF WorkerBlocksContract
<1>4. ASSUME NEW i \in Issues, WorkerFinishes(i) PROVE Parked'
  BY <1>4 DEF WorkerFinishes
<1>5. ASSUME NEW i \in Issues, WorkerPublishes(i) PROVE Parked'
  BY <1>5 DEF WorkerPublishes
<1>6. ASSUME NEW i \in Issues, WorkerReleases(i) PROVE Parked'
  BY <1>6 DEF WorkerReleases
<1>7. ASSUME NEW i \in Issues, WorkerMoves(i) PROVE Parked'
  BY <1>7 DEF WorkerMoves
<1>8. ASSUME NEW i \in Issues, ReviewerBegins(i) PROVE Parked'
  BY <1>8 DEF ReviewerBegins
<1>9. ASSUME NEW i \in Issues, ReviewerReadsContract(i) PROVE Parked'
  BY <1>9 DEF ReviewerReadsContract
<1>10. ASSUME NEW i \in Issues, ReviewerFinishes(i) PROVE Parked'
  BY <1>10 DEF ReviewerFinishes
<1>11. ASSUME NEW i \in Issues, ReviewerJudges(i) PROVE Parked'
  BY <1>11 DEF ReviewerJudges
<1>12. ASSUME NEW i \in Issues, ReviewerReleases(i) PROVE Parked'
  BY <1>12 DEF ReviewerReleases
<1>13. ASSUME NEW i \in Issues, ReviewerMoves(i) PROVE Parked'
  BY <1>13 DEF ReviewerMoves
<1>14. ASSUME NEW i \in Issues, MainReads(i) PROVE Parked'
  BY <1>14 DEF MainReads, Due, Jobs
<1>15. ASSUME NEW i \in Issues, MainWaits(i) PROVE Parked'
  BY <1>15 DEF MainWaits
<1>16. ASSUME NEW i \in Issues, Claims(i) PROVE Parked'
  BY <1>16 DEF Claims
<1>17. ASSUME NEW i \in Issues, LocksClaim(i) PROVE Parked'
  BY <1>17 DEF LocksClaim
<1>18. ASSUME NEW i \in Issues, SetsUp(i) PROVE Parked'
  BY <1>18 DEF SetsUp
<1>19. ASSUME NEW i \in Issues, JudgesCI(i) PROVE Parked'
  BY <1>19 DEF JudgesCI
<1>20. ASSUME NEW i \in Issues, StartsRepair(i) PROVE Parked'
  BY <1>20 DEF StartsRepair
<1>21. ASSUME NEW i \in Issues, SpawnsRepair(i) PROVE Parked'
  BY <1>21 DEF SpawnsRepair
<1>22. ASSUME NEW i \in Issues, StartsReview(i) PROVE Parked'
  BY <1>22 DEF StartsReview
<1>23. ASSUME NEW i \in Issues, ActsOnVerdict(i) PROVE Parked'
  BY <1>23 DEF ActsOnVerdict
<1>24. ASSUME NEW i \in Issues, Revalidates(i) PROVE Parked'
  BY <1>24 DEF Revalidates
<1>25. ASSUME NEW i \in Issues, MainReleases(i) PROVE Parked'
  BY <1>25 DEF MainReleases
<1>26. ASSUME NEW i \in Issues, MainMoves(i) PROVE Parked'
  BY <1>26 DEF MainMoves
<1>27. ASSUME NEW i \in Issues, ClearsSlot(i) PROVE Parked'
  BY <1>27 DEF ClearsSlot
<1>28. ASSUME NEW i \in Issues, RecoversStale(i) PROVE Parked'
  BY <1>28 DEF RecoversStale
<1>29. ASSUME NEW i \in Issues, OrderTakesLocks(i) PROVE Parked'
  BY <1>29 DEF OrderTakesLocks
<1>30. ASSUME NEW i \in Issues, OrderChecks(i) PROVE Parked'
  BY <1>30 DEF OrderChecks
<1>31. ASSUME NEW i \in Issues, LeadRepairs(i) PROVE Parked'
  BY <1>31 DEF LeadRepairs
<1>32. ASSUME NEW i \in Issues, LeadResumes(i) PROVE Parked'
  BY <1>32 DEF LeadResumes
<1>33. ASSUME NEW i \in Issues, Closes(i) PROVE Parked'
  BY <1>33 DEF Closes
<1>34. ASSUME NEW i \in Issues, LeadResolves(i) PROVE Parked'
  BY <1>34 DEF LeadResolves
<1>35. ASSUME NEW i \in Issues, OwnerMerges(i) PROVE Parked'
  BY <1>35 DEF OwnerMerges
<1>36. ASSUME NEW i \in Issues, OrderEnds(i) PROVE Parked'
  BY <1>36 DEF OrderEnds
<1>37. ASSUME NEW i \in Issues, OrphanEnds(i) PROVE Parked'
  BY <1>37 DEF OrphanEnds
<1>38. ASSUME NEW i \in Issues, GrowsSilent(i) PROVE Parked'
  BY <1>38 DEF GrowsSilent
<1>39. CASE Resumes
  BY <1>39 DEF Resumes
<1>40. CASE Kill
  BY <1>40 DEF Kill
<1>41. CASE Drain
  BY <1>41 DEF Drain
<1>42. CASE DrainEnds
  BY <1>42 DEF DrainEnds
<1>43. CASE Restart
  BY <1>43 DEF Restart
<1>44. CASE UNCHANGED vars
  BY <1>44 DEF vars
<1>45. ASSUME NEW i \in Issues, Polls(i) PROVE Parked'
  BY <1>45 DEF Polls
<1>46. ASSUME NEW i \in Issues, RecoversOld(i) PROVE Parked'
  BY <1>46 DEF RecoversOld
<1> QED
  BY <1>1, <1>2, <1>3, <1>4, <1>5, <1>6, <1>7, <1>8, <1>9, <1>10, <1>11, <1>12, <1>13, <1>14, <1>15,
     <1>16, <1>17, <1>18, <1>19, <1>20, <1>21, <1>22, <1>23, <1>24, <1>25, <1>26, <1>27, <1>28,
     <1>29, <1>30, <1>31, <1>32, <1>33, <1>34, <1>35, <1>36, <1>37, <1>38, <1>39, <1>40, <1>41,
     <1>42, <1>43, <1>44, <1>45, <1>46
  DEF Next, Orchestrator, World, WorkerStep, ReviewerStep, MainStep, Order

(* A block of the lead that met nobody's hand stays until an order lifts it,*)
(* for any number of issues, threads at work, kills and restarts.           *)
THEOREM BlockIsKept == Spec => []BlockStands
<1>1. Init => Parked
  BY DEF Init, Parked
<1>2. Parked => BlockStands
  BY DEF Parked, BlockStands
<1> QED
  BY <1>1, <1>2, TypedAlways, ParkedNext, PTL DEF Spec

-----------------------------------------------------------------------------
(* The locks of a running worker.                                           *)

Has(i)     == Table!RowsOf(i, needs[i]) \subseteq rows
Covered(i) == i \in loosened \/ Has(i)

(* The main thread deals with an issue that is not at work, and where it    *)
(* may start a worker none is there.                                        *)
Careful ==
  /\ \A i \in Issues : main[i] \notin {"none", "shut", "lost", "block", "requeue"} => state[i] # "WORKING"
  /\ \A i \in Issues : main[i] \in {"claim", "claimed", "setup", "repair", "spawn", "incomplete", "lost"}
                         => worker[i] = "none"

(* An issue holds all of its needs or nothing, unless it is loosened; and   *)
(* between the grant and the end of the run it stays covered.               *)
Granted(i) ==
  \/ main[i] \in {"setup", "spawn"}
  \/ worker[i] \in {"start", "repair"}
  \/ state[i] = "WORKING" /\ worker[i] \in {"contract", "agent"}
Guarded == \A i \in Issues : (Holds(i) => Covered(i)) /\ (Granted(i) => Covered(i))

LEMMA CarefulNext == Typed /\ Begun /\ Careful /\ [Next]_vars => Careful'
<1> SUFFICES ASSUME Typed, Begun, Careful, [Next]_vars PROVE Careful'
  OBVIOUS
<1> USE DEF Typed, RecordOK, ThreadsOK, Begun, Careful, Nobody, record, store, threads, outside, history, bounds,
    Move, MoveOrRaise, SetMain, SetWorker
<1>1. ASSUME NEW i \in Issues, WorkerBegins(i) PROVE Careful'
  BY <1>1 DEF WorkerBegins
<1>2. ASSUME NEW i \in Issues, WorkerReadsContract(i) PROVE Careful'
  BY <1>2 DEF WorkerReadsContract
<1>3. ASSUME NEW i \in Issues, WorkerBlocksContract(i) PROVE Careful'
  BY <1>3 DEF WorkerBlocksContract
<1>4. ASSUME NEW i \in Issues, WorkerFinishes(i) PROVE Careful'
  BY <1>4 DEF WorkerFinishes
<1>5. ASSUME NEW i \in Issues, WorkerPublishes(i) PROVE Careful'
  BY <1>5 DEF WorkerPublishes
<1>6. ASSUME NEW i \in Issues, WorkerReleases(i) PROVE Careful'
  BY <1>6 DEF WorkerReleases
<1>7. ASSUME NEW i \in Issues, WorkerMoves(i) PROVE Careful'
  BY <1>7 DEF WorkerMoves
<1>8. ASSUME NEW i \in Issues, ReviewerBegins(i) PROVE Careful'
  BY <1>8 DEF ReviewerBegins
<1>9. ASSUME NEW i \in Issues, ReviewerReadsContract(i) PROVE Careful'
  BY <1>9 DEF ReviewerReadsContract
<1>10. ASSUME NEW i \in Issues, ReviewerFinishes(i) PROVE Careful'
  BY <1>10 DEF ReviewerFinishes
<1>11. ASSUME NEW i \in Issues, ReviewerJudges(i) PROVE Careful'
  BY <1>11 DEF ReviewerJudges
<1>12. ASSUME NEW i \in Issues, ReviewerReleases(i) PROVE Careful'
  BY <1>12 DEF ReviewerReleases
<1>13. ASSUME NEW i \in Issues, ReviewerMoves(i) PROVE Careful'
  BY <1>13 DEF ReviewerMoves
<1>14. ASSUME NEW i \in Issues, MainReads(i) PROVE Careful'
  BY <1>14 DEF MainReads, Due, Jobs, MainFree
<1>15. ASSUME NEW i \in Issues, MainWaits(i) PROVE Careful'
  BY <1>15 DEF MainWaits
<1>16. ASSUME NEW i \in Issues, Claims(i) PROVE Careful'
  BY <1>16 DEF Claims
<1>17. ASSUME NEW i \in Issues, LocksClaim(i) PROVE Careful'
  BY <1>17 DEF LocksClaim
<1>18. ASSUME NEW i \in Issues, SetsUp(i) PROVE Careful'
  BY <1>18 DEF SetsUp
<1>19. ASSUME NEW i \in Issues, JudgesCI(i) PROVE Careful'
  BY <1>19 DEF JudgesCI
<1>20. ASSUME NEW i \in Issues, StartsRepair(i) PROVE Careful'
  BY <1>20 DEF StartsRepair
<1>21. ASSUME NEW i \in Issues, SpawnsRepair(i) PROVE Careful'
  BY <1>21 DEF SpawnsRepair
<1>22. ASSUME NEW i \in Issues, StartsReview(i) PROVE Careful'
  BY <1>22 DEF StartsReview
<1>23. ASSUME NEW i \in Issues, ActsOnVerdict(i) PROVE Careful'
  BY <1>23 DEF ActsOnVerdict
<1>24. ASSUME NEW i \in Issues, Revalidates(i) PROVE Careful'
  BY <1>24 DEF Revalidates
<1>25. ASSUME NEW i \in Issues, MainReleases(i) PROVE Careful'
  BY <1>25 DEF MainReleases
<1>26. ASSUME NEW i \in Issues, MainMoves(i) PROVE Careful'
  BY <1>26 DEF MainMoves
<1>27. ASSUME NEW i \in Issues, ClearsSlot(i) PROVE Careful'
  BY <1>27 DEF ClearsSlot
<1>28. ASSUME NEW i \in Issues, RecoversStale(i) PROVE Careful'
  BY <1>28 DEF RecoversStale
<1>29. ASSUME NEW i \in Issues, OrderTakesLocks(i) PROVE Careful'
  BY <1>29 DEF OrderTakesLocks
<1>30. ASSUME NEW i \in Issues, OrderChecks(i) PROVE Careful'
  BY <1>30 DEF OrderChecks
<1>31. ASSUME NEW i \in Issues, LeadRepairs(i) PROVE Careful'
  BY <1>31 DEF LeadRepairs
<1>32. ASSUME NEW i \in Issues, LeadResumes(i) PROVE Careful'
  BY <1>32 DEF LeadResumes
<1>33. ASSUME NEW i \in Issues, Closes(i) PROVE Careful'
  BY <1>33 DEF Closes
<1>34. ASSUME NEW i \in Issues, LeadResolves(i) PROVE Careful'
  BY <1>34 DEF LeadResolves
<1>35. ASSUME NEW i \in Issues, OwnerMerges(i) PROVE Careful'
  BY <1>35 DEF OwnerMerges
<1>36. ASSUME NEW i \in Issues, OrderEnds(i) PROVE Careful'
  BY <1>36 DEF OrderEnds
<1>37. ASSUME NEW i \in Issues, OrphanEnds(i) PROVE Careful'
  BY <1>37 DEF OrphanEnds
<1>38. ASSUME NEW i \in Issues, GrowsSilent(i) PROVE Careful'
  BY <1>38 DEF GrowsSilent
<1>39. CASE Resumes
  BY <1>39 DEF Resumes
<1>40. CASE Kill
  BY <1>40 DEF Kill
<1>41. CASE Drain
  BY <1>41 DEF Drain
<1>42. CASE DrainEnds
  BY <1>42 DEF DrainEnds, MainFree
<1>43. CASE Restart
  BY <1>43 DEF Restart
<1>44. CASE UNCHANGED vars
  BY <1>44 DEF vars
<1>45. ASSUME NEW i \in Issues, Polls(i) PROVE Careful'
  BY <1>45 DEF Polls
<1>46. ASSUME NEW i \in Issues, RecoversOld(i) PROVE Careful'
  BY <1>46 DEF RecoversOld
<1> QED
  BY <1>1, <1>2, <1>3, <1>4, <1>5, <1>6, <1>7, <1>8, <1>9, <1>10, <1>11, <1>12, <1>13, <1>14, <1>15,
     <1>16, <1>17, <1>18, <1>19, <1>20, <1>21, <1>22, <1>23, <1>24, <1>25, <1>26, <1>27, <1>28,
     <1>29, <1>30, <1>31, <1>32, <1>33, <1>34, <1>35, <1>36, <1>37, <1>38, <1>39, <1>40, <1>41,
     <1>42, <1>43, <1>44, <1>45, <1>46
  DEF Next, Orchestrator, World, WorkerStep, ReviewerStep, MainStep, Order

LEMMA CarefulAlways == Spec => []Careful
<1>1. Init => Careful
  BY DEF Init, Careful, Nobody
<1> QED
  BY <1>1, TypedAlways, BegunAlways, CarefulNext, PTL DEF Spec

(* Only the rows and the needs of one issue change, the rows all at once.   *)
LEMMA RowsStay == ASSUME rows' = rows, needs' = needs
                  PROVE \A j \in Issues : (Holds(j)' <=> Holds(j)) /\ (Has(j)' <=> Has(j))
  BY DEF Holds, Has

LEMMA GivenBack == ASSUME NEW i \in Issues, GiveBack(i), needs' = needs
                   PROVE /\ ~Holds(i)'
                         /\ \A j \in Issues \ {i} : (Holds(j)' => Holds(j)) /\ (Has(j) => Has(j)')
  BY DEF Holds, Has, GiveBack, Table!RowsOf

LEMMA Acquired == ASSUME NEW i \in Issues, NEW wanted \in Contracts[i], NeedsOK, Acquire(i, wanted),
                         needs' = [needs EXCEPT ![i] = wanted]
                  PROVE /\ Has(i)' /\ loosened' = loosened \ {i}
                        /\ \A j \in Issues \ {i} : (Holds(j)' => Holds(j)) /\ (Has(j) => Has(j)')
  BY DEF Holds, Has, Acquire, Replaced, Table!RowsOf, NeedsOK

(* A contract adopted beside rows that stay: the issue is loosened, or      *)
(* nothing changed.                                                         *)
LEMMA Adopted == ASSUME NEW i \in Issues, NEW wanted \in Contracts[i], NeedsOK, Adopts(i, wanted), rows' = rows
                 PROVE /\ Covered(i) => Covered(i)'
                       /\ Holds(i)' <=> Holds(i)
                       /\ \A j \in Issues \ {i} : (Holds(j)' <=> Holds(j)) /\ (Has(j) <=> Has(j)') /\ (j \in loosened <=> j \in loosened')
  BY DEF Holds, Has, Covered, Adopts, Reads, NeedsOK

LEMMA GuardedNext == Typed /\ Begun /\ Careful /\ Guarded /\ [Next]_vars => Guarded'
<1> SUFFICES ASSUME Typed, Begun, Careful, Guarded, [Next]_vars PROVE Guarded'
  OBVIOUS
<1> USE DEF Typed, RecordOK, HistoryOK, ThreadsOK, Begun, Careful, Guarded, Granted, Covered, Nobody, record, store, threads, outside, history, bounds,
    Move, MoveOrRaise, TakeAway, Rejects, SetMain, SetWorker
<1>1. ASSUME NEW i \in Issues, WorkerBegins(i) PROVE Guarded'
  BY <1>1, RowsStay DEF WorkerBegins
<1>2. ASSUME NEW i \in Issues, WorkerReadsContract(i) PROVE Guarded'
  BY <1>2, GivenBack, Adopted, RowsStay DEF WorkerReadsContract
<1>3. ASSUME NEW i \in Issues, WorkerBlocksContract(i) PROVE Guarded'
  BY <1>3, RowsStay DEF WorkerBlocksContract
<1>4. ASSUME NEW i \in Issues, WorkerFinishes(i) PROVE Guarded'
  BY <1>4, RowsStay DEF WorkerFinishes
<1>5. ASSUME NEW i \in Issues, WorkerPublishes(i) PROVE Guarded'
  BY <1>5, RowsStay DEF WorkerPublishes
<1>6. ASSUME NEW i \in Issues, WorkerReleases(i) PROVE Guarded'
  BY <1>6, GivenBack DEF WorkerReleases
<1>7. ASSUME NEW i \in Issues, WorkerMoves(i) PROVE Guarded'
  BY <1>7, RowsStay DEF WorkerMoves
<1>8. ASSUME NEW i \in Issues, ReviewerBegins(i) PROVE Guarded'
  BY <1>8, RowsStay DEF ReviewerBegins
<1>9. ASSUME NEW i \in Issues, ReviewerReadsContract(i) PROVE Guarded'
  BY <1>9, GivenBack, Adopted, RowsStay DEF ReviewerReadsContract
<1>10. ASSUME NEW i \in Issues, ReviewerFinishes(i) PROVE Guarded'
  BY <1>10, RowsStay DEF ReviewerFinishes
<1>11. ASSUME NEW i \in Issues, ReviewerJudges(i) PROVE Guarded'
  BY <1>11, RowsStay DEF ReviewerJudges
<1>12. ASSUME NEW i \in Issues, ReviewerReleases(i) PROVE Guarded'
  BY <1>12, GivenBack DEF ReviewerReleases
<1>13. ASSUME NEW i \in Issues, ReviewerMoves(i) PROVE Guarded'
  BY <1>13, RowsStay DEF ReviewerMoves
<1>14. ASSUME NEW i \in Issues, MainReads(i) PROVE Guarded'
  BY <1>14, RowsStay DEF MainReads, Due, Jobs, MainFree, Settled
<1>15. ASSUME NEW i \in Issues, MainWaits(i) PROVE Guarded'
  BY <1>15, RowsStay DEF MainWaits
<1>16. ASSUME NEW i \in Issues, Claims(i) PROVE Guarded'
  BY <1>16, RowsStay DEF Claims
<1>17. ASSUME NEW i \in Issues, LocksClaim(i) PROVE Guarded'
  <2>1. needs[i] \in Contracts[i] /\ needs = [needs EXCEPT ![i] = needs[i]]
    BY DEF NeedsOK
  <2> QED
    BY <1>17, <2>1, Acquired, RowsStay DEF LocksClaim
<1>18. ASSUME NEW i \in Issues, SetsUp(i) PROVE Guarded'
  BY <1>18, RowsStay DEF SetsUp
<1>19. ASSUME NEW i \in Issues, JudgesCI(i) PROVE Guarded'
  BY <1>19, GivenBack, Adopted, RowsStay DEF JudgesCI
<1>20. ASSUME NEW i \in Issues, StartsRepair(i) PROVE Guarded'
  <2>1. CASE Rejects(i)
    BY <1>20, <2>1, GivenBack DEF StartsRepair
  <2>2. ASSUME NEW wanted \in Contracts[i], Reads(i, wanted), Acquire(i, wanted) PROVE Guarded'
    BY <1>20, <2>2, Acquired DEF StartsRepair, Reads
  <2>3. ASSUME NEW wanted \in Contracts[i], Adopts(i, wanted), UNCHANGED rows, main'[i] = "spawn" => Holds(i)
        PROVE Guarded'
    BY <1>20, <2>3, Adopted DEF StartsRepair
  <2> QED
    BY <1>20, <2>1, <2>2, <2>3 DEF StartsRepair
<1>21. ASSUME NEW i \in Issues, SpawnsRepair(i) PROVE Guarded'
  BY <1>21, RowsStay DEF SpawnsRepair
<1>22. ASSUME NEW i \in Issues, StartsReview(i) PROVE Guarded'
  BY <1>22, RowsStay DEF StartsReview
<1>23. ASSUME NEW i \in Issues, ActsOnVerdict(i) PROVE Guarded'
  BY <1>23, RowsStay DEF ActsOnVerdict
<1>24. ASSUME NEW i \in Issues, Revalidates(i) PROVE Guarded'
  BY <1>24, RowsStay DEF Revalidates
<1>25. ASSUME NEW i \in Issues, MainReleases(i) PROVE Guarded'
  BY <1>25, GivenBack DEF MainReleases
<1>26. ASSUME NEW i \in Issues, MainMoves(i) PROVE Guarded'
  BY <1>26, RowsStay DEF MainMoves
<1>27. ASSUME NEW i \in Issues, ClearsSlot(i) PROVE Guarded'
  BY <1>27, RowsStay DEF ClearsSlot
<1>28. ASSUME NEW i \in Issues, RecoversStale(i) PROVE Guarded'
  BY <1>28, GivenBack DEF RecoversStale, Settled, MainFree, ResourceHolding, States
<1>29. ASSUME NEW i \in Issues, OrderTakesLocks(i) PROVE Guarded'
  BY <1>29, GivenBack DEF OrderTakesLocks
<1>30. ASSUME NEW i \in Issues, OrderChecks(i) PROVE Guarded'
  BY <1>30, RowsStay DEF OrderChecks
<1>31. ASSUME NEW i \in Issues, LeadRepairs(i) PROVE Guarded'
  BY <1>31, RowsStay DEF LeadRepairs
<1>32. ASSUME NEW i \in Issues, LeadResumes(i) PROVE Guarded'
  BY <1>32, RowsStay DEF LeadResumes
<1>33. ASSUME NEW i \in Issues, Closes(i) PROVE Guarded'
  BY <1>33, RowsStay DEF Closes
<1>34. ASSUME NEW i \in Issues, LeadResolves(i) PROVE Guarded'
  BY <1>34, RowsStay DEF LeadResolves
<1>35. ASSUME NEW i \in Issues, OwnerMerges(i) PROVE Guarded'
  BY <1>35, Adopted DEF OwnerMerges
<1>36. ASSUME NEW i \in Issues, OrderEnds(i) PROVE Guarded'
  BY <1>36, GivenBack, RowsStay DEF OrderEnds
<1>37. ASSUME NEW i \in Issues, OrphanEnds(i) PROVE Guarded'
  BY <1>37, RowsStay DEF OrphanEnds
<1>38. ASSUME NEW i \in Issues, GrowsSilent(i) PROVE Guarded'
  BY <1>38, RowsStay DEF GrowsSilent
<1>39. CASE Resumes
  BY <1>39, RowsStay DEF Resumes
<1>40. CASE Kill
  BY <1>40, RowsStay DEF Kill
<1>41. CASE Drain
  BY <1>41, RowsStay DEF Drain
<1>42. CASE DrainEnds
  BY <1>42, RowsStay DEF DrainEnds, MainFree
<1>43. CASE Restart
  BY <1>43, RowsStay DEF Restart
<1>44. CASE UNCHANGED vars
  BY <1>44, RowsStay DEF vars
<1>45. ASSUME NEW i \in Issues, Polls(i) PROVE Guarded'
  BY <1>45, Adopted, RowsStay DEF Polls
<1>46. ASSUME NEW i \in Issues, RecoversOld(i) PROVE Guarded'
  BY <1>46, GivenBack DEF RecoversOld, Settled, MainFree, ResourceHolding, States
<1> QED
  BY <1>1, <1>2, <1>3, <1>4, <1>5, <1>6, <1>7, <1>8, <1>9, <1>10, <1>11, <1>12, <1>13, <1>14, <1>15,
     <1>16, <1>17, <1>18, <1>19, <1>20, <1>21, <1>22, <1>23, <1>24, <1>25, <1>26, <1>27, <1>28,
     <1>29, <1>30, <1>31, <1>32, <1>33, <1>34, <1>35, <1>36, <1>37, <1>38, <1>39, <1>40, <1>41,
     <1>42, <1>43, <1>44, <1>45, <1>46
  DEF Next, Orchestrator, World, WorkerStep, ReviewerStep, MainStep, Order

(* While an agent works for its issue the issue holds what its contract     *)
(* needs, unless it was loosened since: by an order, a closing or a review, *)
(* by an old heartbeat, or by an edit of the contract.  For any number of   *)
(* issues, orders, kills and restarts.                                      *)
THEOREM WorkIsCovered == Spec => []LocksCoverWork
<1>1. Init => Guarded
  BY DEF Init, Guarded, Granted, Holds, Nobody
<1>2. Guarded => LocksCoverWork
  BY DEF Guarded, Granted, Covered, Has, LocksCoverWork
<1> QED
  BY <1>1, <1>2, TypedAlways, BegunAlways, CarefulAlways, GuardedNext, PTL DEF Spec
=============================================================================
