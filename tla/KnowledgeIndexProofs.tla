------------------------ MODULE KnowledgeIndexProofs ------------------------
(***************************************************************************)
(* What holds of KnowledgeIndex for any number of agents, documents,       *)
(* configurations, edits and kills: the types, mutual exclusion of the     *)
(* writers, that search never returns text of another checksum, and what a *)
(* run that finishes leaves behind.                                        *)
(***************************************************************************)
EXTENDS KnowledgeIndex, TLAPS

(* What a commit is about to store was read from a file.                    *)
Embedded == \A a \in Agents : pc[a] = "store" => got[a] \in Contents

(* clear deletes the chunks before the checksums: from its second deletion  *)
(* on there is no chunk left.                                               *)
ClearedFirst ==
  \A a \in Agents :
    pc[a] \in {"clear keywords", "clear documents", "clear meta"} => chunks = {}

Typed == TypeOK /\ Embedded

IInv == Typed /\ OneWriter /\ ClearedFirst /\ ChunksAreOfTheChecksum

-----------------------------------------------------------------------------
(* The typing invariant, with what a commit is about to store.              *)
LEMMA TypedInit == Init => Typed
<1> SUFFICES ASSUME Init PROVE Typed
  OBVIOUS
<1>1. NoFiles \in Files
  BY DEF NoFiles, Files
<1>2. repo \in Files
  BY DEF Init, Files
<1>3. edits \in 0 .. MaxEdits /\ crashes \in 0 .. MaxCrashes
  BY BoundsAssumption DEF Init
<1> QED
  BY <1>1, <1>2, <1>3 DEF Init, Typed, TypeOK, Embedded

LEMMA FirstStepType ==
  ASSUME NEW c \in Commands
  PROVE  FirstStep[c] \in {"list", "check", "clear chunks"}
<1>1. CASE c = "index"
  BY <1>1 DEF FirstStep
<1>2. CASE c = "changed"
  BY <1>2 DEF FirstStep
<1>3. CASE c = "clear"
  BY <1>3 DEF FirstStep
<1> QED
  BY <1>1, <1>2, <1>3 DEF Commands

LEMMA TypedNext == Typed /\ [Next]_vars => Typed'
<1> SUFFICES ASSUME Typed, [Next]_vars PROVE Typed'
  OBVIOUS
<1> USE DEF Typed, TypeOK, Embedded, Writing, Over, Local, tables, Goes
<1>1. ASSUME NEW a \in Agents, Acquire(a) PROVE Typed'
  <2>1. FirstStep[command[a]] \in {"list", "check", "clear chunks"}
    BY FirstStepType
  <2> QED
    BY <1>1, <2>1 DEF Acquire
<1>2. ASSUME NEW a \in Agents, GiveUp(a) PROVE Typed'
  BY <1>2 DEF GiveUp
<1>3. ASSUME NEW a \in Agents, CheckConfig(a) PROVE Typed'
  BY <1>3 DEF CheckConfig, Raise
<1>4. ASSUME NEW a \in Agents, List(a) PROVE Typed'
  BY <1>4 DEF List, Present
<1>5. ASSUME NEW a \in Agents, Look(a) PROVE Typed'
  BY <1>5 DEF Look, Raise, Passes
<1>6. ASSUME NEW a \in Agents, Embed(a) PROVE Typed'
  <2>1. PICK d \in First(todo[a]) :
          \/ /\ repo[d] # Absent
             /\ got' = [got EXCEPT ![a] = repo[d]]
             /\ Goes(a, "store") /\ UNCHANGED lock
          \/ Raise(a) /\ UNCHANGED got
    BY <1>6 DEF Embed
  <2>2. d \in Docs
    BY <2>1 DEF First
  <2>3. repo[d] \in Contents \cup {Absent}
    BY <2>2 DEF Files
  <2> QED
    BY <1>6, <2>1, <2>3 DEF Embed, Raise
<1>7. ASSUME NEW a \in Agents, Store(a) PROVE Typed'
  <2>1. PICK d \in First(todo[a]) : Upsert(a, d, got[a]) /\ Passes(a, d)
    BY <1>7 DEF Store
  <2>2. d \in Docs /\ got[a] \in Contents
    BY <1>7, <2>1 DEF First, Store
  <2>3. chunks' \subseteq Chunks /\ keywords' \subseteq Keywords
    <3>1. /\ [doc |-> d, content |-> got[a], config |-> config[a]] \in Chunks
          /\ [doc |-> d, content |-> got[a]] \in Keywords
      BY <2>2 DEF Chunks, Keywords
    <3>2. \A ids : WithIds(keywords, ids) \subseteq keywords
      BY DEF WithIds
    <3> QED
      BY <2>1, <3>1, <3>2 DEF Upsert
  <2>4. documents' \in Files /\ meta' = meta
    BY <2>1, <2>2 DEF Upsert, Files
  <2>5. todo' \in [Agents -> SUBSET Docs]
    BY <2>1 DEF Passes
  <2> QED
    BY <1>7, <2>3, <2>4, <2>5 DEF Store
<1>8. ASSUME NEW a \in Agents, Prune(a) PROVE Typed'
  <2>1. CASE gone[a] = {} /\ Goes(a, "meta") /\ UNCHANGED <<tables, gone>>
    BY <1>8, <2>1 DEF Prune
  <2>2. ASSUME NEW d \in gone[a], Delete(d), gone' = [gone EXCEPT ![a] = @ \ {d}],
               UNCHANGED pc
        PROVE  Typed'
    <3>1. chunks' \subseteq Chunks /\ keywords' \subseteq Keywords
      BY <2>2 DEF Delete, RowsOf, WithIds
    <3>2. documents' \in Files
      BY <2>2 DEF Delete, Files
    <3> QED
      BY <1>8, <2>2, <3>1, <3>2 DEF Prune, Delete
  <2> QED
    BY <1>8, <2>1, <2>2 DEF Prune
<1>9. ASSUME NEW a \in Agents, FinalizeMeta(a) PROVE Typed'
  BY <1>9 DEF FinalizeMeta
<1>10. ASSUME NEW a \in Agents, Clear(a) PROVE Typed'
  <2>1. NoFiles \in Files
    BY DEF NoFiles, Files
  <2> QED
    BY <1>10, <2>1 DEF Clear
<1>11. ASSUME NEW a \in Agents, Release(a) PROVE Typed'
  BY <1>11 DEF Release
<1>12. ASSUME NEW a \in Agents, Kill(a) PROVE Typed'
  <2>1. crashes' \in 0 .. MaxCrashes
    <3>1. crashes < MaxCrashes /\ crashes' = crashes + 1
      BY <1>12 DEF Kill
    <3>2. crashes \in 0 .. MaxCrashes /\ MaxCrashes \in Nat
      BY BoundsAssumption
    <3> HIDE DEF Typed
    <3> QED
      BY <3>1, <3>2
  <2>2. /\ pc' = [pc EXCEPT ![a] = "killed"] /\ lock' = None
        /\ UNCHANGED <<repo, tables, command, config, Local, edits>>
    BY <1>12 DEF Kill
  <2> QED
    BY <2>1, <2>2, BoundsAssumption
<1>13. CASE Edit
  <2>1. repo' \in Files
    BY <1>13 DEF Edit, Files
  <2>2. edits' \in 0 .. MaxEdits
    <3>1. edits < MaxEdits /\ edits' = edits + 1
      BY <1>13 DEF Edit
    <3>2. edits \in 0 .. MaxEdits /\ MaxEdits \in Nat
      BY BoundsAssumption
    <3> HIDE DEF Typed
    <3> QED
      BY <3>1, <3>2
  <2>3. /\ current' = {}
        /\ UNCHANGED <<tables, lock, pc, command, config, todo, gone, got, crashes>>
    BY <1>13 DEF Edit
  <2> QED
    BY <2>1, <2>2, <2>3, BoundsAssumption
<1>14. CASE UNCHANGED vars
  BY <1>14 DEF vars
<1> QED
  BY <1>1, <1>2, <1>3, <1>4, <1>5, <1>6, <1>7, <1>8, <1>9, <1>10, <1>11, <1>12, <1>13, <1>14
  DEF Next, Run, AllOver

(* The tables, the agents and the lock keep their types, whatever commands  *)
(* run, raise or are killed (app/knowledge).                                *)
THEOREM TypeCorrect == Spec => []TypeOK
<1>1. Typed => TypeOK
  BY DEF Typed
<1> QED
  BY TypedInit, TypedNext, <1>1, PTL DEF Spec

-----------------------------------------------------------------------------
(* Mutual exclusion.                                                        *)
LEMMA OneWriterNext == Typed /\ OneWriter /\ [Next]_vars => OneWriter'
<1> SUFFICES ASSUME Typed, OneWriter, [Next]_vars PROVE OneWriter'
  OBVIOUS
<1>1. None \notin Agents /\ pc \in [Agents -> {"waiting"} \cup Writing \cup Over]
  BY NoneAssumption DEF Typed, TypeOK
<1> USE <1>1 DEF OneWriter, Writing, Over, Local, tables, Goes
<1>2. ASSUME NEW a \in Agents, Acquire(a) PROVE OneWriter'
  <2>1. FirstStep[command[a]] \in {"list", "check", "clear chunks"}
    BY FirstStepType DEF Typed, TypeOK
  <2> QED
    BY <1>2, <2>1 DEF Acquire
<1>3. ASSUME NEW a \in Agents, GiveUp(a) PROVE OneWriter'
  BY <1>3 DEF GiveUp
<1>4. ASSUME NEW a \in Agents, CheckConfig(a) PROVE OneWriter'
  BY <1>4 DEF CheckConfig, Raise
<1>5. ASSUME NEW a \in Agents, List(a) PROVE OneWriter'
  BY <1>5 DEF List
<1>6. ASSUME NEW a \in Agents, Look(a) PROVE OneWriter'
  <2>1. \/ (Goes(a, "prune") \/ Goes(a, "embed") \/ UNCHANGED pc) /\ UNCHANGED lock
        \/ Raise(a)
    BY <1>6 DEF Look
  <2>2. pc[a] \in Writing
    BY <1>6 DEF Look
  <2>3. CASE Raise(a)
    BY <2>2, <2>3 DEF Raise
  <2>4. CASE (Goes(a, "prune") \/ Goes(a, "embed") \/ UNCHANGED pc) /\ UNCHANGED lock
    BY <2>2, <2>4
  <2> QED
    BY <2>1, <2>3, <2>4
<1>7. ASSUME NEW a \in Agents, Embed(a) PROVE OneWriter'
  BY <1>7 DEF Embed, Raise
<1>8. ASSUME NEW a \in Agents, Store(a) PROVE OneWriter'
  BY <1>8 DEF Store
<1>9. ASSUME NEW a \in Agents, Prune(a) PROVE OneWriter'
  BY <1>9 DEF Prune
<1>10. ASSUME NEW a \in Agents, FinalizeMeta(a) PROVE OneWriter'
  BY <1>10 DEF FinalizeMeta
<1>11. ASSUME NEW a \in Agents, Clear(a) PROVE OneWriter'
  BY <1>11 DEF Clear
<1>12. ASSUME NEW a \in Agents, Release(a) PROVE OneWriter'
  BY <1>12 DEF Release
<1>13. ASSUME NEW a \in Agents, Kill(a) PROVE OneWriter'
  BY <1>13 DEF Kill
<1>14. CASE Edit
  BY <1>14 DEF Edit
<1>15. CASE UNCHANGED vars
  BY <1>15 DEF vars
<1> QED
  BY <1>2, <1>3, <1>4, <1>5, <1>6, <1>7, <1>8, <1>9, <1>10, <1>11, <1>12, <1>13, <1>14, <1>15
  DEF Next, Run, AllOver

(* acquire_index_lock: an agent is inside the `with` block exactly when it  *)
(* holds the flock, so no two agents ever are.                              *)
THEOREM MutualExclusion == Spec => []OneWriter
<1>1. Init => OneWriter
  BY NoneAssumption DEF Init, OneWriter, Writing
<1> QED
  BY TypedInit, TypedNext, <1>1, OneWriterNext, PTL DEF Spec

(* A step that changes the tables is a step of the lock's holder, in which  *)
(* no other agent moves.                                                    *)
THEOREM WritersHoldTheLock == Spec => OnlyHolderWrites
<1>1. Typed /\ OneWriter /\ [Next]_vars =>
        [tables' # tables =>
           \E a \in Agents : /\ lock = a /\ pc[a] \in Writing
                            /\ \A b \in Agents \ {a} : pc'[b] = pc[b]]_vars
  <2> SUFFICES ASSUME Typed, OneWriter, [Next]_vars, tables' # tables
               PROVE  \E a \in Agents : /\ lock = a /\ pc[a] \in Writing
                                        /\ \A b \in Agents \ {a} : pc'[b] = pc[b]
    OBVIOUS
  <2>1. PICK a \in Agents : Store(a) \/ Prune(a) \/ FinalizeMeta(a) \/ Clear(a)
    BY DEF Next, Run, Acquire, GiveUp, CheckConfig, List, Look, Embed, Release, Kill, Edit,
           AllOver, vars, tables
  <2>2. pc[a] \in Writing
    BY <2>1 DEF Store, Prune, FinalizeMeta, Clear, Writing
  <2>3. \A b \in Agents \ {a} : pc'[b] = pc[b]
    BY <2>1 DEF Store, Prune, FinalizeMeta, Clear, Goes, Typed, TypeOK
  <2> QED
    BY <2>2, <2>3 DEF OneWriter
<1>2. Init => OneWriter
  BY NoneAssumption DEF Init, OneWriter, Writing
<1> QED
  BY TypedInit, TypedNext, <1>2, OneWriterNext, <1>1, PTL DEF Spec, OnlyHolderWrites

-----------------------------------------------------------------------------
(* Chunks and checksums.                                                    *)
LEMMA SearchInvNext ==
  IInv /\ [Next]_vars => ClearedFirst' /\ ChunksAreOfTheChecksum'
<1> SUFFICES ASSUME IInv, [Next]_vars PROVE ClearedFirst' /\ ChunksAreOfTheChecksum'
  OBVIOUS
<1>1. /\ pc \in [Agents -> {"waiting"} \cup Writing \cup Over]
      /\ chunks \subseteq Chunks
      /\ documents \in [Docs -> Contents \cup {Absent}]
  BY DEF IInv, Typed, TypeOK, Files
<1>2. \A a, b \in Agents : pc[a] \in Writing /\ pc[b] \in Writing => a = b
  BY DEF IInv, OneWriter
<1>3. ASSUME NEW a \in Agents, Store(a) PROVE ClearedFirst' /\ ChunksAreOfTheChecksum'
  <2>1. PICK d \in First(todo[a]) : Upsert(a, d, got[a])
    BY <1>3 DEF Store
  <2>2. d \in Docs
    BY <2>1 DEF First, IInv, Typed, TypeOK
  <2>3. ClearedFirst'
    BY <1>1, <1>2, <1>3 DEF Store, Goes, ClearedFirst, Writing
  <2>4. ASSUME NEW c \in chunks' PROVE documents'[c.doc] = c.content
    <3>1. CASE c = [doc |-> d, content |-> got[a], config |-> config[a]]
      BY <1>1, <2>1, <2>2, <3>1 DEF Upsert
    <3>2. CASE c \in chunks /\ c.doc # d
      BY <1>1, <2>1, <3>2 DEF Upsert, IInv, ChunksAreOfTheChecksum, Chunks
    <3> QED
      BY <2>1, <3>1, <3>2 DEF Upsert, RowsOf
  <2> QED
    BY <2>3, <2>4 DEF ChunksAreOfTheChecksum
<1>4. ASSUME NEW a \in Agents, Prune(a) PROVE ClearedFirst' /\ ChunksAreOfTheChecksum'
  <2>1. CASE UNCHANGED tables /\ Goes(a, "meta")
    BY <1>1, <2>1 DEF tables, Goes, IInv, ClearedFirst, ChunksAreOfTheChecksum
  <2>2. ASSUME NEW d \in gone[a], Delete(d), UNCHANGED pc
        PROVE  ClearedFirst' /\ ChunksAreOfTheChecksum'
    <3>1. ClearedFirst'
      BY <2>2 DEF Delete, RowsOf, IInv, ClearedFirst
    <3>2. ASSUME NEW c \in chunks' PROVE documents'[c.doc] = c.content
      BY <1>1, <2>2, <3>2 DEF Delete, RowsOf, IInv, ChunksAreOfTheChecksum, Chunks
    <3> QED
      BY <3>1, <3>2 DEF ChunksAreOfTheChecksum
  <2> QED
    BY <1>4, <2>1, <2>2 DEF Prune
<1>5. ASSUME NEW a \in Agents, Clear(a) PROVE ClearedFirst' /\ ChunksAreOfTheChecksum'
  <2>1. ClearedFirst'
    BY <1>1, <1>2, <1>5 DEF Clear, Goes, IInv, ClearedFirst, Writing
  <2>2. ChunksAreOfTheChecksum'
    BY <1>5 DEF Clear, IInv, ClearedFirst, ChunksAreOfTheChecksum
  <2> QED
    BY <2>1, <2>2
<1>6. ASSUME NEW a \in Agents,
             \/ Acquire(a) \/ GiveUp(a) \/ CheckConfig(a) \/ List(a) \/ Look(a)
             \/ Embed(a) \/ FinalizeMeta(a) \/ Release(a) \/ Kill(a)
      PROVE  ClearedFirst' /\ ChunksAreOfTheChecksum'
  <2>1. UNCHANGED <<chunks, documents>>
    BY <1>6 DEF Acquire, GiveUp, CheckConfig, List, Look, Embed, FinalizeMeta, Release, Kill,
                tables
  <2>2. FirstStep[command[a]] \in {"list", "check", "clear chunks"}
    BY FirstStepType DEF IInv, Typed, TypeOK
  <2>3. \E to \in {"list", "check", "clear chunks", "refused", "deferred", "raised", "look",
                   "prune", "embed", "store", "release", "done", "killed"} :
          Goes(a, to) \/ UNCHANGED pc
    BY <1>6, <2>2 DEF Acquire, GiveUp, CheckConfig, List, Look, Embed, FinalizeMeta, Release,
                      Kill, Raise
  <2> QED
    BY <1>1, <2>1, <2>3 DEF Goes, IInv, ClearedFirst, ChunksAreOfTheChecksum
<1>7. CASE Edit \/ UNCHANGED vars
  BY <1>7 DEF Edit, vars, tables, IInv, ClearedFirst, ChunksAreOfTheChecksum
<1> QED
  BY <1>3, <1>4, <1>5, <1>6, <1>7 DEF Next, Run, AllOver

(* Every row search can return is text of the recorded checksum: edits that *)
(* race with a run, runs that raise and agents that are killed, in the      *)
(* middle of a clear too, never leave a chunk of another content.           *)
THEOREM SearchIsSound == Spec => []ChunksAreOfTheChecksum
<1>1. Init => IInv
  <2>1. Init => OneWriter /\ ClearedFirst /\ ChunksAreOfTheChecksum
    BY NoneAssumption DEF Init, OneWriter, ClearedFirst, ChunksAreOfTheChecksum, Writing
  <2> QED
    BY TypedInit, <2>1 DEF IInv
<1>2. IInv /\ [Next]_vars => IInv'
  BY TypedNext, OneWriterNext, SearchInvNext DEF IInv
<1>3. IInv => ChunksAreOfTheChecksum
  BY DEF IInv
<1> QED
  BY <1>1, <1>2, <1>3, PTL DEF Spec

-----------------------------------------------------------------------------
(* What a run leaves behind.                                                *)

Sweeping == {"look", "embed", "store", "prune", "meta", "release"}
Left(a)  == todo[a] \cup gone[a]

(* Every step of a run has finished its part: what is left to do is in todo *)
(* and gone, and the rest of the index is as the run wants it.              *)
Swept(a) ==
  /\ pc[a] \in {"prune", "meta", "release"} => todo[a] = {}
  /\ pc[a] \in {"meta", "release"} => gone[a] = {}
Rebuilt(a) == command[a] = "index" =>
  /\ \A c \in chunks : c.doc \in Left(a) \/ c.config = config[a]
  /\ pc[a] = "release" => meta = config[a]
CaughtUp(a) == a \in current =>
  /\ \A d \in todo[a] : repo[d] # Absent
  /\ \A d \in gone[a] : repo[d] = Absent
  /\ \A d \in Docs : d \in Left(a) \/ documents[d] = repo[d]
  /\ pc[a] = "store" => \A d \in First(todo[a]) : got[a] = repo[d]
Progress == \A a \in Agents : pc[a] \in Sweeping /\ command[a] # "clear" => Swept(a) /\ Rebuilt(a) /\ CaughtUp(a)

LEMMA AbsentIsNoContent == Absent \notin Contents
  BY NoneAssumption DEF Absent, Contents

(* A run that is past the lock leaves the others where they are.            *)
LEMMA OthersRest ==
  ASSUME IInv, NEW a \in Agents, pc[a] \in Writing,
         \/ List(a) \/ Look(a) \/ Embed(a) \/ Store(a) \/ Prune(a) \/ FinalizeMeta(a) \/ Clear(a) \/ Release(a)
         \/ CheckConfig(a) \/ Kill(a)
  PROVE  \A b \in Agents \ {a} : pc'[b] = pc[b] /\ pc[b] \notin Writing
<1>1. \A b \in Agents \ {a} : pc[b] \notin Writing
  BY DEF IInv, OneWriter
<1>2. \E to : Goes(a, to) \/ UNCHANGED pc
  BY DEF List, Look, Embed, Store, Prune, FinalizeMeta, Clear, Release, CheckConfig, Kill, Raise
<1> QED
  BY <1>1, <1>2 DEF Goes, IInv, Typed, TypeOK

(* Then only its own progress is at stake.                                  *)
LEMMA OwnProgress ==
  ASSUME NEW a \in Agents, \A b \in Agents \ {a} : pc'[b] = pc[b] /\ pc[b] \notin Writing,
         pc'[a] \in Sweeping /\ command'[a] # "clear" => Swept(a)' /\ Rebuilt(a)' /\ CaughtUp(a)'
  PROVE  Progress'
  BY DEF Progress, Sweeping, Writing

(* Only a clear clears.                                                     *)
Clearing    == {"clear chunks", "clear keywords", "clear documents", "clear meta"}
ClearsClear == \A a \in Agents : pc[a] \in Clearing => command[a] = "clear"

LEMMA ClearsClearNext == Typed /\ ClearsClear /\ [Next]_vars => ClearsClear'
<1> SUFFICES ASSUME Typed, ClearsClear, [Next]_vars PROVE ClearsClear'
  OBVIOUS
<1>1. ASSUME NEW a \in Agents, Acquire(a) PROVE ClearsClear'
  <2>1. FirstStep[command[a]] \in Clearing => command[a] = "clear"
    <3>1. CASE command[a] = "index"
      BY <3>1 DEF FirstStep, Clearing
    <3>2. CASE command[a] = "changed"
      BY <3>2 DEF FirstStep, Clearing
    <3> QED
      BY <3>1, <3>2 DEF Typed, TypeOK, Commands
  <2> QED
    BY <1>1, <2>1 DEF Acquire, Goes, ClearsClear, Typed, TypeOK
<1>2. ASSUME NEW a \in Agents, Clear(a) PROVE ClearsClear'
  BY <1>2 DEF Clear, Goes, ClearsClear, Clearing, Typed, TypeOK
<1>3. ASSUME NEW a \in Agents,
             \/ GiveUp(a) \/ CheckConfig(a) \/ List(a) \/ Look(a) \/ Embed(a) \/ Store(a) \/ Prune(a)
             \/ FinalizeMeta(a) \/ Release(a) \/ Kill(a)
      PROVE  ClearsClear'
  <2>1. command' = command /\ (UNCHANGED pc \/ \E to : to \notin Clearing /\ Goes(a, to))
    BY <1>3 DEF GiveUp, CheckConfig, List, Look, Embed, Store, Prune, FinalizeMeta, Release, Kill, Raise, Clearing
  <2> QED
    BY <2>1 DEF Goes, ClearsClear, Typed, TypeOK
<1>4. CASE Edit \/ UNCHANGED vars
  BY <1>4 DEF Edit, vars, ClearsClear
<1> QED
  BY <1>1, <1>2, <1>3, <1>4 DEF Next, Run, AllOver

LEMMA ProgressNext == IInv /\ ClearsClear /\ Progress /\ [Next]_vars => Progress'
<1> SUFFICES ASSUME IInv, ClearsClear, Progress, [Next]_vars PROVE Progress'
  OBVIOUS
<1>0. /\ pc \in [Agents -> {"waiting"} \cup Writing \cup Over]
      /\ todo \in [Agents -> SUBSET Docs] /\ gone \in [Agents -> SUBSET Docs]
      /\ chunks \subseteq Chunks /\ documents \in [Docs -> Contents \cup {Absent}]
      /\ repo \in [Docs -> Contents \cup {Absent}] /\ got \in [Agents -> Contents \cup {Absent}]
  BY DEF IInv, Typed, TypeOK, Files
<1>1. ASSUME NEW a \in Agents, Acquire(a) PROVE Progress'
  <2>1. FirstStep[command[a]] \in {"list", "check", "clear chunks"}
    BY FirstStepType DEF IInv, Typed, TypeOK
  <2>2. pc'[a] \notin Sweeping /\ \A b \in Agents \ {a} : pc'[b] = pc[b]
    BY <1>0, <1>1, <2>1 DEF Acquire, Goes, Sweeping
  <2> QED
    BY <1>1, <2>2 DEF Acquire, Progress, Swept, Rebuilt, CaughtUp, Left, Local, tables
<1>2. ASSUME NEW a \in Agents, GiveUp(a) PROVE Progress'
  <2>1. pc'[a] \notin Sweeping /\ \A b \in Agents \ {a} : pc'[b] = pc[b]
    BY <1>0, <1>2 DEF GiveUp, Goes, Sweeping
  <2> QED
    BY <1>2, <2>1 DEF GiveUp, Progress, Swept, Rebuilt, CaughtUp, Left, Local, tables
<1>3. ASSUME NEW a \in Agents, CheckConfig(a) \/ Kill(a) \/ Clear(a) \/ Release(a) PROVE Progress'
  <2>1. pc[a] \in Writing
    BY <1>3 DEF CheckConfig, Kill, Clear, Release, Writing
  <2>2. \A b \in Agents \ {a} : pc'[b] = pc[b] /\ pc[b] \notin Writing
    BY <1>3, <2>1, OthersRest
  <2>3. CASE pc'[a] \notin Sweeping
    BY <2>2, <2>3, OwnProgress
  <2>4. CASE pc'[a] \in Sweeping
    <3>1. Clear(a) /\ pc[a] = "clear meta"
      BY <1>0, <1>3, <2>4 DEF CheckConfig, Kill, Clear, Release, Raise, Goes, Sweeping
    <3>2. command'[a] = "clear"
      BY <3>1 DEF Clear, ClearsClear, Clearing
    <3> QED
      BY <2>2, <3>2, OwnProgress
  <2> QED
    BY <2>3, <2>4
<1>4. ASSUME NEW a \in Agents, List(a) PROVE Progress'
  <2>1. \A b \in Agents \ {a} : pc'[b] = pc[b] /\ pc[b] \notin Writing
    BY <1>4, OthersRest DEF List, Writing
  <2>2. /\ pc'[a] = "look" /\ todo'[a] = Present(repo) /\ gone'[a] = Present(documents) \ Present(repo)
        /\ UNCHANGED <<repo, documents, chunks, meta, command, config>>
    BY <1>0, <1>4 DEF List, Goes, tables
  <2>3. \A c \in chunks : c.doc \in Present(documents)
    BY <1>0, AbsentIsNoContent DEF IInv, ChunksAreOfTheChecksum, Chunks, Present
  <2>4. Swept(a)' /\ Rebuilt(a)' /\ CaughtUp(a)'
    BY <2>2, <2>3 DEF Swept, Rebuilt, CaughtUp, Left, Present
  <2> QED
    BY <2>1, <2>4, OwnProgress
<1>5. ASSUME NEW a \in Agents, Look(a) PROVE Progress'
  <2>1. \A b \in Agents \ {a} : pc'[b] = pc[b] /\ pc[b] \notin Writing
    BY <1>5, OthersRest DEF Look, Writing
  <2>2. UNCHANGED <<repo, documents, chunks, meta, command, config, gone, got, current>> /\ pc[a] = "look"
    BY <1>5 DEF Look, tables
  <2>3. command[a] # "clear" => Swept(a) /\ Rebuilt(a) /\ CaughtUp(a)
    BY <2>2 DEF Progress, Sweeping
  <2>4. CASE pc'[a] \in Sweeping /\ todo' = todo
    <3>1. pc'[a] \in {"look", "embed"} \/ (pc'[a] = "prune" /\ todo[a] = {})
      BY <1>0, <1>5, <2>4 DEF Look, Goes, Raise, Sweeping, Passes
    <3> QED
      BY <2>1, <2>2, <2>3, <2>4, <3>1, OwnProgress DEF Swept, Rebuilt, CaughtUp, Left
  <2>5. CASE pc'[a] \notin Sweeping
    BY <2>1, <2>5, OwnProgress
  <2>6. ASSUME NEW d \in First(todo[a]), command[a] # "index", IsUnchanged(d), Passes(a, d), UNCHANGED pc
        PROVE Progress'
    <3>1. todo'[a] = todo[a] \ {d} /\ repo[d] = documents[d]
      BY <1>0, <2>6 DEF Passes, IsUnchanged
    <3> QED
      BY <2>1, <2>2, <2>3, <2>6, <3>1, OwnProgress DEF Swept, Rebuilt, CaughtUp, Left
  <2> QED
    BY <1>0, <1>5, <2>4, <2>5, <2>6 DEF Look, Goes, Raise, Sweeping
<1>6. ASSUME NEW a \in Agents, Embed(a) PROVE Progress'
  <2>1. \A b \in Agents \ {a} : pc'[b] = pc[b] /\ pc[b] \notin Writing
    BY <1>6, OthersRest DEF Embed, Writing
  <2>2. UNCHANGED <<repo, documents, chunks, meta, command, config, gone, todo, current>> /\ pc[a] = "embed"
    BY <1>6 DEF Embed, tables
  <2>3. command[a] # "clear" => Swept(a) /\ Rebuilt(a) /\ CaughtUp(a)
    BY <2>2 DEF Progress, Sweeping
  <2>4. CASE pc'[a] \notin Sweeping
    BY <2>1, <2>4, OwnProgress
  <2>5. ASSUME NEW d \in First(todo[a]), got' = [got EXCEPT ![a] = repo[d]], Goes(a, "store") PROVE Progress'
    <3>1. \A e \in First(todo[a]) : e = d
      BY <1>0, <2>5 DEF First, Docs
    <3>2. got'[a] = repo[d] /\ pc'[a] = "store"
      BY <1>0, <2>5 DEF Goes
    <3> QED
      BY <2>1, <2>2, <2>3, <3>1, <3>2, OwnProgress DEF Swept, Rebuilt, CaughtUp, Left, First
  <2> QED
    BY <1>0, <1>6, <2>4, <2>5 DEF Embed, Raise, Goes, Sweeping
<1>7. ASSUME NEW a \in Agents, Store(a) PROVE Progress'
  <2>1. \A b \in Agents \ {a} : pc'[b] = pc[b] /\ pc[b] \notin Writing
    BY <1>7, OthersRest DEF Store, Writing
  <2>2. PICK d \in First(todo[a]) : Upsert(a, d, got[a]) /\ Passes(a, d)
    BY <1>7 DEF Store
  <2>3. /\ d \in Docs /\ pc'[a] = "look" /\ pc[a] = "store" /\ todo'[a] = todo[a] \ {d}
        /\ UNCHANGED <<repo, command, config, gone, current>>
    BY <1>0, <1>7, <2>2 DEF Store, First, Goes, Passes
  <2>4. command[a] # "clear" => Swept(a) /\ Rebuilt(a) /\ CaughtUp(a)
    BY <2>3 DEF Progress, Sweeping
  <2>5. /\ \A c \in chunks' : c.config = config[a] \/ (c \in chunks /\ c.doc # d)
        /\ documents'[d] = got[a] /\ \A e \in Docs \ {d} : documents'[e] = documents[e]
    BY <1>0, <2>2, <2>3 DEF Upsert, RowsOf
  <2>6. Swept(a)' /\ (command[a] # "clear" => Rebuilt(a)')
    BY <2>3, <2>4, <2>5 DEF Swept, Rebuilt, Left
  <2>7. command[a] # "clear" => CaughtUp(a)'
    BY <2>2, <2>3, <2>4, <2>5 DEF CaughtUp, Left
  <2> QED
    BY <2>1, <2>3, <2>6, <2>7, OwnProgress
<1>8. ASSUME NEW a \in Agents, Prune(a) PROVE Progress'
  <2>1. \A b \in Agents \ {a} : pc'[b] = pc[b] /\ pc[b] \notin Writing
    BY <1>8, OthersRest DEF Prune, Writing
  <2>2. UNCHANGED <<repo, command, config, todo, got, current>> /\ pc[a] = "prune"
    BY <1>8 DEF Prune
  <2>3. command[a] # "clear" => Swept(a) /\ Rebuilt(a) /\ CaughtUp(a)
    BY <2>2 DEF Progress, Sweeping
  <2>4. CASE gone[a] = {} /\ Goes(a, "meta") /\ UNCHANGED <<tables, gone>>
    <3>1. pc'[a] = "meta" /\ UNCHANGED <<documents, chunks, meta, gone>>
      BY <1>0, <2>4 DEF Goes, tables
    <3> QED
      BY <2>1, <2>2, <2>3, <2>4, <3>1, OwnProgress DEF Swept, Rebuilt, CaughtUp, Left
  <2>5. ASSUME NEW d \in gone[a], Delete(d), gone' = [gone EXCEPT ![a] = @ \ {d}], UNCHANGED pc PROVE Progress'
    <3>1. /\ d \in Docs /\ gone'[a] = gone[a] \ {d} /\ meta' = meta /\ documents'[d] = Absent
          /\ \A e \in Docs \ {d} : documents'[e] = documents[e]
          /\ \A c \in chunks' : c \in chunks /\ c.doc # d
      BY <1>0, <2>5 DEF Delete, RowsOf
    <3>2. command[a] # "clear" => Swept(a)' /\ Rebuilt(a)'
      BY <2>2, <2>3, <2>5, <3>1 DEF Swept, Rebuilt, Left
    <3>3. command[a] # "clear" => CaughtUp(a)'
      BY <2>2, <2>3, <2>5, <3>1 DEF CaughtUp, Left
    <3> QED
      BY <2>1, <2>2, <3>2, <3>3, OwnProgress
  <2> QED
    BY <1>8, <2>4, <2>5 DEF Prune
<1>9. ASSUME NEW a \in Agents, FinalizeMeta(a) PROVE Progress'
  <2>1. \A b \in Agents \ {a} : pc'[b] = pc[b] /\ pc[b] \notin Writing
    BY <1>9, OthersRest DEF FinalizeMeta, Writing
  <2>2. /\ UNCHANGED <<repo, documents, chunks, command, config, todo, gone, got, current>>
        /\ pc[a] = "meta" /\ pc'[a] = "release" /\ meta' = config[a]
    BY <1>0, <1>9 DEF FinalizeMeta, Goes, Local
  <2>3. command[a] # "clear" => Swept(a) /\ Rebuilt(a) /\ CaughtUp(a)
    BY <2>2 DEF Progress, Sweeping
  <2> QED
    BY <2>1, <2>2, <2>3, OwnProgress DEF Swept, Rebuilt, CaughtUp, Left
<1>10. CASE Edit
  BY <1>10 DEF Edit, Progress, Swept, Rebuilt, CaughtUp, Left, tables
<1>11. CASE UNCHANGED vars
  BY <1>11 DEF vars, Progress, Swept, Rebuilt, CaughtUp, Left
<1> QED
  BY <1>1, <1>2, <1>3, <1>4, <1>5, <1>6, <1>7, <1>8, <1>9, <1>10, <1>11 DEF Next, Run, AllOver

(* The documents with a checksum are those with a chunk, except between two *)
(* commits of a clear, and for good when one was killed there.              *)
Cleared == \A b \in Agents : /\ pc[b] = "killed" => command[b] # "clear"
                             /\ pc[b] \notin {"clear keywords", "clear documents"}
Matched == Cleared => \A d \in Docs : documents[d] # Absent <=> \E c \in chunks : c.doc = d

LEMMA MatchedNext == IInv /\ ClearsClear /\ Matched /\ [Next]_vars => Matched'
<1> SUFFICES ASSUME IInv, ClearsClear, Matched, [Next]_vars PROVE Matched'
  OBVIOUS
<1>0. /\ pc \in [Agents -> {"waiting"} \cup Writing \cup Over]
      /\ chunks \subseteq Chunks /\ documents \in [Docs -> Contents \cup {Absent}]
      /\ todo \in [Agents -> SUBSET Docs] /\ gone \in [Agents -> SUBSET Docs]
  BY DEF IInv, Typed, TypeOK, Files
<1>1. ASSUME NEW a \in Agents, Store(a) PROVE Matched'
  <2>1. PICK d \in First(todo[a]) : Upsert(a, d, got[a])
    BY <1>1 DEF Store
  <2>2. d \in Docs /\ got[a] # Absent
    BY <1>0, <1>1, <2>1, AbsentIsNoContent DEF Store, First, IInv, Typed, Embedded
  <2>3. Cleared' => Cleared
    BY <1>0, <1>1 DEF Store, Goes, Cleared
  <2>4. /\ documents'[d] # Absent /\ \A e \in Docs \ {d} : documents'[e] = documents[e]
        /\ \E c \in chunks' : c.doc = d
        /\ \A e \in Docs \ {d} : (\E c \in chunks' : c.doc = e) <=> (\E c \in chunks : c.doc = e)
    <3> DEFINE row == [doc |-> d, content |-> got[a], config |-> config[a]]
    <3>1. chunks' = {c \in chunks : c.doc # d} \cup {row} /\ documents' = [documents EXCEPT ![d] = got[a]]
      BY <2>1 DEF Upsert, RowsOf
    <3>2. row.doc = d /\ row \in chunks'
      BY <3>1
    <3> HIDE DEF row
    <3>3. \E c \in chunks' : c.doc = d
      BY <3>2
    <3>4. \A e \in Docs \ {d} : (\E c \in chunks' : c.doc = e) <=> (\E c \in chunks : c.doc = e)
      BY <3>1, <3>2
    <3>5. documents'[d] # Absent /\ \A e \in Docs \ {d} : documents'[e] = documents[e]
      BY <1>0, <2>2, <3>1
    <3> QED
      BY <3>3, <3>4, <3>5
  <2> QED
    BY <2>3, <2>4 DEF Matched
<1>2. ASSUME NEW a \in Agents, Prune(a) PROVE Matched'
  <2>1. Cleared' => Cleared
    BY <1>0, <1>2 DEF Prune, Goes, Cleared
  <2>2. CASE UNCHANGED tables
    BY <2>1, <2>2 DEF tables, Matched
  <2>3. ASSUME NEW d \in gone[a], Delete(d) PROVE Matched'
    <3>1. /\ d \in Docs /\ documents'[d] = Absent /\ \A e \in Docs \ {d} : documents'[e] = documents[e]
          /\ ~\E c \in chunks' : c.doc = d
          /\ \A e \in Docs \ {d} : (\E c \in chunks' : c.doc = e) <=> (\E c \in chunks : c.doc = e)
      BY <1>0, <2>3 DEF Delete, RowsOf
    <3> QED
      BY <2>1, <3>1 DEF Matched
  <2> QED
    BY <1>2, <2>2, <2>3 DEF Prune
<1>3. ASSUME NEW a \in Agents, Clear(a) PROVE Matched'
  <2>1. CASE pc'[a] \in {"clear keywords", "clear documents"}
    BY <2>1 DEF Matched, Cleared
  <2>2. CASE pc[a] = "clear documents" /\ documents' = NoFiles /\ chunks' = chunks
    <3>1. chunks' = {} /\ \A d \in Docs : documents'[d] = Absent
      BY <2>2 DEF IInv, ClearedFirst, NoFiles
    <3> QED
      BY <3>1 DEF Matched
  <2>3. CASE pc[a] = "clear meta" /\ UNCHANGED <<documents, chunks, command>> /\ Goes(a, "release")
    <3>1. Cleared' => Cleared
      BY <1>0, <2>3 DEF Goes, Cleared
    <3> QED
      BY <2>3, <3>1 DEF Matched
  <2> QED
    BY <1>0, <1>3, <2>1, <2>2, <2>3 DEF Clear, Goes
<1>4. ASSUME NEW a \in Agents, Kill(a) PROVE Matched'
  <2>1. UNCHANGED <<documents, chunks, command>> /\ pc'[a] = "killed" /\ \A b \in Agents \ {a} : pc'[b] = pc[b]
    BY <1>0, <1>4 DEF Kill, Goes, tables
  <2>2. Cleared' => Cleared
    BY <2>1, <1>4 DEF Cleared, ClearsClear, Clearing, Kill, Writing
  <2> QED
    BY <2>1, <2>2 DEF Matched
<1>5. ASSUME NEW a \in Agents,
             \/ Acquire(a) \/ GiveUp(a) \/ CheckConfig(a) \/ List(a) \/ Look(a) \/ Embed(a)
             \/ FinalizeMeta(a) \/ Release(a)
      PROVE  Matched'
  <2>1. /\ UNCHANGED <<documents, chunks, command>> /\ pc[a] \notin {"clear keywords", "clear documents", "killed"}
        /\ (UNCHANGED pc \/ \E to : Goes(a, to))
    BY <1>5 DEF Acquire, GiveUp, CheckConfig, List, Look, Embed, FinalizeMeta, Release, Raise, tables
  <2>2. Cleared' => Cleared
    BY <1>0, <2>1 DEF Goes, Cleared
  <2> QED
    BY <2>1, <2>2 DEF Matched
<1>6. CASE Edit \/ UNCHANGED vars
  BY <1>6 DEF Edit, vars, tables, Matched, Cleared
<1> QED
  BY <1>1, <1>2, <1>3, <1>4, <1>5, <1>6 DEF Next, Run, AllOver

Runs == IInv /\ ClearsClear /\ Progress /\ Matched

LEMMA RunsAlways == Spec => []Runs
<1>1. Init => Runs
  <2>1. Init => OneWriter /\ ClearedFirst /\ ChunksAreOfTheChecksum /\ ClearsClear /\ Progress
    BY NoneAssumption DEF Init, OneWriter, ClearedFirst, ChunksAreOfTheChecksum, Writing, ClearsClear, Clearing,
       Progress, Sweeping
  <2>2. Init => Matched
    BY DEF Init, Matched, NoFiles
  <2> QED
    BY TypedInit, <2>1, <2>2 DEF Runs, IInv
<1>2. Runs /\ [Next]_vars => Runs'
  BY TypedNext, OneWriterNext, SearchInvNext, ClearsClearNext, ProgressNext, MatchedNext DEF Runs, IInv
<1> QED
  BY <1>1, <1>2, PTL DEF Spec

(* A full rebuild that finishes leaves the vectors of its own configuration *)
(* only: for any number of documents, of agents and of runs killed before.  *)
THEOREM RebuildsAreUniform == Spec => []RebuildIsUniform
<1>1. Runs => RebuildIsUniform
  BY DEF Runs, Progress, Sweeping, Swept, Rebuilt, Left, RebuildIsUniform
<1> QED
  BY <1>1, RunsAlways, PTL

(* A run that no edit overtook leaves the index equal to the repository,    *)
(* checksums and chunks, unless a clear was killed half way.                *)
THEOREM RefreshesCatchUp == Spec => []RefreshCatchesUp
<1>1. Runs => RefreshCatchesUp
  <2> SUFFICES ASSUME Runs, NEW a \in Agents, pc[a] = "release", a \in current, command[a] # "clear"
               PROVE /\ documents = repo
                     /\ (\A b \in Agents : pc[b] = "killed" => command[b] # "clear") =>
                          {c.doc : c \in chunks} = Present(repo)
    BY DEF RefreshCatchesUp
  <2>1. documents \in [Docs -> Contents \cup {Absent}] /\ repo \in [Docs -> Contents \cup {Absent}] /\ chunks \subseteq Chunks
    BY DEF Runs, IInv, Typed, TypeOK, Files
  <2>2. \A d \in Docs : documents[d] = repo[d]
    BY DEF Runs, Progress, Sweeping, Swept, CaughtUp, Left
  <2>3. documents = repo
    BY <2>1, <2>2
  <2>4. \A b \in Agents : pc[b] \notin {"clear keywords", "clear documents"}
    BY DEF Runs, IInv, OneWriter, Writing
  <2>5. ASSUME \A b \in Agents : pc[b] = "killed" => command[b] # "clear"
        PROVE {c.doc : c \in chunks} = Present(repo)
    <3>1. \A d \in Docs : documents[d] # Absent <=> \E c \in chunks : c.doc = d
      BY <2>4, <2>5 DEF Runs, Matched, Cleared
    <3>2. \A c \in chunks : c.doc \in Docs
      BY <2>1 DEF Chunks
    <3> QED
      BY <2>3, <3>1, <3>2 DEF Present
  <2> QED
    BY <2>3, <2>5
<1> QED
  BY <1>1, RunsAlways, PTL
=============================================================================
