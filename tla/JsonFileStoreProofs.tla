------------------------- MODULE JsonFileStoreProofs -------------------------
(***************************************************************************)
(* What holds of JsonFileStore for any number of overlapping calls, any    *)
(* projects and any number of crashes: the types, that only an overlap     *)
(* loses an exchange, that a file torn for good stays torn, and that       *)
(* without overlap the file is the one-step store of AtomicStore.          *)
(***************************************************************************)
EXTENDS JsonFileStore, FiniteSetTheorems, TLAPS

Pcs   == {"idle", "done", "failed", "lost", "save", "dump"}
Kinds == {"none", "read", "replace", "append"}

LEMMA ExchangeFacts == /\ \A c \in Calls : Exchange(c) \subseteq Parts
                       /\ \A c, d \in Calls : c # d => Exchange(c) \cap Exchange(d) = {}
<1>1. ASSUME NEW c \in Calls, NEW d \in Calls, c # d PROVE Exchange(c) \cap Exchange(d) = {}
  <2> SUFFICES ASSUME NEW x \in {"user", "assistant"}, NEW y \in {"user", "assistant"}, <<c, x>> = <<d, y>>
               PROVE FALSE
    BY DEF Exchange
  <2> QED
    BY <1>1
<1>2. ASSUME NEW c \in Calls PROVE Exchange(c) \subseteq Parts
  BY DEF Exchange, Parts
<1> QED
  BY <1>1, <1>2

LEMMA WrittenIsMap == ASSUME NEW c \in Calls, NEW kind \in Kinds, NEW k \in Keys, NEW map \in Maps \cup {Mixed}
                      PROVE Written(c, kind, k, map) \in Maps \cup {Mixed}
<1>1. Exchange(c) \subseteq Parts
  BY ExchangeFacts
<1>2. CASE map = Mixed
  BY <1>2 DEF Written
<1>3. CASE map # Mixed
  BY <1>1, <1>3 DEF Written, Maps
<1> QED
  BY <1>2, <1>3

(* What one load can do, with the call's record in full.                    *)
Loads(c, k, kind) ==
  /\ pc[c] = "idle" /\ op' = [op EXCEPT ![c] = [kind |-> kind, key |-> k]]
  /\ UNCHANGED <<file, sharing, crashes>>
Fails(c, k, kind) == file = Torn /\ pc' = [pc EXCEPT ![c] = "failed"] /\ UNCHANGED <<data, overlapped>>
Reads(c, k, kind) ==
  /\ file # Torn /\ kind = "read" /\ pc' = [pc EXCEPT ![c] = "done"]
  /\ data' = [data EXCEPT ![c] = file] /\ UNCHANGED overlapped
Opens(c, k, kind) ==
  /\ file # Torn /\ kind # "read" /\ pc' = [pc EXCEPT ![c] = "save"]
  /\ data' = [data EXCEPT ![c] = Written(c, kind, k, file)]
  /\ overlapped' = overlapped \cup (IF Working = {} THEN {} ELSE {c} \cup Working)

LEMMA LoadCases == ASSUME NEW c \in Calls, Load(c)
                   PROVE \E k \in Keys, kind \in {"read", "replace", "append"} :
                           Loads(c, k, kind) /\ (Fails(c, k, kind) \/ Reads(c, k, kind) \/ Opens(c, k, kind))
  BY DEF Load, Loads, Fails, Reads, Opens

-----------------------------------------------------------------------------
LEMMA TypesInit == Init => TypeOK
<1> SUFFICES ASSUME Init PROVE TypeOK
  OBVIOUS
<1>1. (CHOOSE k \in Keys : TRUE) \in Keys
  BY KeysAssumption
<1>2. Empty \in Maps
  BY DEF Empty, Maps
<1> QED
  BY <1>1, <1>2, MaxCrashesAssumption DEF Init, TypeOK, InProgress

LEMMA TypesNext == TypeOK /\ [Next]_vars => TypeOK'
<1> SUFFICES ASSUME TypeOK, [Next]_vars PROVE TypeOK'
  OBVIOUS
<1> USE DEF TypeOK, InProgress
<1>1. ASSUME NEW c \in Calls, Load(c) PROVE TypeOK'
  <2>1. PICK k \in Keys, kind \in {"read", "replace", "append"} :
          Loads(c, k, kind) /\ (Fails(c, k, kind) \/ Reads(c, k, kind) \/ Opens(c, k, kind))
    BY <1>1, LoadCases
  <2>2. op' \in [Calls -> [kind : Kinds, key : Keys]]
    BY <2>1 DEF Loads, Kinds
  <2>3. CASE Fails(c, k, kind)
    BY <2>1, <2>2, <2>3 DEF Loads, Fails, Kinds
  <2>4. CASE Reads(c, k, kind)
    BY <2>1, <2>2, <2>4 DEF Loads, Reads, Kinds
  <2>5. CASE Opens(c, k, kind)
    <3>1. Written(c, kind, k, file) \in Maps \cup {Mixed}
      BY <2>5, WrittenIsMap DEF Opens, Kinds
    <3>2. overlapped' \subseteq Calls
      BY <2>5 DEF Opens, Working
    <3> QED
      BY <2>1, <2>2, <2>5, <3>1, <3>2 DEF Loads, Opens, Kinds
  <2> QED
    BY <2>1, <2>3, <2>4, <2>5
<1>2. ASSUME NEW c \in Calls, Truncate(c) PROVE TypeOK'
  BY <1>2 DEF Truncate, Dumping
<1>3. ASSUME NEW c \in Calls, Dump(c) PROVE TypeOK'
  BY <1>3 DEF Dump, Dumping
<1>4. CASE Crash
  BY <1>4, MaxCrashesAssumption DEF Crash, Dumping
<1>5. CASE UNCHANGED vars
  BY <1>5 DEF vars
<1>6. ASSUME NEW c \in Calls, Flush(c) PROVE TypeOK'
  BY <1>6 DEF Flush
<1> QED
  BY <1>1, <1>2, <1>3, <1>4, <1>5, <1>6 DEF Next, Finished

(* The file, the calls and what they loaded keep their types.               *)
THEOREM TypeCorrect == Spec => []TypeOK
  BY TypesInit, TypesNext, PTL DEF Spec

-----------------------------------------------------------------------------
(* A file torn with nobody writing stays torn.                              *)
LEMMA DownStays == TypeOK /\ Down /\ [Next]_vars => Down'
<1> SUFFICES ASSUME TypeOK, Down, [Next]_vars PROVE Down'
  OBVIOUS
<1> USE DEF Down, Working, InProgress
<1>1. ASSUME NEW c \in Calls, Load(c) PROVE Down'
  <2>1. PICK k \in Keys, kind \in {"read", "replace", "append"} : Loads(c, k, kind) /\ Fails(c, k, kind)
    BY <1>1, LoadCases DEF Reads, Opens
  <2> QED
    BY <2>1 DEF Loads, Fails, TypeOK
<1>2. ASSUME NEW c \in Calls PROVE ~Truncate(c) /\ ~Flush(c) /\ ~Dump(c)
  BY DEF Truncate, Flush, Dump
<1>3. CASE UNCHANGED vars
  BY <1>3 DEF vars
<1>4. ~Crash
  BY DEF Crash
<1> QED
  BY <1>1, <1>2, <1>3, <1>4 DEF Next, Finished

(* No call repairs a file that a crash or an overlap left undecodable.      *)
THEOREM TornStaysTorn == Spec => TornForGood
  BY TypeCorrect, DownStays, PTL DEF Spec, TornForGood

-----------------------------------------------------------------------------
(* Without overlap nothing is lost.                                         *)

(* Nothing excuses the loss of what call c stored.                          *)
Spared(c) == op[c].kind # "read" /\ c \notin overlapped /\ ~Superseded(c)

(* A call that overlaps none is alone while it works, has its exchange in   *)
(* what it will dump, and once done is in the file and in what every other  *)
(* call loaded since, mixtures aside.                                       *)
Alone   == \A c \in Working : c \notin overlapped => Working = {c}
Brought == \A c \in Working : data[c] # Mixed => Exchange(c) \subseteq data[c][op[c].key]
Remembered == \A c \in Calls : pc[c] = "done" /\ Spared(c) =>
             /\ file \notin {Torn, Mixed} => Exchange(c) \subseteq file[op[c].key]
             /\ \A d \in Working : data[d] # Mixed => Exchange(c) \subseteq data[d][op[c].key]
Idle    == \A c \in Calls : pc[c] = "idle" => op[c].kind = "none"
Unlost  == Idle /\ Alone /\ Brought /\ Remembered

LEMMA UnlostLoad == ASSUME TypeOK, Unlost, NEW c \in Calls, Load(c) PROVE Unlost'
<1>1. PICK k \in Keys, kind \in {"read", "replace", "append"} :
        Loads(c, k, kind) /\ (Fails(c, k, kind) \/ Reads(c, k, kind) \/ Opens(c, k, kind))
  BY LoadCases
<1>2. /\ op[c].kind = "none" /\ pc[c] = "idle" /\ file' = file
      /\ op'[c] = [kind |-> kind, key |-> k] /\ \A e \in Calls \ {c} : op'[e] = op[e]
  BY <1>1 DEF Loads, Unlost, Idle, TypeOK
<1>3. \A e \in Calls \ {c} : pc'[e] = pc[e] /\ data'[e] = data[e]
  BY <1>1 DEF Fails, Reads, Opens, TypeOK
<1>4. overlapped \subseteq overlapped'
  BY <1>1 DEF Fails, Reads, Opens
<1>5. \A e \in Calls \ {c} : Spared(e)' => Spared(e)
  <2> SUFFICES ASSUME NEW e \in Calls \ {c}, Superseded(e) PROVE Superseded(e)'
    BY <1>2, <1>4 DEF Spared
  <2>1. PICK d \in Calls \ {e} : op[d].key = op[e].key /\ op[d].kind = "replace" /\ pc[d] # "failed"
    BY DEF Superseded
  <2>2. op'[d] = op[d] /\ pc'[d] = pc[d] /\ op'[e] = op[e]
    BY <1>2, <1>3, <2>1
  <2> QED
    BY <2>1, <2>2 DEF Superseded
<1>6. Idle'
  BY <1>1, <1>2, <1>3 DEF Unlost, Idle, Fails, Reads, Opens, TypeOK
<1>7. CASE Fails(c, k, kind) \/ Reads(c, k, kind)
  <2>1. pc'[c] \in {"failed", "done"} /\ overlapped' = overlapped /\ (pc'[c] = "done" => op'[c].kind = "read")
    BY <1>2, <1>7 DEF Fails, Reads, TypeOK
  <2>2. Working' = Working /\ c \notin Working
    BY <1>2, <1>3, <2>1 DEF Working, InProgress
  <2>3. Alone'
    BY <2>1, <2>2 DEF Unlost, Alone
  <2>4. Brought'
    BY <1>2, <1>3, <2>2 DEF Unlost, Brought, Working
  <2>5. Remembered'
    BY <1>2, <1>3, <1>5, <2>1, <2>2 DEF Unlost, Remembered, Spared, Working
  <2> QED
    BY <1>6, <2>3, <2>4, <2>5 DEF Unlost
<1>8. CASE Opens(c, k, kind)
  <2>1. /\ pc'[c] = "save" /\ data'[c] = Written(c, kind, k, file) /\ file # Torn
        /\ overlapped' = overlapped \cup (IF Working = {} THEN {} ELSE {c} \cup Working)
    BY <1>8 DEF Opens, TypeOK
  <2>2. Working' = Working \cup {c} /\ c \notin Working
    BY <1>2, <1>3, <2>1 DEF Working, InProgress
  <2>3. Alone'
    BY <2>1, <2>2 DEF Alone
  <2>4. file \in Maps \cup {Mixed} /\ kind \in Kinds
    BY <2>1 DEF TypeOK, Kinds
  <2>5. ASSUME data'[c] # Mixed
        PROVE  /\ file # Mixed
               /\ data'[c][k] = IF kind = "replace" THEN Exchange(c) ELSE file[k] \cup Exchange(c)
               /\ \A j \in Keys : j # k => data'[c][j] = file[j]
    BY <2>1, <2>4, <2>5 DEF Written, Maps
  <2>6. Brought'
    BY <1>2, <1>3, <2>2, <2>5 DEF Unlost, Brought, Working
  <2>7. ASSUME NEW e \in Calls, pc'[e] = "done", Spared(e)'
        PROVE /\ file' \notin {Torn, Mixed} => Exchange(e) \subseteq file'[op'[e].key]
              /\ \A d \in Working' : data'[d] # Mixed => Exchange(e) \subseteq data'[d][op'[e].key]
    <3>1. e # c /\ pc[e] = "done" /\ op'[e] = op[e] /\ Spared(e)
      BY <1>2, <1>3, <1>5, <2>1, <2>7
    <3>2. (file # Mixed => Exchange(e) \subseteq file[op[e].key]) /\ op[e].key \in Keys
      BY <2>1, <3>1 DEF Unlost, Remembered, TypeOK
    <3>3. kind = "replace" => op[e].key # k
      <4> SUFFICES ASSUME kind = "replace", op[e].key = k PROVE FALSE
        OBVIOUS
      <4>1. Superseded(e)'
        BY <1>2, <2>1, <3>1 DEF Superseded
      <4> QED
        BY <2>7, <4>1 DEF Spared
    <3>4. data'[c] # Mixed => Exchange(e) \subseteq data'[c][op[e].key]
      BY <2>5, <3>2, <3>3
    <3>5. \A d \in Working : d \in Calls /\ d # c /\ (data[d] # Mixed => Exchange(e) \subseteq data[d][op[e].key])
      BY <2>2, <3>1 DEF Unlost, Remembered, Working
    <3> QED
      BY <1>2, <1>3, <2>2, <3>1, <3>2, <3>4, <3>5
  <2> QED
    BY <1>6, <2>3, <2>6, <2>7 DEF Unlost, Remembered
<1> QED
  BY <1>1, <1>7, <1>8

(* Steps after the load change no order and fail no call.                   *)
LEMMA SparedLater == ASSUME UNCHANGED <<op, overlapped>>, \A e \in Calls : pc[e] # "failed" => pc'[e] # "failed"
                     PROVE \A c \in Calls : Spared(c)' => Spared(c)
  BY DEF Spared, Superseded

LEMMA UnlostNext == TypeOK /\ Unlost /\ [Next]_vars => Unlost'
<1> SUFFICES ASSUME TypeOK, Unlost, [Next]_vars PROVE Unlost'
  OBVIOUS
<1>1. ASSUME NEW c \in Calls, Load(c) PROVE Unlost'
  BY <1>1, UnlostLoad
<1>2. ASSUME NEW c \in Calls, Truncate(c) PROVE Unlost'
  <2>1. /\ UNCHANGED <<op, data, overlapped>> /\ file' = Torn
        /\ \A e \in Calls : /\ e # c => pc'[e] = pc[e]
                            /\ pc[c] = "save" /\ pc'[c] = "dump"
    BY <1>2 DEF Truncate, TypeOK
  <2>2. Working' = Working
    BY <2>1 DEF Working, InProgress
  <2>3. \A e \in Calls : Spared(e)' => Spared(e)
    BY <2>1, SparedLater
  <2>4. \A e \in Calls : (pc'[e] = "done" => pc[e] = "done") /\ (pc'[e] = "idle" => pc[e] = "idle")
    BY <2>1
  <2> QED
    BY <2>1, <2>2, <2>3, <2>4 DEF Unlost, Idle, Alone, Brought, Remembered
<1>3. ASSUME NEW c \in Calls, Dump(c) PROVE Unlost'
  <2>1. /\ UNCHANGED <<op, data, overlapped>> /\ (file' = data[c] \/ file' \in {Torn, Mixed})
        /\ pc[c] = "dump" /\ pc'[c] = "done" /\ \A e \in Calls \ {c} : pc'[e] = pc[e]
    BY <1>3 DEF Dump, TypeOK
  <2>2. Working' = Working \ {c} /\ c \in Working
    BY <2>1 DEF Working, InProgress
  <2>3. \A e \in Calls : Spared(e)' => Spared(e)
    BY <2>1, SparedLater
  <2>4. Idle' /\ Alone' /\ Brought'
    BY <2>1, <2>2 DEF Unlost, Idle, Alone, Brought
  <2>5. ASSUME NEW e \in Calls, pc'[e] = "done", Spared(e)'
        PROVE /\ file' \notin {Torn, Mixed} => Exchange(e) \subseteq file'[op'[e].key]
              /\ \A d \in Working' : data'[d] # Mixed => Exchange(e) \subseteq data'[d][op'[e].key]
    <3>1. CASE e = c
      <4>1. Working' = {}
        BY <2>1, <2>2, <2>5, <3>1 DEF Unlost, Alone, Spared
      <4> QED
        BY <2>1, <2>2, <3>1, <4>1 DEF Unlost, Brought
    <3>2. CASE e # c
      BY <2>1, <2>2, <2>3, <2>5, <3>2 DEF Unlost, Remembered
    <3> QED
      BY <3>1, <3>2
  <2> QED
    BY <2>4, <2>5 DEF Unlost, Remembered
<1>4. CASE Crash
  <2>1. /\ UNCHANGED <<op, data, overlapped>>
        /\ pc' = [c \in Calls |-> IF c \in Working THEN "lost" ELSE pc[c]]
        /\ file' = file \/ \E d \in Working : file' = data[d]
    BY <1>4 DEF Crash, Working, Dumping, InProgress
  <2>2. Working' = {}
    BY <2>1 DEF Working, InProgress
  <2>3. \A e \in Calls : Spared(e)' => Spared(e)
    BY <2>1, SparedLater
  <2>4. \A e \in Calls : (pc'[e] = "done" => pc[e] = "done") /\ (pc'[e] = "idle" => pc[e] = "idle")
    BY <2>1
  <2> QED
    BY <2>1, <2>2, <2>3, <2>4 DEF Unlost, Idle, Alone, Brought, Remembered
<1>5. CASE UNCHANGED vars
  BY <1>5 DEF vars, Unlost, Idle, Alone, Brought, Remembered, Spared, Superseded, Working
<1>6. ASSUME NEW c \in Calls, Flush(c) PROVE Unlost'
  <2>1. UNCHANGED <<pc, op, data, overlapped>> /\ file' \in {Torn, Mixed}
    BY <1>6 DEF Flush
  <2> QED
    BY <2>1 DEF Unlost, Idle, Alone, Brought, Remembered, Spared, Superseded, Working
<1> QED
  BY <1>1, <1>2, <1>3, <1>4, <1>5, <1>6 DEF Next, Finished

(* Whatever else happens, an acknowledged exchange is only ever lost to an  *)
(* overlapping call or to one that replaced the record.                     *)
THEOREM OverlapAloneLoses == Spec => []LostOnlyByOverlap
<1>1. Init => Unlost
  BY DEF Init, Unlost, Idle, Alone, Brought, Remembered, Working, InProgress
<1>2. Unlost => LostOnlyByOverlap
  BY DEF Unlost, Remembered, Spared, LostOnlyByOverlap
<1> QED
  BY <1>1, <1>2, TypeCorrect, UnlostNext, PTL DEF Spec


-----------------------------------------------------------------------------
(* While no two calls have overlapped, one at most is at work; what it is   *)
(* about to save is what the file holds, changed, and nobody else has the   *)
(* file open.                                                               *)
Single == \A c, d \in Working : c = d

Current == \A c \in Calls :
  /\ pc[c] = "save" => /\ file \notin {Torn, Mixed} /\ op[c].kind \in {"replace", "append"}
                       /\ data[c] = Written(c, op[c].kind, op[c].key, file)
  /\ pc[c] = "dump" => file = Torn /\ data[c] # Mixed

Orderly == Single /\ Current /\ sharing = {} /\ file # Mixed

AtomInv == TypeOK /\ (overlapped = {} => Orderly)

LEMMA OverlapStays == ASSUME [Next]_vars PROVE overlapped \subseteq overlapped'
<1>1. ASSUME NEW c \in Calls, Load(c) PROVE overlapped \subseteq overlapped'
  <2>1. PICK k \in Keys, kind \in {"read", "replace", "append"} :
          Fails(c, k, kind) \/ Reads(c, k, kind) \/ Opens(c, k, kind)
    BY <1>1, LoadCases
  <2> QED
    BY <2>1 DEF Fails, Reads, Opens
<1>2. ASSUME NEW c \in Calls, Truncate(c) \/ Flush(c) \/ Dump(c) PROVE overlapped' = overlapped
  BY <1>2 DEF Truncate, Flush, Dump
<1>3. CASE Crash \/ UNCHANGED vars
  BY <1>3 DEF Crash, vars
<1> QED
  BY <1>1, <1>2, <1>3 DEF Next, Finished

LEMMA AtomInit == Init => AtomInv
<1>1. Empty # Mixed
  BY ContentsAssumption DEF Empty, Maps
<1> QED
  BY <1>1, TypesInit DEF Init, AtomInv, Orderly, Single, Current, Working, InProgress

LEMMA OrderlyLoad ==
  ASSUME TypeOK, Orderly, overlapped' = {}, NEW c \in Calls, NEW k \in Keys, NEW kind \in {"read", "replace", "append"},
         Loads(c, k, kind), Fails(c, k, kind) \/ Reads(c, k, kind) \/ Opens(c, k, kind)
  PROVE  Orderly'
<1>1. /\ \A d \in Calls \ {c} : pc'[d] = pc[d] /\ data'[d] = data[d] /\ op'[d] = op[d]
      /\ file' = file /\ sharing' = {} /\ pc[c] = "idle"
  BY DEF Loads, Fails, Reads, Opens, Orderly, TypeOK
<1>2. CASE Fails(c, k, kind) \/ Reads(c, k, kind)
  <2>1. pc'[c] \notin InProgress
    BY <1>2 DEF Fails, Reads, TypeOK, InProgress
  <2>2. Working' = Working /\ \A d \in Working : d # c
    BY <1>1, <2>1 DEF Working, InProgress
  <2>3. Single'
    BY <2>2 DEF Orderly, Single
  <2>4. Current'
    <3> SUFFICES ASSUME NEW d \in Calls, pc'[d] \in InProgress
                 PROVE  /\ pc'[d] = "save" => /\ file' \notin {Torn, Mixed} /\ op'[d].kind \in {"replace", "append"}
                                              /\ data'[d] = Written(d, op'[d].kind, op'[d].key, file')
                        /\ pc'[d] = "dump" => file' = Torn /\ data'[d] # Mixed
      BY DEF Current, InProgress, Written, Exchange
    <3>1. d # c
      BY <2>1
    <3>2. pc'[d] = pc[d] /\ data'[d] = data[d] /\ op'[d] = op[d] /\ file' = file
      BY <1>1, <3>1
    <3> QED
      BY <3>2 DEF Orderly, Current
  <2> QED
    BY <1>1, <2>3, <2>4 DEF Orderly
<1>3. CASE Opens(c, k, kind)
  <2>1. Working = {}
    BY <1>3 DEF Opens
  <2>2. \A d \in Calls \ {c} : pc'[d] \notin InProgress
    BY <1>1, <2>1 DEF Working
  <2>3. /\ pc'[c] = "save" /\ op'[c] = [kind |-> kind, key |-> k]
        /\ data'[c] = Written(c, kind, k, file) /\ file # Torn /\ kind # "read"
    BY <1>3 DEF Loads, Opens, TypeOK
  <2>4. Single'
    BY <2>2 DEF Single, Working
  <2>5. Current'
    <3> SUFFICES ASSUME NEW d \in Calls, pc'[d] \in InProgress
                 PROVE  /\ pc'[d] = "save" /\ file' \notin {Torn, Mixed} /\ op'[d].kind \in {"replace", "append"}
                        /\ data'[d] = Written(d, op'[d].kind, op'[d].key, file')
      BY DEF Current, InProgress, Written, Exchange
    <3>1. d = c
      BY <2>2
    <3> QED
      BY <1>1, <2>3, <3>1 DEF Orderly
  <2> QED
    BY <1>1, <2>4, <2>5 DEF Orderly
<1> QED
  BY <1>2, <1>3

(* Who saves is the only one at work.                                       *)
LEMMA SavesAlone ==
  ASSUME TypeOK, Orderly, NEW c \in Calls, pc[c] \in InProgress
  PROVE  Working = {c} /\ (\A d \in Calls \ {c} : pc[d] \notin InProgress)
BY DEF Orderly, Single, Working

LEMMA AtomNext == ASSUME AtomInv, [Next]_vars PROVE AtomInv'
<1> SUFFICES ASSUME overlapped' = {} PROVE Orderly'
  BY TypesNext DEF AtomInv
<1>1. TypeOK /\ Orderly /\ TypeOK'
  BY TypesNext, OverlapStays DEF AtomInv
<1>2. ASSUME NEW c \in Calls, Load(c) PROVE Orderly'
  BY <1>1, <1>2, LoadCases, OrderlyLoad
<1>3. ASSUME NEW c \in Calls, Truncate(c) PROVE Orderly'
  <2>1. \A d \in Calls \ {c} : pc[d] \notin InProgress
    BY <1>1, <1>3, SavesAlone DEF Truncate, InProgress
  <2>2. Dumping = {}
    BY <1>3, <2>1 DEF Truncate, Dumping, InProgress
  <2>3. pc'[c] = "dump" /\ \A d \in Calls \ {c} : pc'[d] \notin InProgress
    BY <1>1, <1>3, <2>1 DEF Truncate, TypeOK
  <2>4. data'[c] # Mixed /\ file' = Torn /\ file' # Mixed
    <3>1. /\ file \notin {Torn, Mixed} /\ file \in Maps /\ op[c].key \in Keys
          /\ data[c] = Written(c, op[c].kind, op[c].key, file)
      BY <1>1, <1>3 DEF Truncate, Orderly, Current, TypeOK
    <3> QED
      <4>1. Written(c, op[c].kind, op[c].key, file) \in Maps
        BY <3>1, ExchangeFacts DEF Written, Maps
      <4> QED
        BY <1>3, <3>1, <4>1, ContentsAssumption DEF Truncate
  <2>5. sharing' = {}
    BY <1>1, <1>3, <2>2 DEF Truncate, Orderly
  <2> QED
    BY <2>3, <2>4, <2>5 DEF Orderly, Single, Current, Working, InProgress
<1>4. ASSUME NEW c \in Calls, Dump(c) PROVE Orderly'
  <2>1. \A d \in Calls \ {c} : pc[d] \notin InProgress
    BY <1>1, <1>4, SavesAlone DEF Dump, InProgress
  <2>2. \A d \in Calls : pc'[d] \notin InProgress
    BY <1>1, <1>4, <2>1 DEF Dump, TypeOK, InProgress
  <2>3. file' = data[c] /\ data[c] # Mixed /\ sharing' = {}
    BY <1>1, <1>4 DEF Dump, Orderly, Current
  <2> QED
    BY <2>2, <2>3 DEF Orderly, Single, Current, Working, InProgress
<1>5. CASE Crash
  <2>1. \A d \in Calls : pc'[d] \notin InProgress
    BY <1>5 DEF Crash, Working, InProgress
  <2>2. file' # Mixed /\ sharing' = {}
    BY <1>1, <1>5 DEF Crash, Orderly, Current, Dumping
  <2> QED
    BY <2>1, <2>2 DEF Orderly, Single, Current, Working, InProgress
<1>6. CASE UNCHANGED vars
  <2>1. file' = file /\ pc' = pc /\ op' = op /\ data' = data /\ sharing' = sharing
    BY <1>6 DEF vars
  <2>2. Single'
    BY <1>1, <2>1 DEF Orderly, Single, Working
  <2>3. Current'
    BY <1>1, <2>1 DEF Orderly, Current, Written, Exchange
  <2> QED
    BY <1>1, <2>1, <2>2, <2>3 DEF Orderly
<1>7. ASSUME NEW c \in Calls PROVE ~Flush(c)
  BY <1>1 DEF Flush, Orderly
<1> QED
  BY <1>2, <1>3, <1>4, <1>5, <1>6, <1>7 DEF Next, Finished

(* Which contents count, before and after a step.                           *)
LEMMA StoredFacts ==
  /\ Dumping = {} => Stored = file
  /\ \A c : Dumping = {c} => Stored = data[c]
  /\ Dumping' = {} => Stored' = file'
  /\ \A c : Dumping' = {c} => Stored' = data'[c]
BY DEF Stored

LEMMA FateFacts ==
  ASSUME TypeOK, TypeOK', NEW c \in Calls, \A d \in Calls \ {c} : pc'[d] = pc[d]
  PROVE  /\ Fate[c] = FateOf(pc[c])
         /\ Fate' = [Fate EXCEPT ![c] = FateOf(pc'[c])]
         /\ Dumping = {} => Store!Quiet
         /\ \A d \in Dumping : ~Store!Quiet
BY DEF Fate, FateOf, Dumping, TypeOK, InProgress, Store!Quiet

LEMMA TakesEffect ==
  ASSUME TypeOK, Orderly, TypeOK', NEW c \in Calls, Truncate(c)
  PROVE  Store!Changes(c)
<1>1. /\ file \notin {Torn, Mixed} /\ op[c].kind \in {"replace", "append"} /\ op[c].key \in Keys
      /\ data[c] = Written(c, op[c].kind, op[c].key, file)
  BY DEF Orderly, Current, Truncate, TypeOK
<1>2. Working = {c} /\ \A d \in Calls \ {c} : pc[d] \notin InProgress
  BY SavesAlone DEF Truncate, InProgress
<1>3. Dumping = {} /\ Dumping' = {c} /\ pc'[c] = "dump" /\ (\A d \in Calls \ {c} : pc'[d] = pc[d])
  BY <1>2 DEF Truncate, Dumping, InProgress, TypeOK
<1>4. Stored = file /\ Stored' = Written(c, op[c].kind, op[c].key, file)
  BY <1>1, <1>3, StoredFacts DEF Truncate
<1>5. Store!Quiet /\ Fate[c] = "open" /\ Fate' = [Fate EXCEPT ![c] = "taken"]
  BY <1>3, FateFacts DEF Truncate, FateOf
<1>6. \E record \in {Store!Brings(c), file[op[c].key] \cup Store!Brings(c)} :
        Stored' = [file EXCEPT ![op[c].key] = record]
  BY <1>1, <1>4 DEF Written, Exchange, Store!Brings
<1> QED
  BY <1>1, <1>4, <1>5, <1>6 DEF Store!Changes, Store!Meets

LEMMA LoadIsAtomic ==
  ASSUME TypeOK, Orderly, TypeOK', overlapped' = {}, NEW c \in Calls, Load(c)
  PROVE  Store!Reads(c) \/ Store!Refuses(c) \/ UNCHANGED <<Stored, Fate>>
<1>1. PICK k \in Keys, kind \in {"read", "replace", "append"} :
        Loads(c, k, kind) /\ (Fails(c, k, kind) \/ Reads(c, k, kind) \/ Opens(c, k, kind))
  BY LoadCases
<1>2. /\ file' = file /\ pc[c] = "idle" /\ pc'[c] \in {"failed", "done", "save"}
      /\ \A d \in Calls \ {c} : pc'[d] = pc[d]
  BY <1>1 DEF Loads, Fails, Reads, Opens, TypeOK
<1>3. Dumping' = Dumping
  BY <1>2 DEF Dumping
<1>4. Fate[c] = "open" /\ Fate' = [Fate EXCEPT ![c] = FateOf(pc'[c])]
  BY <1>2, FateFacts DEF FateOf
<1>5. Stored' = Stored
  <2>1. CASE Dumping = {}
    BY <1>2, <1>3, <2>1, StoredFacts
  <2>2. CASE Dumping # {}
    <3>1. PICK d \in Calls : pc[d] = "dump"
      BY <2>2 DEF Dumping
    <3>2. Dumping = {d}
      BY <3>1, SavesAlone DEF Dumping, InProgress
    <3>3. d # c /\ data'[d] = data[d]
      BY <1>1, <1>2, <3>1 DEF Fails, Reads, Opens, TypeOK
    <3> QED
      BY <1>3, <3>2, <3>3, StoredFacts
  <2> QED
    BY <2>1, <2>2
<1>6. CASE Fails(c, k, kind)
  <2>1. pc'[c] = "failed" /\ file = Torn
    BY <1>6 DEF Fails, TypeOK
  <2>2. Stored = Torn \/ ~Store!Quiet
    BY <1>2, <2>1, StoredFacts, FateFacts
  <2> QED
    BY <1>4, <1>5, <2>1, <2>2 DEF FateOf, Store!Refuses, Store!Meets
<1>7. CASE Reads(c, k, kind)
  <2>1. pc'[c] = "done" /\ file # Torn
    BY <1>7 DEF Reads, TypeOK
  <2>2. Dumping = {}
    BY <2>1 DEF Orderly, Current, Dumping
  <2>3. Stored # Torn /\ Store!Quiet
    BY <1>2, <2>1, <2>2, StoredFacts, FateFacts
  <2> QED
    BY <1>4, <1>5, <2>1, <2>3 DEF FateOf, Store!Reads, Store!Meets
<1>8. CASE Opens(c, k, kind)
  <2>1. pc'[c] = "save"
    BY <1>8 DEF Opens, TypeOK
  <2>2. Fate' = Fate
    BY <1>2, <1>4, <2>1 DEF Fate, FateOf
  <2> QED
    BY <1>5, <2>2
<1> QED
  BY <1>1, <1>6, <1>7, <1>8

LEMMA StepIsAtomic ==
  ASSUME AtomInv, AtomInv', [Next]_vars
  PROVE  [overlapped' = {} => Store!Next]_(Store!vars)
<1> SUFFICES ASSUME overlapped' = {} PROVE [Store!Next]_(Store!vars)
  OBVIOUS
<1>1. TypeOK /\ TypeOK' /\ Orderly
  BY OverlapStays DEF AtomInv
<1>2. ASSUME NEW c \in Calls, Load(c) PROVE Store!Reads(c) \/ Store!Refuses(c) \/ UNCHANGED <<Stored, Fate>>
  BY <1>1, <1>2, LoadIsAtomic
<1>3. ASSUME NEW c \in Calls, Truncate(c) PROVE Store!Changes(c)
  BY <1>1, <1>3, TakesEffect
<1>4. ASSUME NEW c \in Calls, Dump(c) PROVE Store!Acknowledges(c)
  <2>1. Working = {c} /\ \A d \in Calls \ {c} : pc[d] \notin InProgress
    BY <1>1, <1>4, SavesAlone DEF Dump, InProgress
  <2>2. Dumping = {c} /\ Dumping' = {} /\ pc'[c] = "done" /\ (\A d \in Calls \ {c} : pc'[d] = pc[d])
    BY <1>1, <1>4, <2>1 DEF Dump, Dumping, InProgress, TypeOK
  <2>3. file' = data[c]
    BY <1>1, <1>4 DEF Dump, Orderly
  <2>4. Stored' = Stored
    BY <2>2, <2>3, StoredFacts
  <2>5. Fate[c] = "taken" /\ Fate' = [Fate EXCEPT ![c] = "answered"]
    BY <1>1, <1>4, <2>2, FateFacts DEF Dump, FateOf
  <2> QED
    BY <2>4, <2>5 DEF Store!Acknowledges, Store!Meets
<1>5. ASSUME Crash PROVE \E c \in Calls : Store!Dies(c)
  <2>1. PICK c \in Calls : Working = {c} /\ pc[c] \in {"save", "dump"}
    BY <1>1, <1>5 DEF Crash, Orderly, Single, Working, InProgress
  <2>2. pc'[c] = "lost" /\ Dumping' = {} /\ (\A d \in Calls \ {c} : pc'[d] = pc[d])
    <3>1. pc' = [d \in Calls |-> IF d \in Working THEN "lost" ELSE pc[d]]
      BY <1>5 DEF Crash
    <3>2. pc'[c] = "lost" /\ \A d \in Calls \ {c} : pc'[d] = pc[d] /\ pc[d] # "dump"
      BY <2>1, <3>1 DEF Working, InProgress
    <3> QED
      BY <3>2 DEF Dumping
  <2>3. Stored' = file' /\ Fate' = [Fate EXCEPT ![c] = "lost"] /\ Fate[c] = FateOf(pc[c])
    BY <1>1, <2>2, StoredFacts, FateFacts DEF FateOf
  <2>4. CASE pc[c] = "save"
    <3>1. Dumping = {}
      BY <2>1, <2>4 DEF Working, Dumping, InProgress
    <3>2. file' = file /\ Stored = file /\ Store!Quiet
      BY <1>1, <1>5, <2>2, <3>1, StoredFacts, FateFacts DEF Crash
    <3> QED
      BY <2>3, <2>4, <3>2 DEF FateOf, Store!Dies, Store!Meets
  <2>5. CASE pc[c] = "dump"
    <3>1. Dumping = {c}
      BY <2>1, <2>5 DEF Working, Dumping, InProgress
    <3>2. file = Torn /\ file' \in {file, data[c]} /\ Stored = data[c]
      BY <1>1, <1>5, <2>5, <3>1, StoredFacts DEF Crash, Orderly, Current
    <3> QED
      BY <2>3, <2>5, <3>2 DEF FateOf, Store!Dies, Store!Meets
  <2> QED
    BY <2>1, <2>4, <2>5
<1>6. CASE UNCHANGED vars
  <2>1. UNCHANGED <<Stored, Fate>>
    BY <1>6 DEF vars, Stored, Fate, Dumping
  <2> QED
    BY <2>1 DEF Store!vars
<1>7. ASSUME NEW c \in Calls PROVE ~Flush(c)
  BY <1>1 DEF Flush, Orderly
<1> QED
  BY <1>2, <1>3, <1>4, <1>5, <1>6, <1>7 DEF Next, Finished, Store!Next, Store!vars

(* Until two writing calls overlap, repository calls are the single steps   *)
(* ProjectService takes them for, although _save truncates the file first   *)
(* and dumps after: for any calls, projects and crashes, the file implements *)
(* AtomicStore.                                                             *)
THEOREM CallsAreAtomicUntilOverlap == Spec => AtomicUntilOverlap
<1>1. Init => Store!Init
  BY DEF Init, Store!Init, Stored, Fate, FateOf, Dumping, Empty
<1>2. AtomInv /\ [Next]_vars => AtomInv'
  BY AtomNext
<1>3. AtomInv /\ AtomInv' /\ [Next]_vars => [overlapped' = {} => Store!Next]_(Store!vars)
  BY StepIsAtomic
<1> QED
  BY <1>1, <1>2, <1>3, AtomInit, PTL DEF Spec, AtomicUntilOverlap

(* Served one at a time, calls never overlap.                               *)
NoOverlap == overlapped = {}

LEMMA NeverOverlaps ==
  ASSUME InFlight = 1, AtomInv, NoOverlap, [Next]_vars
  PROVE  NoOverlap'
<1> USE DEF NoOverlap
<1>1. ASSUME NEW c \in Calls, Load(c) PROVE overlapped' = {}
  <2>1. Working = {}
    <3> SUFFICES ASSUME NEW d \in Working PROVE FALSE
      OBVIOUS
    <3>1. Working = {d}
      BY DEF AtomInv, Orderly, Single
    <3>2. Cardinality(Working) = 1 /\ Cardinality(Working) < InFlight
      BY <1>1, <3>1, FS_Singleton DEF Load
    <3> QED
      BY <3>2
  <2> QED
    <3>1. PICK k \in Keys, kind \in {"read", "replace", "append"} :
            Fails(c, k, kind) \/ Reads(c, k, kind) \/ Opens(c, k, kind)
      BY <1>1, LoadCases
    <3> QED
      BY <2>1, <3>1 DEF Fails, Reads, Opens
<1>2. ASSUME NEW c \in Calls, Truncate(c) \/ Flush(c) \/ Dump(c) PROVE overlapped' = overlapped
  BY <1>2 DEF Truncate, Flush, Dump
<1>3. CASE Crash \/ UNCHANGED vars
  BY <1>3 DEF Crash, vars
<1> QED
  BY <1>1, <1>2, <1>3 DEF Next, Finished

(* So the file of a server that handles one request at a time implements    *)
(* AtomicStore without reservation.                                         *)
THEOREM AloneCallsAreAtomic == ASSUME InFlight = 1 PROVE Spec => CallsAreAtomic
<1>1. Init => Store!Init /\ NoOverlap
  BY DEF NoOverlap, Init, Store!Init, Stored, Fate, FateOf, Dumping, Empty
<1>2. AtomInv /\ [Next]_vars => AtomInv'
  BY AtomNext
<1>3. AtomInv /\ NoOverlap /\ [Next]_vars => NoOverlap'
  BY NeverOverlaps
<1>4. AtomInv /\ AtomInv' /\ NoOverlap' /\ [Next]_vars => [Store!Next]_(Store!vars)
  BY StepIsAtomic DEF NoOverlap
<1> QED
  BY <1>1, <1>2, <1>3, <1>4, AtomInit, PTL DEF Spec, CallsAreAtomic, Store!Spec
=============================================================================
