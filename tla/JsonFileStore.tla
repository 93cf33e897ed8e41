---------------------------- MODULE JsonFileStore ----------------------------
(***************************************************************************)
(* One of the JSON files the backend keeps its state in (projects.json,    *)
(* design_versions.json, chat_proposals.json, conversations.json), below   *)
(* the repository call that ProjectService takes as one step.              *)
(*                                                                         *)
(* A call loads the whole file, and a writing call then opens it with "w", *)
(* which truncates it, and dumps the whole map.  There is no lock and no   *)
(* atomic replace, every project shares the file, and handlers run in      *)
(* threads: calls overlap.  The process may die between any two steps.     *)
(***************************************************************************)
EXTENDS Integers, FiniteSets

CONSTANTS
  Calls,        \* the repository calls of the instance, each made once
  Keys,         \* project ids
  Torn,         \* contents that json.load rejects: empty, cut or mixed
  Mixed,        \* contents that it reads although two dumps are mixed in them
  InFlight,     \* calls in progress at once
  MaxCrashes    \* process crashes (bound)

ASSUME KeysAssumption == Keys # {}
ASSUME InFlightAssumption == InFlight \in Nat \ {0}
ASSUME MaxCrashesAssumption == MaxCrashes \in Nat

(* What a call stores under its key: the parts it wrote, e.g. the user's    *)
(* message and the assistant's.                                             *)
Parts == Calls \X {"user", "assistant"}
Maps  == [Keys -> SUBSET Parts]
Empty == [k \in Keys |-> {}]        \* also the file before the first save

ASSUME ContentsAssumption == Torn \notin Maps \cup {Mixed} /\ Mixed \notin Maps

VARIABLES
  file,        \* contents of the file: a map, Torn or Mixed
  pc,          \* where each call stands
  op,          \* what it does and to which key
  data,        \* the map it loaded and changed
  sharing,     \* writers that had the file open together with another writer
  overlapped,  \* history: calls during which another call was writing
  crashes

vars == <<file, pc, op, data, sharing, overlapped, crashes>>

InProgress == {"save", "dump"}

TypeOK ==
  /\ file \in Maps \cup {Torn, Mixed}
  /\ pc \in [Calls -> {"idle", "done", "failed", "lost"} \cup InProgress]
  /\ op \in [Calls -> [kind : {"none", "read", "replace", "append"}, key : Keys]]
  /\ data \in [Calls -> Maps \cup {Mixed}]
  /\ sharing \subseteq Calls
  /\ overlapped \subseteq Calls
  /\ crashes \in 0 .. MaxCrashes

Init ==
  /\ file = Empty
  /\ pc = [c \in Calls |-> "idle"]
  /\ op \in [Calls -> [kind : {"none"}, key : {CHOOSE k \in Keys : TRUE}]]
  /\ data = [c \in Calls |-> Empty]
  /\ sharing = {} /\ overlapped = {}
  /\ crashes = 0

Working == {c \in Calls : pc[c] \in InProgress}
Dumping == {c \in Calls : pc[c] = "dump"}

Exchange(c) == {c} \X {"user", "assistant"}

(* Mutants: the call drops the other records; it stores itself instead of   *)
(* its parts.                                                               *)
WrittenAlone(c, kind, k, map) == [Empty EXCEPT ![k] = Exchange(c)]
WrittenRaw(c, kind, k, map)   == IF map = Mixed THEN Mixed ELSE [map EXCEPT ![k] = @ \cup {c}]

(* replace and create store the caller's record; append_messages and append *)
(* extend the loaded one with everything the call brings.  Nothing is known *)
(* of what is written on top of a mixture.                                  *)
Written(c, kind, k, map) ==
  IF map = Mixed THEN Mixed
  ELSE [map EXCEPT ![k] = IF kind = "replace" THEN Exchange(c) ELSE @ \cup Exchange(c)]

(* Mutant: an undecodable file counts as an empty one.                      *)
LoadForgiving(c) ==
  /\ pc[c] = "idle"
  /\ Cardinality(Working) < InFlight
  /\ \E k \in Keys, kind \in {"replace", "append"} :
       /\ op' = [op EXCEPT ![c] = [kind |-> kind, key |-> k]]
       /\ data' = [data EXCEPT ![c] = Written(c, kind, k, IF file = Torn THEN Empty ELSE file)]
  /\ pc' = [pc EXCEPT ![c] = "save"]
  /\ overlapped' = overlapped \cup (IF Working = {} THEN {} ELSE {c} \cup Working)
  /\ UNCHANGED <<file, sharing, crashes>>

(* _load: an undecodable file raises, and the request is answered with 500. *)
Load(c) ==
  /\ pc[c] = "idle"
  /\ Cardinality(Working) < InFlight
  /\ \E k \in Keys, kind \in {"read", "replace", "append"} :
       /\ op' = [op EXCEPT ![c] = [kind |-> kind, key |-> k]]
       /\ \/ /\ file = Torn
             /\ pc' = [pc EXCEPT ![c] = "failed"]
             /\ UNCHANGED <<data, overlapped>>
          \/ /\ file # Torn /\ kind = "read"
             /\ pc' = [pc EXCEPT ![c] = "done"]
             /\ data' = [data EXCEPT ![c] = file]
             /\ UNCHANGED overlapped
          \/ /\ file # Torn /\ kind # "read"
             /\ pc' = [pc EXCEPT ![c] = "save"]
             /\ data' = [data EXCEPT ![c] = Written(c, kind, k, file)]
             /\ overlapped' = overlapped \cup (IF Working = {} THEN {} ELSE {c} \cup Working)
  /\ UNCHANGED <<file, sharing, crashes>>

(* _save, first half: open(..., "w").                                       *)
Truncate(c) ==
  /\ pc[c] = "save"
  /\ file' = Torn
  /\ pc' = [pc EXCEPT ![c] = "dump"]
  /\ sharing' = sharing \cup (IF Dumping = {} THEN {} ELSE Dumping \cup {c})
  /\ UNCHANGED <<op, data, overlapped, crashes>>

(* A block of a dump reaches the file.  Every open file has its own buffer  *)
(* and its own offset: a block of one writer may land in the truncated, the *)
(* half written or the finished dump of another, and leave a hole, a tail   *)
(* or, where the texts happen to fit, a mixture that is JSON.  Alone, half  *)
(* a dump is no JSON.                                                       *)
Flush(c) ==
  /\ pc[c] = "dump" /\ c \in sharing
  /\ file' \in {Torn, Mixed}
  /\ UNCHANGED <<pc, op, data, sharing, overlapped, crashes>>

(* Mutant: close does not wait for the buffer.                              *)
DumpUnflushed(c) ==
  /\ pc[c] = "dump"
  /\ pc' = [pc EXCEPT ![c] = "done"]
  /\ sharing' = sharing \ {c}
  /\ UNCHANGED <<file, op, data, overlapped, crashes>>

(* _save, second half: json.dump and close, with the last block.            *)
Dump(c) ==
  /\ pc[c] = "dump"
  /\ \/ file' = data[c]
     \/ c \in sharing /\ file' \in {Torn, Mixed}
  /\ pc' = [pc EXCEPT ![c] = "done"]
  /\ sharing' = sharing \ {c}
  /\ UNCHANGED <<op, data, overlapped, crashes>>

(* The process dies; the dump of one call may just have reached the disk.   *)
Crash ==
  /\ crashes < MaxCrashes
  /\ Working # {}
  /\ file' \in {file} \cup {data[c] : c \in Dumping}
  /\ crashes' = crashes + 1
  /\ pc' = [c \in Calls |-> IF c \in Working THEN "lost" ELSE pc[c]]
  /\ sharing' = {}
  /\ UNCHANGED <<op, data, overlapped>>

Finished == (\A c \in Calls : pc[c] \notin InProgress \cup {"idle"}) /\ UNCHANGED vars

Next == (\E c \in Calls : Load(c) \/ Truncate(c) \/ Flush(c) \/ Dump(c)) \/ Crash \/ Finished

Spec == Init /\ [][Next]_vars

-----------------------------------------------------------------------------
(* What an acknowledged call stored is there as long as the file can be     *)
(* read and is no mixture of two dumps, unless another call was in progress *)
(* while it ran or a later call replaced the same record: without overlap   *)
(* no project loses an update.                                              *)
Superseded(c) ==
  \E d \in Calls \ {c} : op[d].key = op[c].key /\ op[d].kind = "replace" /\ pc[d] # "failed"

LostOnlyByOverlap ==
  \A c \in Calls :
    /\ file \notin {Torn, Mixed} /\ pc[c] = "done" /\ op[c].kind # "read"
    /\ c \notin overlapped /\ ~Superseded(c)
    => Exchange(c) \subseteq file[op[c].key]

(* A file left undecodable with nobody writing is down for good: every      *)
(* later call fails in _load, so none ever gets to the save that would      *)
(* repair it.                                                               *)
Down == file = Torn /\ Working = {}

TornForGood == [][Down => Down']_vars

(* As long as no two writers overlap, a call is the single step             *)
(* ProjectService takes it for: its change takes effect when the file is    *)
(* opened for writing, whole and on top of what every earlier call stored,  *)
(* and is acknowledged when the dump is through; only a crash between the   *)
(* two can tear the file, and only a call that comes between them or after  *)
(* such a crash is refused.                                                 *)
Stored == IF Dumping = {} THEN file ELSE data[CHOOSE c \in Dumping : TRUE]
FateOf(step) == CASE step = "dump"   -> "taken"
                  [] step = "done"   -> "answered"
                  [] step = "failed" -> "refused"
                  [] step = "lost"   -> "lost"
                  [] OTHER           -> "open"
Fate == [c \in Calls |-> FateOf(pc[c])]

Store == INSTANCE AtomicStore WITH stored <- Stored, fate <- Fate

CallsAreAtomic == Store!Spec

AtomicUntilOverlap == Store!Init /\ [][overlapped' = {} => Store!Next]_(Store!vars)
=============================================================================
