---------------------------- MODULE AtomicStore ----------------------------
(***************************************************************************)
(* What ProjectService takes a JSON file for: one map that every           *)
(* repository call reads and changes in a single step.  A change is there  *)
(* before it is acknowledged, and a call that comes in between may be      *)
(* refused; only a process that dies in between may leave the file         *)
(* undecodable, and then every later call is refused.                      *)
(***************************************************************************)
CONSTANTS Calls, Keys, Torn

VARIABLES
  stored,   \* the map, or Torn
  fate      \* of each call: open, taken (stored, not acknowledged), answered, refused, lost

vars == <<stored, fate>>

Brings(c) == {c} \X {"user", "assistant"}
Quiet     == \A c \in Calls : fate[c] # "taken"
Meets(c, from, to) == fate[c] = from /\ fate' = [fate EXCEPT ![c] = to]

Init == stored = [k \in Keys |-> {}] /\ fate = [c \in Calls |-> "open"]

Reads(c)   == Quiet /\ stored # Torn /\ Meets(c, "open", "answered") /\ UNCHANGED stored
Refuses(c) == (stored = Torn \/ ~Quiet) /\ Meets(c, "open", "refused") /\ UNCHANGED stored

(* replace stores what the call brings, append adds it to the record.       *)
Changes(c) ==
  /\ Quiet /\ stored # Torn /\ Meets(c, "open", "taken")
  /\ \E k \in Keys : \E record \in {Brings(c), stored[k] \cup Brings(c)} :
       stored' = [stored EXCEPT ![k] = record]

Acknowledges(c) == Meets(c, "taken", "answered") /\ UNCHANGED stored

Dies(c) ==
  \/ Quiet /\ Meets(c, "open", "lost") /\ UNCHANGED stored
  \/ Meets(c, "taken", "lost") /\ stored' \in {stored, Torn}

Next == \E c \in Calls : Reads(c) \/ Refuses(c) \/ Changes(c) \/ Acknowledges(c) \/ Dies(c)

Spec == Init /\ [][Next]_vars
=============================================================================
