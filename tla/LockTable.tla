------------------------------ MODULE LockTable ------------------------------
(***************************************************************************)
(* What the domain locks of the agent team promise: a set of rows, each a  *)
(* lock held by an issue in a mode.  An issue gets everything it asked for *)
(* or nothing, never beside a conflicting row of another issue, and gives  *)
(* everything back at once.                                                *)
(***************************************************************************)
CONSTANTS Issues, Locks

Modes  == {"exclusive", "shared"}
Wishes == [name : Locks, mode : Modes]
Rows   == [name : Locks, mode : Modes, issue : Issues]

VARIABLE rows

Init == rows = {}

Conflict(r, q) ==
  /\ r.name = q.name
  /\ r.issue # q.issue
  /\ "exclusive" \in {r.mode, q.mode}

RowsOf(i, wanted) == {[name |-> w.name, mode |-> w.mode, issue |-> i] : w \in wanted}

(* A row asked for again takes the mode asked for last.                     *)
Grant(i, wanted) ==
  LET new == RowsOf(i, wanted)
  IN  /\ \A r \in rows, q \in new : ~Conflict(r, q)
      /\ rows' = {r \in rows : r.issue # i \/ \A w \in wanted : w.name # r.name} \cup new

GiveBack(i) == rows' = {r \in rows : r.issue # i}

Next == \E i \in Issues : GiveBack(i) \/ \E wanted \in SUBSET Wishes : Grant(i, wanted)

Spec == Init /\ [][Next]_rows
=============================================================================
