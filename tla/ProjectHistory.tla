--------------------------- MODULE ProjectHistory ---------------------------
(***************************************************************************)
(* What the project store promises a single user, without handlers, copies *)
(* or pending proposals: an append-only audit trail of the changes, an     *)
(* append-only chain of design versions each superseding the one that was  *)
(* active, and a shown design that changes only by being drawn, by showing *)
(* the newest version, or by a recorded rollback.                          *)
(*                                                                         *)
(* ProjectService implements it when requests are served one at a time.    *)
(***************************************************************************)
EXTENDS Integers, Sequences

CONSTANT Designs       \* the designs that can ever be generated or edited

VARIABLES
  requirements,   \* what the project asks for, preferences included
  log,            \* its audit trail: entries with at least a field and a value
  versions,       \* its design versions
  active,         \* the one in use (0: none)
  design          \* the design shown

vars == <<requirements, log, versions, active, design>>

Init == log = <<>> /\ versions = <<>> /\ active = 0

Extends(longer, shorter) ==
  Len(longer) > Len(shorter) /\ SubSeq(longer, 1, Len(shorter)) = shorter

(* The parser or the review states the requirements anew: not an edit, so   *)
(* it is not in the trail, and never touches the design.                    *)
Restate ==
  /\ requirements' # requirements
  /\ UNCHANGED <<log, versions, active, design>>

(* A change of requirements or preferences, recorded with it.               *)
Change ==
  /\ Extends(log', log)
  /\ UNCHANGED <<versions, active, design>>

Store ==
  /\ \E d \in Designs : versions' = Append(versions, [supersedes |-> active, design |-> d])
  /\ UNCHANGED <<requirements, log, active, design>>

ShowNewest ==
  /\ versions # <<>>
  /\ active' = Len(versions)
  /\ design' = versions[Len(versions)].design
  /\ UNCHANGED <<requirements, log, versions>>

RollBack ==
  /\ \E v \in 1 .. Len(versions) :
       /\ active' = v
       /\ design' = versions[v].design
       /\ Extends(log', log)
       /\ log'[Len(log')].field = "active_design_version_id" /\ log'[Len(log')].value = v
  /\ UNCHANGED <<requirements, versions>>

Draw ==
  /\ design' \in Designs
  /\ UNCHANGED <<requirements, log, versions, active>>

Next == Restate \/ Change \/ Store \/ ShowNewest \/ RollBack \/ Draw

Spec == Init /\ [][Next]_vars
=============================================================================
