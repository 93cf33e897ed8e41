-------------------------- MODULE MCProjectService --------------------------
(* Instances of ProjectService for TLC.                                     *)
EXTENDS ProjectService, TLC

Symmetry == Permutations(Requests)

(* The endpoints that touch the part a run is about.                       *)
ChatEndpoints   == {"patch", "chat", "confirm", "cancel"}
CountEndpoints  == {"patch", "parse"}
ReviewEndpoints == {"parse", "review"}
DesignEndpoints == {"parse", "design"}
=============================================================================
