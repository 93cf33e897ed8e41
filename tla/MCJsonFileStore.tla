--------------------------- MODULE MCJsonFileStore ---------------------------
(* Instance of JsonFileStore for TLC.                                       *)
EXTENDS JsonFileStore, TLC

Symmetry == Permutations(Calls) \cup Permutations(Keys)
=============================================================================
