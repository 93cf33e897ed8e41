-------------------------- MODULE MCKnowledgeIndex --------------------------
(* Instances of KnowledgeIndex for TLC.                                     *)
EXTENDS KnowledgeIndex, TLC

Symmetry == Permutations(Agents) \cup Permutations(Configs) \cup Permutations(Headings)
              \cup Permutations(Texts)
=============================================================================
