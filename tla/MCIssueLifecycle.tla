-------------------------- MODULE MCIssueLifecycle --------------------------
(* i1 changes the core and reads the docs, or is edited to change the docs  *)
(* alone; i2 changes the docs.                                              *)
EXTENDS IssueLifecycle, TLC

CONSTANTS i1, i2, core, docs

Exclusive(l) == [name |-> l, mode |-> "exclusive"]
Shared(l)    == [name |-> l, mode |-> "shared"]

MCContracts == [i \in Issues |-> IF i = i1 THEN {{Exclusive(core), Shared(docs)}, {Exclusive(docs)}}
                                 ELSE {{Exclusive(docs)}}]
=============================================================================
