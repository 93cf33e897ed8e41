----------------------------- MODULE MCMergeGate -----------------------------
(* A handler thread and the one that may replace it.                        *)
EXTENDS MergeGate, TLC

CONSTANTS t1, t2
=============================================================================
