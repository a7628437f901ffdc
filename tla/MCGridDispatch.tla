--------------------------- MODULE MCGridDispatch ---------------------------
(* Small instances of GridDispatch for TLC. *)
EXTENDS GridDispatch, TLC

CONSTANTS t1, t2, n1, n2

\* list_tasks' order on at most two tasks
InOrder == t1 :> 1 @@ t2 :> 2
OnlyOne == t1 :> 1

AllOutcomes == {"completed", "failed", "interrupted", "rejected"}
TwoOutcomes == {"completed", "failed"}
Nobody == {}

\* The nodes are alike, and so are the dispatcher threads.
ClaimSymmetry == Permutations(Nodes) \cup Permutations(Dispatchers)
=============================================================================
