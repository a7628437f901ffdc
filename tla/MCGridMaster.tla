---------------------------- MODULE MCGridMaster ----------------------------
(***************************************************************************)
(* Values for the constants of GridMaster that a .cfg cannot write, and    *)
(* the symmetry of the workers (the tasks differ by priority).             *)
(***************************************************************************)
EXTENDS GridMaster, TLC

CONSTANTS t1, t2, w1, w2

\* One task: any priority will do.
OnePriority == t1 :> 5

\* A task that may be submitted later and still be served first.
TwoPriorities == t1 :> 5 @@ t2 :> 8

WorkerSymmetry == Permutations(Workers)
=============================================================================
