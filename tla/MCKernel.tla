------------------------------- MODULE MCKernel -------------------------------
(***************************************************************************)
(* Values for the constants of Kernel that a .cfg cannot write.            *)
(***************************************************************************)
EXTENDS Kernel, TLC

CONSTANTS c1, c2, p1, p2

\* Two requests that name the same project.
Shared == c1 :> p1 @@ c2 :> p1

\* The subtasks come out empty (a blank text reversed) and fail; of the goals,
\* one is approved and the output of the other is too short for the reviewer.
Mixed == [t \in Tasks |-> IF t[2] > 0 THEN "empty"
                          ELSE IF t[1] = c1 THEN "approvable" ELSE "rejectable"]
===============================================================================
