------------------------------ MODULE TaskBoard ------------------------------
(***************************************************************************)
(* What the deployed coordinator promises about one row of the tasks       *)
(* table, with no network, no worker and no handler in sight: which status *)
(* changes are possible, and how many result and failure records a task    *)
(* leaves behind.  GridMaster is shown to implement it.                    *)
(*                                                                         *)
(* A task is handed out at most once; a reported success is recorded with  *)
(* exactly one result record and is final; a task is abandoned only by a   *)
(* report that finds it failed with more than MaxRetries failure records   *)
(* behind it, counting its own.                                            *)
(***************************************************************************)
EXTENDS Naturals

CONSTANTS Tasks,        \* the tasks that may be submitted
          MaxRetries    \* retry notes that make the next failure final

VARIABLES status,       \* tasks.status
          results,      \* memory_entries rows of type 'result', per task
          failures      \* failure_memory rows, per task

vars == <<status, results, failures>>

Statuses == {"absent", "pending", "dispatched", "blocked",
             "completed", "failed", "abandoned"}

Init ==
    /\ status   = [t \in Tasks |-> "absent"]
    /\ results  = [t \in Tasks |-> 0]
    /\ failures = [t \in Tasks |-> 0]

Move(t, from, to) ==
    /\ status[t] \in from
    /\ status' = [status EXCEPT ![t] = to]

LogFailure(t) == failures' = [failures EXCEPT ![t] = @ + 1]

Submit(t) ==
    /\ Move(t, {"absent"}, "pending")
    /\ UNCHANGED <<results, failures>>

HandOut(t) ==
    /\ Move(t, {"pending"}, "dispatched")
    /\ UNCHANGED <<results, failures>>

Block(t) ==
    /\ Move(t, {"pending"}, "blocked")
    /\ LogFailure(t)
    /\ UNCHANGED results

Succeed(t) ==
    /\ Move(t, {"dispatched"}, "completed")
    /\ results' = [results EXCEPT ![t] = @ + 1]
    /\ UNCHANGED failures

Fail(t) ==
    /\ Move(t, {"dispatched", "failed"}, "failed")
    /\ LogFailure(t)
    /\ UNCHANGED results

Abandon(t) ==
    /\ Move(t, {"failed"}, "abandoned")
    /\ failures[t] >= MaxRetries
    /\ LogFailure(t)
    /\ UNCHANGED results

\* A step is about one task.  Nothing is left to do with one that is completed,
\* abandoned or blocked: handle_result refuses reports on the first two, and no
\* poll lists the third.
Next == \E t \in Tasks :
    \/ Submit(t)
    \/ HandOut(t)
    \/ Block(t)
    \/ Succeed(t)
    \/ Fail(t)
    \/ Abandon(t)

Spec == Init /\ [][Next]_vars
==============================================================================
