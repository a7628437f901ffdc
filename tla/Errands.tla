------------------------------- MODULE Errands -------------------------------
(***************************************************************************)
(* What pushing tasks to nodes is to look like from outside when nothing   *)
(* goes wrong: a task is given away once, run once, and its outcome is     *)
(* recorded once.                                                          *)
(***************************************************************************)
EXTENDS Naturals

CONSTANTS Tasks, Outcomes

VARIABLES status, results, runs

vars == <<status, results, runs>>

Init ==
    /\ status = [t \in Tasks |-> "planned"]
    /\ results = [t \in Tasks |-> 0]
    /\ runs = [t \in Tasks |-> 0]

GiveAway(t) ==
    /\ status[t] = "planned"
    /\ status' = [status EXCEPT ![t] = "dispatched_to_node"]
    /\ UNCHANGED <<results, runs>>

Run(t) ==
    /\ status[t] = "dispatched_to_node"
    /\ runs[t] = 0
    /\ runs' = [runs EXCEPT ![t] = 1]
    /\ UNCHANGED <<status, results>>

Record(t, o) ==
    /\ status[t] = "dispatched_to_node"
    /\ runs[t] = 1
    /\ status' = [status EXCEPT ![t] = o]
    /\ results' = [results EXCEPT ![t] = IF o = "completed" THEN 1 ELSE 0]
    /\ UNCHANGED runs

Next == \E t \in Tasks : GiveAway(t) \/ Run(t) \/ \E o \in Outcomes : Record(t, o)

Spec == Init /\ [][Next]_vars
=============================================================================
