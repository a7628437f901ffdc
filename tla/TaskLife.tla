------------------------------- MODULE TaskLife -------------------------------
(***************************************************************************)
(* What the local pipeline promises about the status of a task, whoever    *)
(* calls it and however many callers there are: a result is delivered only *)
(* by an agent that took the task while it was planned, a judgement only   *)
(* by one that took it while it awaited review, each of them once.  Kernel *)
(* is shown to implement it.                                               *)
(*                                                                         *)
(* It does not promise that a judged task is left alone: an agent that     *)
(* took it earlier may still deliver.                                      *)
(***************************************************************************)
CONSTANTS Tasks,
          Agents     \* threads that execute and review

VARIABLES life,      \* tasks.status
          hand       \* what an agent has in hand, and for which duty

vars == <<life, hand>>

Free == [duty |-> "none"]

Init ==
    /\ life = [t \in Tasks |-> "absent"]
    /\ hand = [a \in Agents |-> Free]

Pass(t, from, to) ==
    /\ life[t] = from
    /\ life' = [life EXCEPT ![t] = to]

\* The planner creates a task and, in a second step, activates it.
Create(t) == Pass(t, "absent", "pending") /\ UNCHANGED hand
Plan(t)   == Pass(t, "pending", "planned") /\ UNCHANGED hand

\* An agent takes a task in the status its duty asks for.
Take(a, t, duty, wanted) ==
    /\ hand[a] = Free
    /\ life[t] = wanted
    /\ hand' = [hand EXCEPT ![a] = [duty |-> duty, task |-> t]]
    /\ UNCHANGED life

\* It ends its duty with one write, or with none if a statement failed.
Finish(a, t, duty, ends) ==
    /\ hand[a] = [duty |-> duty, task |-> t]
    /\ hand' = [hand EXCEPT ![a] = Free]
    /\ \E s \in ends : life' = [life EXCEPT ![t] = s]

Drop(a) ==
    /\ hand[a] # Free
    /\ hand' = [hand EXCEPT ![a] = Free]
    /\ UNCHANGED life

Next ==
    \/ \E t \in Tasks : Create(t) \/ Plan(t)
    \/ \E a \in Agents, t \in Tasks :
          \/ Take(a, t, "work", "planned")
          \/ Finish(a, t, "work", {"review_pending", "failed", "abandoned"})
          \/ Take(a, t, "review", "review_pending")
          \/ Finish(a, t, "review", {"completed", "rejected"})
    \/ \E a \in Agents : Drop(a)

Spec == Init /\ [][Next]_vars
==============================================================================
