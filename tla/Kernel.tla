-------------------------------- MODULE Kernel --------------------------------
(***************************************************************************)
(* The local pipeline: kernel.run_task and what it calls.  Every POST /run *)
(* is a thread of its own (Flask), so a caller is a thread that creates a  *)
(* root task, has the planner split it into subtasks, and then dispatches  *)
(* the tasks of its project, its own or not, until none is left: planned   *)
(* tasks to the worker, tasks awaiting review to the reviewer.             *)
(*                                                                         *)
(* The callers share the tasks table and nothing else.  Each statement is  *)
(* a transaction of its own; every status is written by task id alone,     *)
(* with the status read some statements earlier.  A statement may fail     *)
(* (RuntimeError from database.py): the handlers of planner, coordinator   *)
(* and kernel decide what the caller does then.                            *)
(*                                                                         *)
(* Notes, memory rows and logs change nothing the pipeline reads back,     *)
(* except the worker's failure notes; they are part of the step that       *)
(* writes them, and fail with it.                                          *)
(***************************************************************************)
EXTENDS Naturals, Sequences, FiniteSets

CONSTANTS Callers,        \* threads inside run_task
          Projects,
          ProjectOf,      \* the project_id each caller gives
          Steps,          \* subtasks the planner finds in one goal (1..10)
          RootPriority,   \* priority of the root task (1..10)
          Outcome,        \* what the worker makes of a task
          FirstQuery,     \* the status select_task lists first (set order)
          MaxIterations,  \* max_iterations of run_all
          MaxFailures,    \* MAX_RETRIES of worker.py
          MaxFaults,      \* bound on failing statements and node losses
          NoTask

\* A root task is step 0 of its caller.
Tasks == Callers \X (0..Steps)
Root(c) == <<c, 0>>

\* _run and _evaluate are functions of the task: output the reviewer approves
\* or rejects, or no output at all (a blank input reversed).
Outcomes == {"approvable", "rejectable", "empty"}

ASSUME ConstantsOK ==
    /\ ProjectOf \in [Callers -> Projects]
    /\ Steps \in 1..10
    /\ RootPriority \in 1..10
    /\ Outcome \in [Tasks -> Outcomes]
    /\ FirstQuery \in {"planned", "review_pending"}
    /\ MaxIterations \in Nat \ {0}
    /\ MaxFailures \in Nat \ {0}
    /\ MaxFaults \in Nat
    /\ NoTask \notin Tasks

VARIABLES
    table,      \* rows of tasks: status and output
    created,    \* task ids in created_at order
    failNotes,  \* worker notes that tell of a failure, per task
    learned,    \* tasks with a 'lesson' entry in memory
    nodeUp,     \* an online node with a fresh heartbeat exists
    caller,     \* where each thread is
    faults,
    unlearned   \* observation: tasks whose lesson could not be stored

dbVars == <<table, created, failNotes, learned>>
vars   == <<table, created, failNotes, learned, nodeUp, caller, faults, unlearned>>

Statuses == {"absent", "pending", "planned", "review_pending", "completed",
             "rejected", "failed", "abandoned"}
\* "work": what _run produced; "words": a text the system put there itself
Outputs  == {"none", "work", "words"}
Ended    == {"idle", "no_node", "spent", "error"}
Phases   == Ended \cup
            {"start", "create", "activate", "plan", "first", "second",
             "choose", "admit_work", "store_result", "store_failure",
             "admit_review", "learn", "complete", "reject", "report"}

Row(s, o) == [status |-> s, output |-> o]

TypeOK ==
    /\ table \in [Tasks -> [status : Statuses, output : Outputs]]
    /\ created \in Seq(Tasks)
    /\ failNotes \in [Tasks -> Nat]
    /\ learned \in SUBSET Tasks
    /\ nodeUp \in BOOLEAN
    /\ caller \in [Callers ->
          [phase : Phases, step : 1..(Steps + 1), task : Tasks \cup {NoTask},
           output : Outputs, verdict : {"none", "completed", "rejected", "raised"},
           tried : 0..MaxIterations, completed : Nat, rejected : Nat]]
    /\ faults \in 0..MaxFaults
    /\ unlearned \in SUBSET Tasks

Init ==
    /\ table = [t \in Tasks |-> Row("absent", "none")]
    /\ created = <<>>
    /\ failNotes = [t \in Tasks |-> 0]
    /\ learned = {}
    /\ nodeUp = TRUE
    /\ caller = [c \in Callers |->
          [phase |-> "start", step |-> 1, task |-> NoTask, output |-> "none",
           verdict |-> "none", tried |-> 0, completed |-> 0, rejected |-> 0]]
    /\ faults = 0
    /\ unlearned = {}

At(c, p) == caller[c].phase = p
Becomes(c, r) == caller' = [caller EXCEPT ![c] = r]
Go(c, p) == Becomes(c, [caller[c] EXCEPT !.phase = p])

Task(c) == caller[c].task
Store(t, s, o) == table' = [table EXCEPT ![t] = Row(s, o)]
Fault == faults < MaxFaults /\ faults' = faults + 1

-----------------------------------------------------------------------------
(* Planning *)

CreateTask(t) ==
    /\ Store(t, "pending", "none")
    /\ created' = Append(created, t)

CreateRoot(c) ==
    /\ At(c, "start")
    /\ CreateTask(Root(c))
    /\ Go(c, "create")
    /\ UNCHANGED <<failNotes, learned, nodeUp, faults, unlearned>>

Subtask(c) == <<c, caller[c].step>>

CreateSubtask(c) ==
    /\ At(c, "create")
    /\ CreateTask(Subtask(c))
    /\ Go(c, "activate")
    /\ UNCHANGED <<failNotes, learned, nodeUp, faults, unlearned>>

\* The next subtask, or the root's own turn after the last one.
NextStep(c) ==
    LET k == caller[c].step IN
    Becomes(c, [caller[c] EXCEPT !.step = k + 1,
                                 !.phase = IF k = Steps THEN "plan" ELSE "create"])

Activate(c) ==
    /\ At(c, "activate")
    /\ Store(Subtask(c), "planned", "none")
    /\ NextStep(c)
    /\ UNCHANGED <<created, failNotes, learned, nodeUp, faults, unlearned>>

\* The root becomes "planned" as well, and is dispatched like its subtasks.
PlanRoot(c) ==
    /\ At(c, "plan")
    /\ Store(Root(c), "planned", "words")
    /\ Go(c, "first")
    /\ UNCHANGED <<created, failNotes, learned, nodeUp, faults, unlearned>>

-----------------------------------------------------------------------------
(* Selection: two queries, one per dispatchable status, then one sort.  A   *)
(* task that moves between them is listed in both or in neither.            *)

Priority(t) == IF t[2] = 0 THEN RootPriority ELSE 11 - t[2]

Born(t) == CHOOSE i \in DOMAIN created : created[i] = t

Ahead(t, u) ==
    \/ Priority(t) > Priority(u)
    \/ Priority(t) = Priority(u) /\ Born(t) < Born(u)

Foremost(S) ==
    IF S = {} THEN NoTask
    ELSE CHOOSE t \in S : \A u \in S \ {t} : Ahead(t, u)

Listed(c, s) ==
    {t \in Tasks : ProjectOf[t[1]] = ProjectOf[c] /\ table[t].status = s}

SecondQuery == IF FirstQuery = "planned" THEN "review_pending" ELSE "planned"

FirstSearch(c) ==
    /\ At(c, "first")
    /\ Becomes(c, [caller[c] EXCEPT !.phase = "second",
                                    !.task = Foremost(Listed(c, FirstQuery))])
    /\ UNCHANGED <<dbVars, nodeUp, faults, unlearned>>

\* The caller goes by the status the query returned, not by the row.
Route(status) == IF status = "planned" THEN "choose" ELSE "admit_review"

SecondSearch(c) ==
    /\ At(c, "second")
    /\ LET early == Task(c)
           best  == Foremost(({early} \ {NoTask}) \cup Listed(c, SecondQuery))
       IN  Becomes(c, [caller[c] EXCEPT
                !.task = best,
                !.phase = IF best = NoTask THEN "idle"
                          ELSE Route(IF best = early THEN FirstQuery
                                     ELSE SecondQuery)])
    /\ UNCHANGED <<dbVars, nodeUp, faults, unlearned>>

-----------------------------------------------------------------------------
(* The worker *)

\* Without a healthy node the whole batch ends here, reviews included.
ChooseNode(c) ==
    /\ At(c, "choose")
    /\ Go(c, IF nodeUp THEN "admit_work" ELSE "no_node")
    /\ UNCHANGED <<dbVars, nodeUp, faults, unlearned>>

Reports(c, v) ==
    Becomes(c, [caller[c] EXCEPT !.phase = "report", !.verdict = v])

\* (mutant: the worker no longer tests the status)
WorksAnyway(c) ==
    /\ At(c, "admit_work")
    /\ Go(c, IF Outcome[Task(c)] = "empty" THEN "store_failure" ELSE "store_result")
    /\ UNCHANGED <<dbVars, nodeUp, faults, unlearned>>

\* An agent that finds another status than its own refuses: an error result,
\* no write, and the loop goes on.
AdmitWork(c) ==
    /\ At(c, "admit_work")
    /\ IF table[Task(c)].status = "planned"
       THEN Go(c, IF Outcome[Task(c)] = "empty" THEN "store_failure"
                  ELSE "store_result")
       ELSE Reports(c, "none")
    /\ UNCHANGED <<dbVars, nodeUp, faults, unlearned>>

\* After its write the agent returns v, or fails to write its note and raises.
Returns(c, v) ==
    \/ Reports(c, v) /\ UNCHANGED faults
    \/ Reports(c, "raised") /\ Fault

StoreResult(c) ==
    /\ At(c, "store_result")
    /\ Store(Task(c), "review_pending", "work")
    /\ Returns(c, "none")
    /\ UNCHANGED <<created, failNotes, learned, nodeUp, unlearned>>

\* (mutant: a status no query lists)
FailsForRetry(t) == IF failNotes[t] >= MaxFailures THEN "abandoned" ELSE "retry"

FailureStatus(t) == IF failNotes[t] >= MaxFailures THEN "abandoned" ELSE "failed"

\* fail_task_atomic also sets the node that was chosen "online": a fresh one
\* that was taken out of service since then is back in service.
StoreFailure(c) ==
    /\ At(c, "store_failure")
    /\ Store(Task(c), FailureStatus(Task(c)), "words")
    /\ failNotes' = [failNotes EXCEPT ![Task(c)] = @ + 1]
    /\ nodeUp' \in {nodeUp, TRUE}
    /\ Returns(c, "none")
    /\ UNCHANGED <<created, learned, unlearned>>

-----------------------------------------------------------------------------
(* The reviewer *)

\* A text of the system's own, say "Rejected: output too short", is long
\* enough and free of error markers.
Evaluate(t, output) == output = "work" => Outcome[t] = "approvable"

\* (mutant: the reviewer no longer tests the status)
ReviewsAnyway(c) ==
    /\ At(c, "admit_review")
    /\ LET row == table[Task(c)] IN
       Becomes(c, [caller[c] EXCEPT
           !.output = row.output,
           !.phase = IF Evaluate(Task(c), row.output) THEN "learn" ELSE "reject"])
    /\ UNCHANGED <<dbVars, nodeUp, faults, unlearned>>

AdmitReview(c) ==
    /\ At(c, "admit_review")
    /\ LET row == table[Task(c)] IN
       IF row.status = "review_pending"
       THEN Becomes(c, [caller[c] EXCEPT
                !.output = row.output,
                !.phase = IF Evaluate(Task(c), row.output) THEN "learn"
                          ELSE "reject"])
       ELSE Reports(c, "none")
    /\ UNCHANGED <<dbVars, nodeUp, faults, unlearned>>

\* (mutant: the approval stores no lesson)
LearnsNothing(c) ==
    /\ At(c, "learn")
    /\ Go(c, "complete")
    /\ UNCHANGED <<dbVars, nodeUp, faults, unlearned>>

\* remember answers -1 instead of raising, and _approve does not look.
Learn(c) ==
    /\ At(c, "learn")
    /\ \/ /\ learned' = learned \cup {Task(c)}
          /\ UNCHANGED <<faults, unlearned>>
       \/ /\ Fault
          /\ unlearned' = unlearned \cup {Task(c)}
          /\ UNCHANGED learned
    /\ Go(c, "complete")
    /\ UNCHANGED <<table, created, failNotes, nodeUp>>

Complete(c) ==
    /\ At(c, "complete")
    /\ Store(Task(c), "completed", caller[c].output)
    /\ Returns(c, "completed")
    /\ UNCHANGED <<created, failNotes, learned, nodeUp, unlearned>>

Reject(c) ==
    /\ At(c, "reject")
    /\ Store(Task(c), "rejected", "words")
    /\ Returns(c, "rejected")
    /\ UNCHANGED <<created, failNotes, learned, nodeUp, unlearned>>

-----------------------------------------------------------------------------
(* The loop of run_all *)

\* (mutant: what an agent wrote before it raised is not counted)
FinalIfReturned(c) == IF caller[c].verdict = "raised" THEN "none"
                      ELSE caller[c].verdict

\* What the coordinator counts: the status the agent returned or, when it
\* raised, the one it finds in the table.
Final(c) == IF caller[c].verdict = "raised" THEN table[Task(c)].status
            ELSE caller[c].verdict

\* (mutant: an agent that raises ends the batch as if nothing were left)
StopsOnRaise(c) ==
    /\ At(c, "report")
    /\ Becomes(c, [caller[c] EXCEPT
            !.tried = @ + 1, !.verdict = "none", !.output = "none", !.task = NoTask,
            !.phase = IF caller[c].verdict = "raised" THEN "idle"
                      ELSE IF caller[c].tried + 1 = MaxIterations THEN "spent"
                      ELSE "first"])
    /\ UNCHANGED <<dbVars, nodeUp, faults, unlearned>>

Report(c) ==
    /\ At(c, "report")
    /\ LET k == caller[c].tried + 1 IN
       Becomes(c, [caller[c] EXCEPT
            !.tried = k,
            !.completed = IF Final(c) = "completed" THEN @ + 1 ELSE @,
            !.rejected  = IF Final(c) = "rejected" THEN @ + 1 ELSE @,
            !.verdict = "none",
            !.output = "none",
            !.task = NoTask,
            !.phase = IF k = MaxIterations THEN "spent" ELSE "first"])
    /\ UNCHANGED <<dbVars, nodeUp, faults, unlearned>>

-----------------------------------------------------------------------------
(* Statements that fail *)

\* The planner skips the step: no row, or a row left "pending" for good.
SkipsStep(c) ==
    /\ caller[c].phase \in {"create", "activate"}
    /\ Fault
    /\ NextStep(c)
    /\ UNCHANGED <<dbVars, nodeUp, unlearned>>

\* The coordinator catches what an agent raises, and counts a dispatch.
AgentRaises(c) ==
    /\ caller[c].phase \in {"admit_work", "store_result", "store_failure",
                            "admit_review", "complete", "reject"}
    /\ Fault
    /\ Reports(c, "raised")
    /\ UNCHANGED <<dbVars, nodeUp, unlearned>>

\* Elsewhere the exception ends run_task with an error.
CallerFails(c) ==
    /\ \/ caller[c].phase \in {"start", "plan", "first", "second", "report"}
       \/ At(c, "choose") /\ ~nodeUp
    /\ Fault
    /\ Go(c, "error")
    /\ UNCHANGED <<dbVars, nodeUp, unlearned>>

\* The last healthy node goes offline or its heartbeat grows old, and returns.
NodeLost ==
    /\ nodeUp
    /\ Fault
    /\ nodeUp' = FALSE
    /\ UNCHANGED <<dbVars, caller, unlearned>>

NodeBack ==
    /\ ~nodeUp
    /\ nodeUp' = TRUE
    /\ UNCHANGED <<dbVars, caller, faults, unlearned>>

CallerStep(c) ==
    \/ CreateRoot(c) \/ CreateSubtask(c) \/ Activate(c) \/ PlanRoot(c)
    \/ FirstSearch(c) \/ SecondSearch(c)
    \/ ChooseNode(c) \/ AdmitWork(c) \/ StoreResult(c) \/ StoreFailure(c)
    \/ AdmitReview(c) \/ Learn(c) \/ Complete(c) \/ Reject(c)
    \/ Report(c)
    \/ SkipsStep(c) \/ AgentRaises(c) \/ CallerFails(c)

Next == (\E c \in Callers : CallerStep(c)) \/ NodeLost \/ NodeBack

Spec == Init /\ [][Next]_vars

-----------------------------------------------------------------------------
(* Properties *)

Of(p) == {c \in Callers : ProjectOf[c] = p}
HasStatus(t, s) == table[t].status = s
Judged(t) == table[t].status \in {"completed", "rejected"}

\* The refinement mapping: the statuses, and what each caller has in hand from
\* the test of a status to the write that follows.
Lives == [t \in Tasks |-> table[t].status]

Holding(m) ==
    CASE m.phase \in {"store_result", "store_failure"} -> [duty |-> "work", task |-> m.task]
      [] m.phase \in {"learn", "complete", "reject"}   -> [duty |-> "review", task |-> m.task]
      [] OTHER                                         -> [duty |-> "none"]

Hands == [c \in Callers |-> Holding(caller[c])]

Life == INSTANCE TaskLife WITH Agents <- Callers, life <- Lives, hand <- Hands

\* Statuses change as the planner, the worker and the reviewer are said to
\* change them: a write follows a read that found the right status, and an
\* agent writes once for each task it took.
ImplementsTaskLife == Life!Spec

\* A caller stops for want of work (coordinator.py:135) after two queries that
\* are not one snapshot.  Still no task is left behind: when all callers of a
\* project have stopped that way, none of its tasks could be dispatched.
NothingLeftBehind ==
    \A p \in Projects :
        (\A c \in Of(p) : At(c, "idle")) =>
            \A c \in Of(p) : Listed(c, "planned") \cup Listed(c, "review_pending") = {}

\* Two reviewers of one task never contradict each other, and a worker that is
\* late with its result can reopen a judged task (worker.py:268) but not give
\* it another ending by itself.
VerdictStands ==
    [][\A t \in Tasks :
          Judged(t) => table'[t].status \in {table[t].status, "review_pending"}]_vars

\* Nobody sees a completed task whose lesson is still to be stored: the lesson
\* comes first (reviewer.py:171), unless storing it failed unnoticed.
LessonComesFirst ==
    \A t \in Tasks : HasStatus(t, "completed") => t \in learned \cup unlearned

Count(p, s) == Cardinality({t \in Tasks : ProjectOf[t[1]] = p /\ HasStatus(t, s)})

Tally(c, s) == IF s = "completed" THEN caller[c].completed ELSE caller[c].rejected

\* What the callers of a project counted, one element for each: their tallies
\* add up to its size.
Counted(p, s) == UNION {{c} \X (1..Tally(c, s)) : c \in Of(p)}

\* The summaries of run_all account for every task: when the
\* callers of a project have stopped for want of work, each task they left judged
\* was counted by one of them at least, whatever raised on the way.
SummariesAddUp ==
    \A p \in Projects :
        (\A c \in Of(p) : At(c, "idle")) =>
            \A s \in {"completed", "rejected"} : Cardinality(Counted(p, s)) >= Count(p, s)
=============================================================================
