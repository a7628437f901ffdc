---------------------------- MODULE GridDispatch ----------------------------
(***************************************************************************)
(* The Phase 7 library that pushes work to the nodes: the dispatcher       *)
(* (Grid/dispatcher.py), the failure manager (Grid/failure.py), the sweeps *)
(* that other services make through it (Grid/reconciler.py,                *)
(* Grid/heartbeat_monitor.py), the registry and the load balancer as the   *)
(* dispatcher sees them, and the worker's HTTP server with its queue       *)
(* (Grid/worker_server.py).                                                *)
(*                                                                         *)
(* All master threads share one process: the in-flight set, the failure    *)
(* counters and the quarantine live in its memory, under locks that are    *)
(* held for one access each; the task rows live in the database, where     *)
(* every statement is a transaction of its own.                            *)
(***************************************************************************)
EXTENDS Naturals, Sequences, FiniteSets

CONSTANTS Tasks, Nodes, NoTask, NoNode,
          Dispatchers,   \* threads in dispatch_once or dispatch_task_direct
          Reconcilers,   \* threads that look for timed-out tasks
          Monitors,      \* threads that look for offline nodes
          Recorders,     \* threads in record_result
          Rank,          \* place of a task in list_tasks' order
          BatchSize,     \* BATCH_SIZE
          MaxReassign,   \* MAX_REASSIGNMENTS
          Threshold,     \* DISPATCH_FAILURE_THRESHOLD
          MaxAttempts,   \* tries of one _http_post
          Outcomes,      \* what a worker may report
          Slow,          \* tasks that may outlast DISPATCH_TIMEOUT_SECONDS
          MaxFaults      \* bound on timeouts, losses, refusals, restarts, DB errors

Sweepers == Reconcilers \cup Monitors

ASSUME ConstantsOK ==
    /\ NoTask \notin Tasks
    /\ NoNode \notin Nodes
    /\ Dispatchers \cap Sweepers = {}
    /\ IsFiniteSet(Dispatchers) /\ IsFiniteSet(Sweepers)
    /\ Rank \in [Tasks -> Nat]
    /\ BatchSize \in Nat \ {0}
    /\ MaxReassign \in Nat \ {0}
    /\ Threshold \in Nat \ {0}
    /\ MaxAttempts \in Nat \ {0}
    /\ Outcomes \subseteq {"completed", "failed", "interrupted", "rejected"}
    /\ Slow \subseteq Tasks
    /\ MaxFaults \in Nat

VARIABLES
    \* the master's database
    status,       \* tasks.status
    assigned,     \* tasks.assigned_node_id
    results,      \* memory_entries rows of type 'result', per task
    notes,        \* agent_notes rows with agent_role 'reassignment', per task
    nodeStatus,   \* node_registry.status
    fresh,        \* nodes whose last_heartbeat is recent
    \* the master's memory
    inFlight,     \* dispatcher._in_flight
    thread,       \* what each dispatcher and sweeper is doing
    recorder,     \* what each record_result call is doing
    failCount,    \* failure._node_failure_counts
    quarantined,  \* registry._quarantine
    \* the nodes
    posts,        \* POST /worker/assign requests in progress
    queue,        \* worker_server._task_queue
    accepted,     \* worker_server._accepted_task_ids
    work,         \* the task a node executes
    reports,      \* results on their way to the master
    faults,       \* faults so far
    \* observation only
    requeued,     \* times reassign_task reset the task to "planned"
    unnoted,      \* how many of them left no note, or were decided on no count
    runs,         \* executions of each task
    produced,     \* every report a node ever made on the task
    repeated      \* times a "completed" report on it was sent once more

rowVars    == <<status, assigned, results, notes>>
nodeVars   == <<nodeStatus, fresh>>
memVars    == <<inFlight, failCount, quarantined>>
workerVars == <<queue, accepted, work>>
ghostVars  == <<requeued, unnoted, runs, produced, repeated>>
vars == <<status, assigned, results, notes, nodeStatus, fresh, inFlight,
          thread, recorder, failCount, quarantined, posts, queue, accepted,
          work, reports, faults, requeued, unnoted, runs, produced, repeated>>

Threads == Dispatchers \cup Sweepers

\* The threads that call handle_timed_out_tasks.
TimeKeepers == Dispatchers \cup Reconcilers

Statuses == {"planned", "dispatched_to_node", "abandoned"} \cup Outcomes

Steps == {"idle", "list", "sweep", "requeue", "note", "batch", "choose",
          "claim", "send", "revert", "count", "quarantine", "release"}

Resting == [step |-> "idle", todo |-> {}, task |-> NoTask, node |-> NoNode, count |-> 0]

Reports == [task : Tasks, node : Nodes, outcome : Outcomes, id : Nat]

Posts == [task : Tasks, node : Nodes, orphan : Nat,
          at : {"arriving", "queueing", "marking", "answered"}]

Listening == [step |-> "idle", task |-> NoTask, node |-> NoNode, outcome |-> "none"]

ThreadStates == [step : Steps, todo : SUBSET Tasks, task : Tasks \cup {NoTask},
                 node : Nodes \cup {NoNode}, count : Nat]

RecorderStates == [step : {"idle", "write", "reset"}, task : Tasks \cup {NoTask},
                   node : Nodes \cup {NoNode}, outcome : Outcomes \cup {"none"}]

TypeOK ==
    /\ status \in [Tasks -> Statuses]
    /\ assigned \in [Tasks -> Nodes \cup {NoNode}]
    /\ results \in [Tasks -> Nat]
    /\ notes \in [Tasks -> Nat]
    /\ nodeStatus \in [Nodes -> {"online", "offline"}]
    /\ fresh \in SUBSET Nodes
    /\ inFlight \in SUBSET Tasks
    /\ thread \in [Threads -> ThreadStates]
    /\ recorder \in [Recorders -> RecorderStates]
    /\ failCount \in [Nodes -> Nat]
    /\ quarantined \in SUBSET Nodes
    /\ posts \in SUBSET Posts
    /\ queue \in [Nodes -> Seq(Tasks)]
    /\ accepted \in [Nodes -> SUBSET Tasks]
    /\ work \in [Nodes -> Tasks \cup {NoTask}]
    /\ reports \in SUBSET Reports
    /\ faults \in 0..MaxFaults
    /\ requeued \in [Tasks -> Nat]
    /\ unnoted \in [Tasks -> Nat]
    /\ runs \in [Tasks -> Nat]
    /\ produced \in [Tasks -> SUBSET Reports]
    /\ repeated \in [Tasks -> Nat]

\* The planner has left its tasks planned; every node is registered and alive.
Init ==
    /\ status = [t \in Tasks |-> "planned"]
    /\ assigned = [t \in Tasks |-> NoNode]
    /\ results = [t \in Tasks |-> 0]
    /\ notes = [t \in Tasks |-> 0]
    /\ nodeStatus = [n \in Nodes |-> "online"]
    /\ fresh = Nodes
    /\ inFlight = {}
    /\ thread = [th \in Threads |-> Resting]
    /\ recorder = [r \in Recorders |-> Listening]
    /\ failCount = [n \in Nodes |-> 0]
    /\ quarantined = {}
    /\ posts = {}
    /\ queue = [n \in Nodes |-> <<>>]
    /\ accepted = [n \in Nodes |-> {}]
    /\ work = [n \in Nodes |-> NoTask]
    /\ reports = {}
    /\ faults = 0
    /\ requeued = [t \in Tasks |-> 0]
    /\ unnoted = [t \in Tasks |-> 0]
    /\ runs = [t \in Tasks |-> 0]
    /\ produced = [t \in Tasks |-> {}]
    /\ repeated = [t \in Tasks |-> 0]

Fault == faults < MaxFaults /\ faults' = faults + 1

At(th, step) == thread[th].step = step

Go(th, step) == thread' = [thread EXCEPT ![th].step = step]

-----------------------------------------------------------------------------
(***************************************************************************)
(* Sweeps (failure.py).  A sweep takes a list of tasks from one query and  *)
(* hands them to reassign_task one by one; the dispatcher sweeps at the    *)
(* start of every cycle, the reconciler on its own, and the heartbeat      *)
(* monitor when it finds a node offline.                                   *)
(***************************************************************************)
TimedOut == {t \in Slow : status[t] = "dispatched_to_node"}

\* handle_timed_out_tasks, at the start of dispatch_once or by the reconciler.
StartSweep(th, timedOut) ==
    /\ At(th, "idle")
    /\ timedOut \subseteq TimedOut
    /\ thread' = [thread EXCEPT ![th].step = "sweep", ![th].todo = timedOut]
    /\ UNCHANGED <<rowVars, nodeVars, memVars, recorder, posts, workerVars,
                   reports, faults, ghostVars>>

\* handle_offline_node: mark_offline, then list the node's tasks.
MarkOffline(s, n) ==
    /\ At(s, "idle")
    /\ n \notin fresh
    /\ nodeStatus[n] = "online"
    /\ nodeStatus' = [nodeStatus EXCEPT ![n] = "offline"]
    /\ thread' = [thread EXCEPT ![s].step = "list", ![s].node = n]
    /\ UNCHANGED <<rowVars, fresh, memVars, recorder, posts, workerVars,
                   reports, faults, ghostVars>>

ListDispatched(s) ==
    /\ At(s, "list")
    /\ thread' = [thread EXCEPT
                    ![s].step = "sweep", ![s].node = NoNode,
                    ![s].todo = {t \in Tasks : /\ status[t] = "dispatched_to_node"
                                               /\ assigned[t] = thread[s].node}]
    /\ UNCHANGED <<rowVars, nodeVars, memVars, recorder, posts, workerVars,
                   reports, faults, ghostVars>>

\* reassign_task reads the number of reassignments, and takes a database error
\* for none.
ReadRetryCount(th, t) ==
    /\ At(th, "sweep")
    /\ t \in thread[th].todo
    /\ \E seen \in {notes[t], 0} :
          /\ thread' = [thread EXCEPT ![th].step = "requeue", ![th].task = t,
                                      ![th].todo = @ \ {t}, ![th].count = seen]
          /\ \/ seen = notes[t] /\ UNCHANGED <<faults, unnoted>>
             \/ /\ seen # notes[t] /\ Fault
                /\ unnoted' = [unnoted EXCEPT ![t] = @ + 1]
    /\ UNCHANGED <<rowVars, nodeVars, memVars, recorder, posts, workerVars,
                   reports, requeued, runs, produced, repeated>>

\* Bug: one reassignment more.
ReassignsOnceMore(count) == count > MaxReassign

ReassignmentsUsedUp(count) == count >= MaxReassign

\* Then one UPDATE by the task's id alone, whatever its status is by now.
Requeue(th) ==
    LET t == thread[th].task IN
    /\ At(th, "requeue")
    /\ \/ /\ ReassignmentsUsedUp(thread[th].count)
          /\ status' = [status EXCEPT ![t] = "abandoned"]
          /\ UNCHANGED requeued
       \/ /\ ~ReassignmentsUsedUp(thread[th].count)
          /\ status' = [status EXCEPT ![t] = "planned"]
          /\ requeued' = [requeued EXCEPT ![t] = @ + 1]
    /\ assigned' = [assigned EXCEPT ![t] = NoNode]
    /\ Go(th, "note")
    /\ UNCHANGED <<results, notes, nodeVars, memVars, recorder, posts,
                   workerVars, reports, faults, unnoted, runs, produced, repeated>>

\* The UPDATE raises: the sweep goes on with its next task.
RequeueFails(th) ==
    /\ At(th, "requeue")
    /\ Fault
    /\ thread' = [thread EXCEPT ![th].step = "sweep", ![th].task = NoTask,
                                ![th].count = 0]
    /\ UNCHANGED <<rowVars, nodeVars, memVars, recorder, posts, workerVars,
                   reports, ghostVars>>

\* And the note that the next count will see; its failure is ignored.
WriteNote(th) ==
    LET t == thread[th].task IN
    /\ At(th, "note")
    /\ \/ /\ notes' = [notes EXCEPT ![t] = @ + 1]
          /\ UNCHANGED <<faults, unnoted>>
       \/ /\ Fault
          /\ unnoted' = [unnoted EXCEPT ![t] = @ + 1]
          /\ UNCHANGED notes
    /\ thread' = [thread EXCEPT ![th].step = "sweep", ![th].task = NoTask,
                                ![th].count = 0]
    /\ UNCHANGED <<status, assigned, results, nodeVars, memVars, recorder, posts,
                   workerVars, reports, requeued, runs, produced, repeated>>

EndSweep(s) ==
    /\ At(s, "sweep")
    /\ thread[s].todo = {}
    /\ Go(s, "idle")
    /\ UNCHANGED <<rowVars, nodeVars, memVars, recorder, posts, workerVars,
                   reports, faults, ghostVars>>

-----------------------------------------------------------------------------
(***************************************************************************)
(* The dispatcher (dispatcher.py).                                         *)
(***************************************************************************)
RanksBefore(t, u) == Rank[t] < Rank[u]

\* list_tasks(status='planned')[:BATCH_SIZE]
Batch ==
    LET planned == {t \in Tasks : status[t] = "planned"}
    IN  {t \in planned : Cardinality({u \in planned : RanksBefore(u, t)}) < BatchSize}

FetchPlanned(d) ==
    /\ At(d, "sweep")
    /\ thread[d].todo = {}
    /\ thread' = [thread EXCEPT ![d].step = "batch", ![d].todo = Batch]
    /\ UNCHANGED <<rowVars, nodeVars, memVars, recorder, posts, workerVars,
                   reports, faults, ghostVars>>

\* Bug: the in-flight set is not looked at.
TakesAnyway(d, t) ==
    /\ inFlight' = inFlight \cup {t}
    /\ thread' = [thread EXCEPT ![d].step = "choose", ![d].task = t, ![d].todo = @ \ {t}]

\* The in-flight set keeps two threads of this process from the same task.
Take(d, t) ==
    \/ /\ t \notin inFlight
       /\ inFlight' = inFlight \cup {t}
       /\ thread' = [thread EXCEPT ![d].step = "choose", ![d].task = t, ![d].todo = @ \ {t}]
    \/ /\ t \in inFlight
       /\ thread' = [thread EXCEPT ![d].step = "batch", ![d].todo = @ \ {t}]
       /\ UNCHANGED inFlight

NextInBatch(d) ==
    /\ At(d, "batch")
    /\ \E t \in thread[d].todo :
          /\ \A u \in thread[d].todo : ~RanksBefore(u, t)
          /\ Take(d, t)
    /\ UNCHANGED <<rowVars, nodeVars, failCount, quarantined, recorder, posts,
                   workerVars, reports, faults, ghostVars>>

EndCycle(d) ==
    /\ At(d, "batch")
    /\ thread[d].todo = {}
    /\ Go(d, "idle")
    /\ UNCHANGED <<rowVars, nodeVars, memVars, recorder, posts, workerVars,
                   reports, faults, ghostVars>>

\* dispatch_task_direct: one task, whatever its status, no sweep.
DispatchDirectly(d, t) ==
    /\ At(d, "idle")
    /\ Take(d, t)
    /\ UNCHANGED <<rowVars, nodeVars, failCount, quarantined, recorder, posts,
                   workerVars, reports, faults, ghostVars>>

Eligible == {n \in fresh \ quarantined : nodeStatus[n] = "online"}

\* choose_best_node; the load it compares is what the nodes last reported.
Choose(d) ==
    /\ At(d, "choose")
    /\ \/ \E n \in Eligible :
             thread' = [thread EXCEPT ![d].step = "claim", ![d].node = n]
       \/ Eligible = {} /\ Go(d, "release")
    /\ UNCHANGED <<rowVars, nodeVars, memVars, recorder, posts, workerVars,
                   reports, faults, ghostVars>>

\* The request this thread is waiting for.
Pending(d) == {p \in posts : /\ p.task = thread[d].task
                             /\ p.node = thread[d].node
                             /\ p.orphan = 0}

Post(d) == [task |-> thread[d].task, node |-> thread[d].node, orphan |-> 0,
            at |-> "arriving"]

\* Bug: the UPDATE is not conditional on the status.
ClaimsAnyway(t) == status[t] # "abandoned"

Claimable(t) == status[t] = "planned"

\* _claim_task's compare-and-set, and the first try of the request.
Claim(d) ==
    LET t == thread[d].task IN
    /\ At(d, "claim")
    /\ \/ /\ Claimable(t)
          /\ status' = [status EXCEPT ![t] = "dispatched_to_node"]
          /\ assigned' = [assigned EXCEPT ![t] = thread[d].node]
          /\ posts' = posts \cup {Post(d)}
          /\ thread' = [thread EXCEPT ![d].step = "send", ![d].count = 1]
       \/ /\ ~Claimable(t)
          /\ Go(d, "release")
          /\ UNCHANGED <<status, assigned, posts>>
    /\ UNCHANGED <<results, notes, nodeVars, memVars, recorder, workerVars,
                   reports, faults, ghostVars>>

\* The UPDATE raises: the task counts as failed, and the batch goes on.
ClaimFails(d) ==
    /\ At(d, "claim")
    /\ Fault
    /\ Go(d, "release")
    /\ UNCHANGED <<rowVars, nodeVars, memVars, recorder, posts, workerVars,
                   reports, ghostVars>>

\* The node accepts: reset_failure_count.
SendSucceeds(d) ==
    /\ At(d, "send")
    /\ \E p \in Pending(d) : p.at = "answered" /\ posts' = posts \ {p}
    /\ failCount' = [failCount EXCEPT ![thread[d].node] = 0]
    /\ Go(d, "release")
    /\ UNCHANGED <<rowVars, nodeVars, inFlight, quarantined, recorder, workerVars,
                   reports, faults, ghostVars>>

\* The next try, or the end of them.
TryAgain(d, kept) ==
    \/ /\ thread[d].count < MaxAttempts
       /\ thread' = [thread EXCEPT ![d].count = @ + 1]
       /\ posts' = kept \cup {Post(d)}
    \/ /\ thread[d].count >= MaxAttempts
       /\ Go(d, "revert")
       /\ posts' = kept

\* The request or its answer is lost, or so late that nobody waits for it.
SendTimesOut(d) ==
    /\ At(d, "send")
    /\ Fault
    /\ \E p \in Pending(d) :
          \/ p.at \in {"arriving", "answered"} /\ TryAgain(d, posts \ {p})
          \/ /\ p.at # "answered"
             /\ TryAgain(d, (posts \ {p}) \cup {[p EXCEPT !.orphan = faults + 1]})
    /\ UNCHANGED <<rowVars, nodeVars, memVars, recorder, workerVars, reports,
                   ghostVars>>

\* The node refuses before it looks at its ids (credentials, payload, signature):
\* a 4xx is not tried again.  It leaves the node as it was, so that its answer
\* need not be told from the refusal.
SendIsRefused(d) ==
    /\ At(d, "send")
    /\ Fault
    /\ \E p \in Pending(d) : p.at = "arriving" /\ posts' = posts \ {p}
    /\ Go(d, "revert")
    /\ UNCHANGED <<rowVars, nodeVars, memVars, recorder, workerVars, reports,
                   ghostVars>>

\* The node went away under the request.
SendBreaks(d) ==
    /\ At(d, "send")
    /\ Pending(d) = {}
    /\ TryAgain(d, posts)
    /\ UNCHANGED <<rowVars, nodeVars, memVars, recorder, workerVars, reports,
                   faults, ghostVars>>

\* _revert_dispatch: one UPDATE by the task's id alone.
Revert(d) ==
    LET t == thread[d].task IN
    /\ At(d, "revert")
    /\ status' = [status EXCEPT ![t] = "planned"]
    /\ assigned' = [assigned EXCEPT ![t] = NoNode]
    /\ Go(d, "count")
    /\ UNCHANGED <<results, notes, nodeVars, memVars, recorder, posts, workerVars,
                   reports, faults, ghostVars>>

\* A query or the UPDATE raises: the cycle ends, through the finally clause.
CycleAborts(d) ==
    /\ At(d, "choose") \/ At(d, "revert")
    /\ Fault
    /\ thread' = [thread EXCEPT ![d].step = "release", ![d].todo = {}]
    /\ UNCHANGED <<rowVars, nodeVars, memVars, recorder, posts, workerVars,
                   reports, ghostVars>>

\* handle_dispatch_failure: count, then quarantine on that count.
CountFailure(d) ==
    LET n == thread[d].node IN
    /\ At(d, "count")
    /\ failCount' = [failCount EXCEPT ![n] = @ + 1]
    /\ Go(d, IF failCount[n] + 1 >= Threshold THEN "quarantine" ELSE "release")
    /\ UNCHANGED <<rowVars, nodeVars, inFlight, quarantined, recorder, posts,
                   workerVars, reports, faults, ghostVars>>

Quarantine(d) ==
    /\ At(d, "quarantine")
    /\ quarantined' = quarantined \cup {thread[d].node}
    /\ Go(d, "release")
    /\ UNCHANGED <<rowVars, nodeVars, inFlight, failCount, recorder, posts,
                   workerVars, reports, faults, ghostVars>>

\* Bug: the early return leaves the task in the in-flight set.
KeepsInFlight(d) == inFlight

StillInFlight(d) == inFlight \ {thread[d].task}

\* finally: discard from the in-flight set.
Release(d) ==
    /\ At(d, "release")
    /\ inFlight' = StillInFlight(d)
    /\ thread' = [thread EXCEPT ![d].step = "batch", ![d].task = NoTask,
                                ![d].node = NoNode, ![d].count = 0]
    /\ UNCHANGED <<rowVars, nodeVars, failCount, quarantined, recorder, posts,
                   workerVars, reports, faults, ghostVars>>

QuarantineExpires(n) ==
    /\ n \in quarantined
    /\ quarantined' = quarantined \ {n}
    /\ UNCHANGED <<rowVars, nodeVars, inFlight, thread, recorder, failCount, posts,
                   workerVars, reports, faults, ghostVars>>

-----------------------------------------------------------------------------
(***************************************************************************)
(* A node (worker_server.py, threaded): one thread per request, a queue    *)
(* and the ids accepted so far; a worker takes from the queue, executes    *)
(* and reports.                                                            *)
(***************************************************************************)
Moved(p, at) == (posts \ {p}) \cup {[p EXCEPT !.at = at]}

\* Nobody reads the answer to an orphan.
Answer(p) == IF p.orphan = 0 THEN Moved(p, "answered") ELSE posts \ {p}

\* assign_task: the duplicate test, the queue, the accepted ids, one by one.
CheckDuplicate(p) ==
    /\ p.at = "arriving"
    /\ posts' = IF p.task \in accepted[p.node] THEN Answer(p) ELSE Moved(p, "queueing")
    /\ UNCHANGED <<rowVars, nodeVars, memVars, thread, recorder, workerVars,
                   reports, faults, ghostVars>>

Enqueue(p) ==
    /\ p.at = "queueing"
    /\ queue' = [queue EXCEPT ![p.node] = Append(@, p.task)]
    /\ posts' = Moved(p, "marking")
    /\ UNCHANGED <<rowVars, nodeVars, memVars, thread, recorder, accepted, work,
                   reports, faults, ghostVars>>

MarkAccepted(p) ==
    /\ p.at = "marking"
    /\ accepted' = [accepted EXCEPT ![p.node] = @ \cup {p.task}]
    /\ posts' = Answer(p)
    /\ UNCHANGED <<rowVars, nodeVars, memVars, thread, recorder, queue, work,
                   reports, faults, ghostVars>>

\* pop_next_task
Dequeue(n) ==
    /\ work[n] = NoTask
    /\ queue[n] # <<>>
    /\ work' = [work EXCEPT ![n] = Head(queue[n])]
    /\ queue' = [queue EXCEPT ![n] = Tail(@)]
    /\ UNCHANGED <<rowVars, nodeVars, memVars, thread, recorder, posts, accepted,
                   reports, faults, ghostVars>>

\* The worker's result sets out for the master.
FinishWork(n) ==
    /\ work[n] # NoTask
    /\ \E o \in Outcomes :
          LET report == [task |-> work[n], node |-> n, outcome |-> o,
                         id |-> runs[work[n]]]
          IN  /\ reports' = reports \cup {report}
              /\ produced' = [produced EXCEPT ![work[n]] = @ \cup {report}]
    /\ runs' = [runs EXCEPT ![work[n]] = @ + 1]
    /\ work' = [work EXCEPT ![n] = NoTask]
    /\ UNCHANGED <<rowVars, nodeVars, memVars, thread, recorder, posts, queue,
                   accepted, faults, requeued, unnoted, repeated>>

Heartbeat(n) ==
    /\ n \notin fresh \/ nodeStatus[n] # "online"
    /\ fresh' = fresh \cup {n}
    /\ nodeStatus' = [nodeStatus EXCEPT ![n] = "online"]
    /\ UNCHANGED <<rowVars, memVars, thread, recorder, posts, workerVars, reports,
                   faults, ghostVars>>

-----------------------------------------------------------------------------
(***************************************************************************)
(* record_result: a query, one transaction by the task's id alone, and the *)
(* failure counter.                                                        *)
(***************************************************************************)
Terminal == {"completed", "rejected", "failed", "abandoned"}

FromAssigned(report) == assigned[report.task] \in {NoNode, report.node}

\* The node does not get the answer and reports once more.
SentAgain(report) ==
    repeated' = IF report.outcome = "completed"
                THEN [repeated EXCEPT ![report.task] = @ + 1] ELSE repeated

ReceiveReport(r, report) ==
    /\ recorder[r] = Listening
    /\ report \in reports
    /\ \/ reports' = reports \ {report} /\ UNCHANGED <<faults, repeated>>
       \/ Fault /\ SentAgain(report) /\ UNCHANGED reports
    /\ IF status[report.task] \notin Terminal /\ FromAssigned(report)
       THEN recorder' = [recorder EXCEPT ![r] = [step |-> "write", task |-> report.task,
                                                 node |-> report.node,
                                                 outcome |-> report.outcome]]
       ELSE UNCHANGED recorder
    /\ UNCHANGED <<rowVars, nodeVars, memVars, thread, posts, workerVars,
                   requeued, unnoted, runs, produced>>

\* Bug: every result that is not a rejection completes the task.
CompletesAll(o) == IF o = "rejected" THEN "rejected" ELSE "completed"

\* Bug: a status that nothing else knows.
RecordsDone(o) == IF o = "completed" THEN "done" ELSE o

StatusAfter(o) == o

\* complete_task_atomic, fail_task_atomic or update_task_status
RecordResult(r) ==
    LET c == recorder[r] IN
    /\ c.step = "write"
    /\ status' = [status EXCEPT ![c.task] = StatusAfter(c.outcome)]
    /\ results' = IF c.outcome = "completed"
                  THEN [results EXCEPT ![c.task] = @ + 1] ELSE results
    /\ nodeStatus' = IF c.outcome = "rejected" THEN nodeStatus
                     ELSE [nodeStatus EXCEPT ![c.node] = "online"]
    /\ recorder' = [recorder EXCEPT ![r] = IF c.outcome = "completed"
                                           THEN [c EXCEPT !.step = "reset"] ELSE Listening]
    /\ UNCHANGED <<assigned, notes, fresh, memVars, thread, posts, workerVars,
                   reports, faults, ghostVars>>

ResetFailures(r) ==
    /\ recorder[r].step = "reset"
    /\ failCount' = [failCount EXCEPT ![recorder[r].node] = 0]
    /\ recorder' = [recorder EXCEPT ![r] = Listening]
    /\ UNCHANGED <<rowVars, nodeVars, inFlight, quarantined, thread, posts,
                   workerVars, reports, faults, ghostVars>>

-----------------------------------------------------------------------------
(***************************************************************************)
(* What goes wrong.                                                        *)
(***************************************************************************)
LoseReport ==
    /\ Fault
    /\ \E report \in reports : reports' = reports \ {report}
    /\ UNCHANGED <<rowVars, nodeVars, memVars, thread, recorder, posts, workerVars,
                   ghostVars>>

HeartbeatsStop(n) ==
    /\ n \in fresh
    /\ Fault
    /\ fresh' = fresh \ {n}
    /\ UNCHANGED <<rowVars, nodeStatus, memVars, thread, recorder, posts, workerVars,
                   reports, ghostVars>>

\* A node's process starts afresh: its queue and its requests are gone.
WorkerRestarts(n) ==
    /\ Fault
    /\ queue' = [queue EXCEPT ![n] = <<>>]
    /\ accepted' = [accepted EXCEPT ![n] = {}]
    /\ work' = [work EXCEPT ![n] = NoTask]
    /\ posts' = {p \in posts : p.node # n}
    /\ UNCHANGED <<rowVars, nodeVars, memVars, thread, recorder, reports, ghostVars>>

\* The threads that are about to write a note on t.
NoteWriters(t) == {th \in Threads : At(th, "note") /\ thread[th].task = t}

\* The master's process starts afresh: only the database is left.
MasterRestarts ==
    /\ Fault
    /\ inFlight' = {}
    /\ failCount' = [n \in Nodes |-> 0]
    /\ quarantined' = {}
    /\ thread' = [th \in Threads |-> Resting]
    /\ recorder' = [r \in Recorders |-> Listening]
    /\ posts' = {IF p.orphan = 0 THEN [p EXCEPT !.orphan = faults + 1] ELSE p :
                 p \in {q \in posts : q.orphan # 0 \/ q.at # "answered"}}
    /\ unnoted' = [t \in Tasks |-> unnoted[t] +
                     Cardinality(NoteWriters(t))]
    /\ UNCHANGED <<rowVars, nodeVars, workerVars, reports, requeued, runs, produced, repeated>>

-----------------------------------------------------------------------------
SweepStep(th) ==
    \/ \E t \in Tasks : ReadRetryCount(th, t)
    \/ Requeue(th) \/ WriteNote(th)

SweeperStep(s) == ListDispatched(s) \/ SweepStep(s) \/ EndSweep(s)

DispatcherStep(d) ==
    \/ SweepStep(d) \/ FetchPlanned(d) \/ NextInBatch(d) \/ EndCycle(d)
    \/ Choose(d) \/ Claim(d) \/ SendSucceeds(d) \/ SendBreaks(d)
    \/ Revert(d) \/ CountFailure(d) \/ Quarantine(d) \/ Release(d)

NodeStep(n) ==
    \/ \E p \in posts : p.node = n /\ (CheckDuplicate(p) \/ Enqueue(p) \/ MarkAccepted(p))
    \/ Dequeue(n) \/ FinishWork(n)

RecorderStep(r) ==
    \/ \E report \in reports : ReceiveReport(r, report)
    \/ RecordResult(r) \/ ResetFailures(r)

Next ==
    \/ \E th \in Threads : RequeueFails(th)
    \/ \E th \in TimeKeepers, S \in SUBSET Tasks : StartSweep(th, S)
    \/ \E s \in Sweepers : SweeperStep(s)
    \/ \E m \in Monitors, n \in Nodes : MarkOffline(m, n)
    \/ \E d \in Dispatchers :
          \/ DispatcherStep(d)
          \/ SendTimesOut(d) \/ SendIsRefused(d) \/ ClaimFails(d) \/ CycleAborts(d)
          \/ \E t \in Tasks : DispatchDirectly(d, t)
    \/ \E n \in Nodes :
          \/ NodeStep(n) \/ Heartbeat(n) \/ QuarantineExpires(n)
          \/ HeartbeatsStop(n) \/ WorkerRestarts(n)
    \/ \E r \in Recorders : RecorderStep(r)
    \/ LoseReport
    \/ MasterRestarts

Spec == Init /\ [][Next]_vars

(***************************************************************************)
(* Every thread goes on with what it does, the dispatcher's loop starts    *)
(* cycle after cycle, nodes serve their requests and work off their        *)
(* queues, heartbeats come back and a quarantine ends after ten minutes.   *)
(* A task that stays dispatched only gets older, so the sweeps, of which   *)
(* there is one per cycle, list it in the end.  Faults are never forced.   *)
(***************************************************************************)
Fairness ==
    /\ \A d \in Dispatchers : /\ WF_vars(DispatcherStep(d))
                              /\ WF_vars(\E S \in SUBSET Tasks : StartSweep(d, S))
    /\ \A s \in Sweepers : WF_vars(SweeperStep(s))
    /\ \A r \in Recorders : WF_vars(RecorderStep(r))
    /\ \A n \in Nodes : /\ WF_vars(NodeStep(n))
                        /\ WF_vars(Heartbeat(n))
                        /\ WF_vars(QuarantineExpires(n))
    /\ \A t \in Tasks :
          SF_vars(\E th \in TimeKeepers, S \in SUBSET Tasks : t \in S /\ StartSweep(th, S))

FairSpec == Spec /\ Fairness

-----------------------------------------------------------------------------
(***************************************************************************)
(* Safety.                                                                 *)
(***************************************************************************)
Handling(d, t) == d \in Dispatchers /\ thread[d].task = t
                  /\ thread[d].step \in {"choose", "claim", "send", "revert", "count",
                                         "quarantine", "release"}

\* While a thread sends a task to a node nobody else of this process handles the
\* task, and the row, if it is still dispatched, names that node: what the
\* unconditional UPDATE of _revert_dispatch takes back is never somebody else's
\* claim, although sweeps requeue the task under the thread's feet.
SenderOwnsClaim ==
    \A d \in Dispatchers, t \in Tasks : Handling(d, t) =>
        /\ t \in inFlight
        /\ \A e \in Dispatchers : Handling(e, t) => e = d
        /\ At(d, "send") \/ At(d, "revert") =>
              (status[t] = "dispatched_to_node" => assigned[t] = thread[d].node)

\* A task is returned to "planned" MaxReassign times, and once more for every
\* further thread that read the notes before the others wrote theirs, and for
\* every note that was lost or not seen.
RequeuesAreBounded ==
    \A t \in Tasks :
        requeued[t] <= MaxReassign - 1 + Cardinality(Threads) + unnoted[t]

\* The status a task ends with is one that some node reported, and there are no
\* more result records than executions that completed, but for one per
\* "completed" report that was sent once more.
RecordsAreReported ==
    \A t \in Tasks :
        /\ status[t] \in Outcomes => \E r \in produced[t] : r.outcome = status[t]
        /\ results[t] <= Cardinality({r \in produced[t] : r.outcome = "completed"})
                       + repeated[t]

\* Without slow tasks and faults the races between dispatchers, nodes and
\* recorders are harmless: every task runs once and is recorded once.
Errand == INSTANCE Errands

RunsErrands == Errand!Spec

(***************************************************************************)
(* What RequeuesAreBounded rests on: a requeue is followed by its note, or *)
(* counted in unnoted; and a thread that may requeue read the notes when   *)
(* they were few, so that all that can still come after it are the other   *)
(* threads that did so.                                                    *)
(***************************************************************************)

\* The threads that have read few enough notes to requeue t.
Requeuers(t) == {th \in Threads : /\ At(th, "requeue") /\ thread[th].task = t
                                  /\ ~ReassignmentsUsedUp(thread[th].count)}

RequeueInv ==
    \A t \in Tasks :
        /\ requeued[t] <= notes[t] + Cardinality(NoteWriters(t)) + unnoted[t]
        /\ requeued[t] + Cardinality(Requeuers(t))
              <= MaxReassign - 1 + Cardinality(Threads) + unnoted[t]

-----------------------------------------------------------------------------
(***************************************************************************)
(* Liveness.                                                               *)
(***************************************************************************)
Settled == Terminal \cup {"interrupted"}

\* Every task ends: after finitely many faults its status settles for good.
AllSettle == \A t \in Tasks : <>[](status[t] \in Settled)

-----------------------------------------------------------------------------
(***************************************************************************)
(* What the repository says and the code does not do.                      *)
(***************************************************************************)

=============================================================================
