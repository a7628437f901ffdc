----------------------------- MODULE GridMaster -----------------------------
(***************************************************************************)
(* The deployed protocol: one coordinator process (Grid/master_entry.py    *)
(* over grid_master.py, node_registry.py and database.py) and the worker   *)
(* processes that pull work from it (Grid/worker_runtime.py over           *)
(* Grid/client.py).                                                        *)
(*                                                                         *)
(* The coordinator serves one HTTP request at a time, but a handler makes  *)
(* several database transactions and the process can die between two of    *)
(* them, so each transaction is a step.  A worker makes blocking calls     *)
(* that the client repeats on a timeout; a request that the client gave up *)
(* on may still be sitting in the server's accept queue and be served      *)
(* later (late).                                                           *)
(***************************************************************************)
EXTENDS Naturals, Sequences

CONSTANTS Tasks,         \* tasks that may be submitted
          Workers,       \* worker nodes; node_id in node_registry
          NoTask,        \* "no assignment" in a poll response
          NoWorker,
          Priority,      \* tasks.priority
          MaxAttempts,   \* tries of one client call (4 in client.py)
          MaxRetries,    \* retry notes before abandoning (3 in grid_master.py)
          MaxFaults      \* bound on timeouts, crashes, missed heartbeats,
                         \* failing statements and bad signatures

ASSUME ConstantsOK ==
    /\ NoTask \notin Tasks
    /\ NoWorker \notin Workers
    /\ Priority \in [Tasks -> Nat]
    /\ MaxAttempts \in Nat \ {0}
    /\ MaxRetries \in Nat \ {0}
    /\ MaxFaults \in Nat

VARIABLES
    \* the coordinator's database
    status,       \* tasks.status
    submitted,    \* task ids in created_at order
    results,      \* memory_entries rows of type 'result', per task
    failures,     \* failure_memory rows, per task
    retryNotes,   \* coordinator notes containing "retry attempt", per task
    nodeStatus,   \* node_registry.status
    fresh,        \* nodes whose last_heartbeat is younger than 120 s
    \* the coordinator's HTTP server
    handler,      \* the request in progress
    \* the worker processes
    phase,        \* what the runtime loop is doing
    held,         \* the assignment it holds
    outcome,      \* the status field of the result it reports
    attempt,      \* try number of the call in progress
    call,         \* where that try is
    answer,       \* the assignment in the response
    \* the network
    late,         \* requests nobody waits for any more, not yet served
    faults,       \* faults so far
    \* observation only
    runs,         \* executions of each task
    verdict,      \* what the execution of each task produced
    unnoted       \* failure records of a failed task whose note was never written

dbVars      == <<status, submitted, results, failures, retryNotes>>
nodeVars    == <<nodeStatus, fresh>>
workerVars  == <<phase, held, outcome, attempt>>
callVars    == <<call, answer>>
ghostVars   == <<runs, verdict, unnoted>>
vars == <<status, submitted, results, failures, retryNotes, nodeStatus, fresh,
          handler, phase, held, outcome, attempt, call, answer, late, faults,
          runs, verdict, unnoted>>

Statuses == {"absent", "pending", "dispatched", "blocked",
             "completed", "failed", "abandoned"}
Outcomes == {"none", "completed", "failed"}
Phases   == {"down", "idle", "register", "poll", "execute", "report"}
Calling  == {"register", "poll", "report"}
Steps    == {"idle", "dispatch", "busy", "record", "note", "heartbeat", "reply"}

Idle == [step |-> "idle", from |-> NoWorker, task |-> NoTask,
         outcome |-> "none", node |-> NoWorker, waiting |-> FALSE]

Handlers == [step : Steps, from : Workers \cup {NoWorker},
             task : Tasks \cup {NoTask}, outcome : Outcomes,
             node : Workers \cup {NoWorker}, waiting : BOOLEAN]

Requests == [kind : Calling, from : Workers, task : Tasks \cup {NoTask},
             outcome : Outcomes, id : Nat]

TypeOK ==
    /\ status \in [Tasks -> Statuses]
    /\ submitted \in Seq(Tasks)
    /\ results \in [Tasks -> Nat]
    /\ failures \in [Tasks -> Nat]
    /\ retryNotes \in [Tasks -> Nat]
    /\ nodeStatus \in [Workers -> {"unregistered", "online", "busy", "offline"}]
    /\ fresh \in SUBSET Workers
    /\ handler \in Handlers
    /\ phase \in [Workers -> Phases]
    /\ held \in [Workers -> Tasks \cup {NoTask}]
    /\ outcome \in [Workers -> Outcomes]
    /\ attempt \in [Workers -> 0..MaxAttempts]
    /\ call \in [Workers -> {"none", "sent", "handling", "answered", "broken"}]
    /\ answer \in [Workers -> Tasks \cup {NoTask}]
    /\ late \in SUBSET Requests
    /\ faults \in 0..MaxFaults
    /\ runs \in [Tasks -> Nat]
    /\ verdict \in [Tasks -> Outcomes]
    /\ unnoted \in [Tasks -> Nat]

Init ==
    /\ status = [t \in Tasks |-> "absent"]
    /\ submitted = <<>>
    /\ results = [t \in Tasks |-> 0]
    /\ failures = [t \in Tasks |-> 0]
    /\ retryNotes = [t \in Tasks |-> 0]
    /\ nodeStatus = [w \in Workers |-> "unregistered"]
    /\ fresh = {}
    /\ handler = Idle
    /\ phase = [w \in Workers |-> "down"]
    /\ held = [w \in Workers |-> NoTask]
    /\ outcome = [w \in Workers |-> "none"]
    /\ attempt = [w \in Workers |-> 0]
    /\ call = [w \in Workers |-> "none"]
    /\ answer = [w \in Workers |-> NoTask]
    /\ late = {}
    /\ faults = 0
    /\ runs = [t \in Tasks |-> 0]
    /\ verdict = [t \in Tasks |-> "none"]
    /\ unnoted = [t \in Tasks |-> 0]

Fault == faults < MaxFaults /\ faults' = faults + 1

-----------------------------------------------------------------------------
(***************************************************************************)
(* Task intake, by whoever holds the database open.                        *)
(***************************************************************************)
SubmitTask(t) ==
    /\ status[t] = "absent"
    /\ status' = [status EXCEPT ![t] = "pending"]
    /\ submitted' = Append(submitted, t)
    /\ UNCHANGED <<results, failures, retryNotes, nodeVars, handler,
                   workerVars, callVars, late, faults, ghostVars>>

SubmittedBefore(t, u) ==
    \E i, j \in DOMAIN submitted : /\ i < j
                                   /\ submitted[i] = t
                                   /\ submitted[j] = u

\* Bug: the poll also lists the tasks that failed.
NextPendingOrFailed(t) ==
    /\ status[t] \in {"pending", "failed"}
    /\ \A u \in Tasks \ {t} : status[u] = "pending" => SubmittedBefore(t, u)

\* list_tasks(status='pending')[0]: ORDER BY priority DESC, created_at ASC.
NextPending(t) ==
    /\ status[t] = "pending"
    /\ \A u \in Tasks \ {t} : status[u] = "pending" =>
          \/ Priority[u] < Priority[t]
          \/ Priority[u] = Priority[t] /\ SubmittedBefore(t, u)

-----------------------------------------------------------------------------
(***************************************************************************)
(* The coordinator.  A request is either the current try of some worker's  *)
(* call (waiting) or a late one.                                           *)
(***************************************************************************)
CurrentRequest(w) == [kind |-> phase[w], from |-> w, task |-> held[w],
                      outcome |-> outcome[w], id |-> faults]

Accept(r, waiting) ==
    /\ handler = Idle
    /\ \/ /\ waiting
          /\ call[r.from] = "sent"
          /\ r = CurrentRequest(r.from)
          /\ call' = [call EXCEPT ![r.from] = "handling"]
          /\ UNCHANGED late
       \/ /\ ~waiting
          /\ r \in late
          /\ late' = late \ {r}
          /\ UNCHANGED call

Begin(r, waiting, step, t) ==
    handler' = [step |-> step, from |-> r.from, task |-> t,
                outcome |-> r.outcome, node |-> NoWorker, waiting |-> waiting]

HandlePoll(r, waiting) ==
    /\ r.kind = "poll"
    /\ Accept(r, waiting)
    /\ \/ \E t \in Tasks : NextPending(t) /\ Begin(r, waiting, "dispatch", t)
       \/ /\ \A t \in Tasks : status[t] # "pending"
          /\ Begin(r, waiting, "reply", NoTask)
    /\ UNCHANGED <<dbVars, nodeVars, workerVars, answer, faults, ghostVars>>

AvailableNodes == {w \in Workers : nodeStatus[w] = "online"}

Dispatchable == {"pending", "failed"}

\* Bug: the node is claimed and the task's row is forgotten.
DispatchUnmarked ==
    /\ handler.step = "dispatch"
    /\ \E n \in AvailableNodes : handler' = [handler EXCEPT !.step = "busy",
                                                            !.node = n]
    /\ UNCHANGED <<dbVars, nodeVars, workerVars, callVars, late, faults, ghostVars>>

\* dispatch() with a node: the task's row first, the node's row in SetBusy.
Dispatch ==
    /\ handler.step = "dispatch"
    /\ status[handler.task] \in Dispatchable
    /\ \E n \in AvailableNodes : handler' = [handler EXCEPT !.step = "busy",
                                                            !.node = n]
    /\ status' = [status EXCEPT ![handler.task] = "dispatched"]
    /\ UNCHANGED <<submitted, results, failures, retryNotes, nodeVars,
                   workerVars, callVars, late, faults, ghostVars>>

\* set_busy swallows a database error: the assignment goes out all the same.
SetBusy ==
    /\ handler.step = "busy"
    /\ \/ /\ nodeStatus' = [nodeStatus EXCEPT ![handler.node] = "busy"]
          /\ UNCHANGED faults
       \/ Fault /\ UNCHANGED nodeStatus
    /\ handler' = [handler EXCEPT !.step = "reply", !.node = NoWorker]
    /\ UNCHANGED <<dbVars, fresh, workerVars, callVars, late, ghostVars>>

\* dispatch() without a node: one fail_task_atomic, and a "no work" response.
DispatchBlocked ==
    /\ handler.step = "dispatch"
    /\ status[handler.task] \in Dispatchable
    /\ AvailableNodes = {}
    /\ status' = [status EXCEPT ![handler.task] = "blocked"]
    /\ failures' = [failures EXCEPT ![handler.task] = @ + 1]
    /\ handler' = [handler EXCEPT !.step = "reply", !.task = NoTask]
    /\ UNCHANGED <<submitted, results, retryNotes, nodeVars, workerVars,
                   callVars, late, faults, ghostVars>>

\* Bugs: one of the two final statuses is left out of handle_result's test.
CompletedStaysOpen == {"abandoned"}
AbandonedStaysOpen == {"completed"}

ReportClosed == {"completed", "abandoned"}

HandleResult(r, waiting) ==
    /\ r.kind = "report"
    /\ Accept(r, waiting)
    /\ \/ status[r.task] \in ReportClosed /\ Begin(r, waiting, "reply", NoTask)
       \/ status[r.task] \notin ReportClosed /\ Begin(r, waiting, "record", r.task)
    /\ UNCHANGED <<dbVars, nodeVars, workerVars, answer, faults, ghostVars>>

\* record_success: complete_task_atomic is one transaction.
RecordSuccess ==
    /\ handler.step = "record"
    /\ handler.outcome = "completed"
    /\ status' = [status EXCEPT ![handler.task] = "completed"]
    /\ results' = [results EXCEPT ![handler.task] = @ + 1]
    /\ nodeStatus' = [nodeStatus EXCEPT ![handler.from] = "online"]
    /\ handler' = [handler EXCEPT !.step = "reply"]
    /\ UNCHANGED <<submitted, failures, retryNotes, fresh, workerVars,
                   callVars, late, faults, ghostVars>>

\* Bugs: the failure at hand is counted as well, or one retry more is granted.
CountsItself(t) == IF retryNotes[t] + 1 >= MaxRetries THEN "abandoned" ELSE "failed"
GrantsOneMore(t) == IF retryNotes[t] > MaxRetries THEN "abandoned" ELSE "failed"

StatusAfterFailure(t) ==
    IF retryNotes[t] >= MaxRetries THEN "abandoned" ELSE "failed"

\* record_failure: fail_task_atomic, then the retry note on its own.
RecordFailure ==
    /\ handler.step = "record"
    /\ handler.outcome = "failed"
    /\ status' = [status EXCEPT ![handler.task] = StatusAfterFailure(handler.task)]
    /\ failures' = [failures EXCEPT ![handler.task] = @ + 1]
    /\ nodeStatus' = [nodeStatus EXCEPT ![handler.from] = "online"]
    /\ handler' = [handler EXCEPT !.step = "note"]
    /\ UNCHANGED <<submitted, results, retryNotes, fresh, workerVars,
                   callVars, late, faults, ghostVars>>

WriteRetryNote ==
    /\ handler.step = "note"
    /\ retryNotes' = [retryNotes EXCEPT ![handler.task] = @ + 1]
    /\ handler' = [handler EXCEPT !.step = "reply"]
    /\ UNCHANGED <<status, submitted, results, failures, nodeVars, workerVars,
                   callVars, late, faults, ghostVars>>

\* handle_register: the node's row, then its first heartbeat, whose database
\* error is swallowed as well.
HandleRegister(r, waiting) ==
    /\ r.kind = "register"
    /\ Accept(r, waiting)
    /\ Begin(r, waiting, "heartbeat", NoTask)
    /\ nodeStatus' = [nodeStatus EXCEPT ![r.from] = "online"]
    /\ UNCHANGED <<dbVars, fresh, workerVars, answer, faults, ghostVars>>

FirstHeartbeat ==
    /\ handler.step = "heartbeat"
    /\ \/ /\ nodeStatus' = [nodeStatus EXCEPT ![handler.from] = "online"]
          /\ fresh' = fresh \cup {handler.from}
          /\ UNCHANGED faults
       \/ Fault /\ UNCHANGED nodeVars
    /\ handler' = [handler EXCEPT !.step = "reply"]
    /\ UNCHANGED <<dbVars, workerVars, callVars, late, ghostVars>>

\* The response reaches the worker if it is still waiting for this request.
\* The body names a task only in an assignment; nobody reads the others.
Reply ==
    /\ handler.step = "reply"
    /\ handler' = Idle
    /\ IF handler.waiting
       THEN /\ call' = [call EXCEPT ![handler.from] = "answered"]
            /\ answer' = [answer EXCEPT ![handler.from] = handler.task]
       ELSE UNCHANGED callVars
    /\ UNCHANGED <<dbVars, nodeVars, workerVars, late, faults, ghostVars>>

\* The process dies, or a statement raises, between two transactions.  What a
\* request refused with a 4xx leaves behind (a result whose signature does not
\* verify) is the same: no row changed, and a call that raises.
HandlerAborts ==
    /\ handler # Idle
    /\ Fault
    /\ handler' = Idle
    /\ call' = IF handler.waiting
               THEN [call EXCEPT ![handler.from] = "broken"] ELSE call
    /\ unnoted' = IF handler.step = "note" /\ status[handler.task] = "failed"
                  THEN [unnoted EXCEPT ![handler.task] = @ + 1] ELSE unnoted
    /\ UNCHANGED <<dbVars, nodeVars, workerVars, answer, late, runs, verdict>>

\* handle_heartbeat; a node's row exists before its worker sends any.
Heartbeat(w) ==
    /\ handler = Idle
    /\ phase[w] \notin {"down", "register"}
    /\ nodeStatus' = [nodeStatus EXCEPT ![w] = "online"]
    /\ fresh' = fresh \cup {w}
    /\ UNCHANGED <<dbVars, handler, workerVars, callVars, late, faults, ghostVars>>

\* 120 s without a heartbeat: of course when down, else a fault.
HeartbeatsMissed(w) ==
    /\ w \in fresh
    /\ fresh' = fresh \ {w}
    /\ \/ phase[w] = "down" /\ UNCHANGED faults
       \/ phase[w] # "down" /\ Fault
    /\ UNCHANGED <<dbVars, nodeStatus, handler, workerVars, callVars, late, ghostVars>>

\* GET /status runs system_status, whose health check takes stale nodes offline.
SystemStatus ==
    /\ handler = Idle
    /\ nodeStatus' = [w \in Workers |->
                         IF nodeStatus[w] = "online" /\ w \notin fresh
                         THEN "offline" ELSE nodeStatus[w]]
    /\ UNCHANGED <<dbVars, fresh, handler, workerVars, callVars, late, faults, ghostVars>>

-----------------------------------------------------------------------------
(***************************************************************************)
(* The workers.                                                            *)
(***************************************************************************)
BeginCall(w, p) ==
    /\ phase' = [phase EXCEPT ![w] = p]
    /\ attempt' = [attempt EXCEPT ![w] = 1]
    /\ call' = [call EXCEPT ![w] = "sent"]
    /\ answer' = [answer EXCEPT ![w] = NoTask]

\* The runtime loop is at phase p, holding t, with no call in progress.
Settle(w, p, t) ==
    /\ phase' = [phase EXCEPT ![w] = p]
    /\ held' = [held EXCEPT ![w] = t]
    /\ outcome' = [outcome EXCEPT ![w] = "none"]
    /\ attempt' = [attempt EXCEPT ![w] = 0]
    /\ call' = [call EXCEPT ![w] = "none"]
    /\ answer' = [answer EXCEPT ![w] = NoTask]

StartWorker(w) ==
    /\ phase[w] = "down"
    /\ BeginCall(w, "register")
    /\ UNCHANGED <<dbVars, nodeVars, handler, held, outcome, late, faults, ghostVars>>

Poll(w) ==
    /\ phase[w] = "idle"
    /\ BeginCall(w, "poll")
    /\ UNCHANGED <<dbVars, nodeVars, handler, held, outcome, late, faults, ghostVars>>

\* Bug: the worker looks for the assignment where the response has none.
CallReturnsUnread(w) ==
    /\ call[w] = "answered"
    /\ Settle(w, "idle", NoTask)
    /\ UNCHANGED <<dbVars, nodeVars, handler, late, faults, ghostVars>>

\* The call returns: registered, an assignment or none, or the result's receipt.
CallReturns(w) ==
    /\ call[w] = "answered"
    /\ \/ phase[w] = "poll" /\ answer[w] # NoTask /\ Settle(w, "execute", answer[w])
       \/ ~(phase[w] = "poll" /\ answer[w] # NoTask) /\ Settle(w, "idle", NoTask)
    /\ UNCHANGED <<dbVars, nodeVars, handler, late, faults, ghostVars>>

\* An assignment whose signature does not verify is dropped without a word to
\* the coordinator.
DiscardAssignment(w) ==
    /\ phase[w] = "poll" /\ call[w] = "answered" /\ answer[w] # NoTask
    /\ Fault
    /\ Settle(w, "idle", NoTask)
    /\ UNCHANGED <<dbVars, nodeVars, handler, late, ghostVars>>

\* _execute_and_report: run the task, then report what came of it.
ExecuteTask(w) ==
    /\ phase[w] = "execute"
    /\ \E o \in {"completed", "failed"} :
          /\ outcome' = [outcome EXCEPT ![w] = o]
          /\ verdict' = [verdict EXCEPT ![held[w]] = o]
    /\ runs' = [runs EXCEPT ![held[w]] = @ + 1]
    /\ BeginCall(w, "report")
    /\ UNCHANGED <<dbVars, nodeVars, handler, held, late, faults, unnoted>>

\* Bug: the exception ends the runtime loop and leaves the process running.
GiveUpForGood(w) == Settle(w, phase[w], NoTask)

\* The call raises: no registration, no assignment, or a result dropped.
GiveUp(w) == Settle(w, IF phase[w] = "register" THEN "down" ELSE "idle", NoTask)

\* Bug: one try too many.
TryOnceMore(w) ==
    \/ /\ attempt[w] <= MaxAttempts
       /\ attempt' = [attempt EXCEPT ![w] = @ + 1]
       /\ call' = [call EXCEPT ![w] = "sent"]
       /\ answer' = [answer EXCEPT ![w] = NoTask]
       /\ UNCHANGED <<phase, held, outcome>>
    \/ /\ attempt[w] > MaxAttempts
       /\ GiveUp(w)

TryAgain(w) ==
    \/ /\ attempt[w] < MaxAttempts
       /\ attempt' = [attempt EXCEPT ![w] = @ + 1]
       /\ call' = [call EXCEPT ![w] = "sent"]
       /\ answer' = [answer EXCEPT ![w] = NoTask]
       /\ UNCHANGED <<phase, held, outcome>>
    \/ /\ attempt[w] >= MaxAttempts
       /\ GiveUp(w)

\* Bug: the response of a try that was given up is taken for the next one's.
HangUpUnnoticed(w) ==
    /\ Fault
    /\ UNCHANGED handler
    /\ \/ UNCHANGED late
       \/ call[w] = "sent" /\ late' = late \cup {CurrentRequest(w)}

\* Nobody at w waits for this try any more.  A request not yet accepted is lost
\* or stays in the server's queue.
HangUp(w) ==
    /\ Fault
    /\ handler' = IF handler.waiting /\ handler.from = w
                  THEN [handler EXCEPT !.waiting = FALSE] ELSE handler
    /\ \/ UNCHANGED late
       \/ call[w] = "sent" /\ late' = late \cup {CurrentRequest(w)}

CallTimesOut(w) ==
    /\ call[w] \in {"sent", "handling", "answered"}
    /\ HangUp(w)
    /\ TryAgain(w)
    /\ UNCHANGED <<dbVars, nodeVars, ghostVars>>

\* The server went away under the request: the client retries a 5xx from a
\* proxy, but a closed connection is an exception it does not catch.
CallBreaks(w) ==
    /\ call[w] = "broken"
    /\ TryAgain(w) \/ GiveUp(w)
    /\ UNCHANGED <<dbVars, nodeVars, handler, late, faults, ghostVars>>

\* The process ends: a crash, or stop() when its join of the loop times out.
WorkerExits(w) ==
    /\ phase[w] # "down"
    /\ HangUp(w)
    /\ Settle(w, "down", NoTask)
    /\ UNCHANGED <<dbVars, nodeVars, ghostVars>>

-----------------------------------------------------------------------------
Serve(r, waiting) ==
    HandlePoll(r, waiting) \/ HandleResult(r, waiting) \/ HandleRegister(r, waiting)

ServeCall(w) == Serve(CurrentRequest(w), TRUE)
ServeLate    == \E r \in late : Serve(r, FALSE)

HandlerStep ==
    \/ Dispatch \/ SetBusy \/ DispatchBlocked
    \/ RecordSuccess \/ RecordFailure \/ WriteRetryNote
    \/ FirstHeartbeat
    \/ Reply

WorkerStep(w) ==
    \/ StartWorker(w) \/ Poll(w) \/ CallReturns(w) \/ ExecuteTask(w)
    \/ CallBreaks(w)

Next ==
    \/ \E t \in Tasks : SubmitTask(t)
    \/ ServeLate
    \/ HandlerStep
    \/ HandlerAborts
    \/ SystemStatus
    \/ \E w \in Workers :
          \/ ServeCall(w) \/ WorkerStep(w)
          \/ Heartbeat(w) \/ HeartbeatsMissed(w)
          \/ CallTimesOut(w) \/ DiscardAssignment(w) \/ WorkerExits(w)

Spec == Init /\ [][Next]_vars

(***************************************************************************)
(* The worker loop and a started handler always go on, the hosting         *)
(* platform starts a worker process again that has ended, the accept queue *)
(* is FIFO, so a request that stays in it is served although others may be *)
(* served first, and the heartbeat thread gets its turn in between.        *)
(* Nothing obliges anybody to submit, time out or ask for the status.      *)
(***************************************************************************)
Fairness ==
    /\ WF_vars(HandlerStep)
    /\ \A w \in Workers : /\ WF_vars(WorkerStep(w))
                          /\ SF_vars(ServeCall(w))
                          /\ SF_vars(Heartbeat(w))

FairSpec == Spec /\ Fairness

-----------------------------------------------------------------------------
(***************************************************************************)
(* Safety.                                                                 *)
(***************************************************************************)

\* A task has exactly one result record if it is completed and none before:
\* the retried, late and repeated reports of one execution are recorded once,
\* and the row and its record are never seen apart (complete_task_atomic).
ExactlyOneResult ==
    \A t \in Tasks : results[t] = IF status[t] = "completed" THEN 1 ELSE 0

\* What the coordinator believes is what the execution produced, whichever of
\* a report's copies arrives and whenever.
BeliefIsTruth ==
    \A t \in Tasks :
       /\ status[t] = "completed" => verdict[t] = "completed"
       /\ status[t] \in {"failed", "abandoned"} => verdict[t] = "failed"

\* Polls are GETs with a side effect that the client repeats; still no task is
\* ever executed twice, and never one the coordinator has not handed out.
AtMostOneRun ==
    \A t \in Tasks : /\ runs[t] <= 1
                     /\ runs[t] = 1 => status[t] \notin {"absent", "pending", "blocked"}

NoteDue(t) == IF handler.step = "note" /\ handler.task = t THEN 1 ELSE 0

\* A task is abandoned by its failure number MaxRetries + 1 and by no other, a
\* failure not counting when the handler died between the failure record and
\* the retry note it owed.  Until then the notes that decide about it account
\* for every failure record: the note is there, or about to be written, or was
\* lost with its handler.
RetryAccounting ==
    \A t \in Tasks :
       /\ status[t] = "failed" => failures[t] = retryNotes[t] + NoteDue(t) + unnoted[t]
       /\ status[t] = "abandoned" <=> failures[t] > MaxRetries + unnoted[t]
       /\ failures[t] <= MaxRetries + 1 + unnoted[t]

\* A completed, abandoned or blocked task is never touched again: no status
\* change, no further result or failure record, whatever is still in flight.
FinalIsFinal ==
    [][\A t \in Tasks : status[t] \in {"completed", "abandoned", "blocked"} =>
          /\ status'[t] = status[t]
          /\ results'[t] = results[t]
          /\ failures'[t] = failures[t]]_vars

Board == INSTANCE TaskBoard

\* Seen from the tables alone the protocol is the task board.
ImplementsTaskBoard == Board!Spec

-----------------------------------------------------------------------------
(***************************************************************************)
(* The inductive invariant behind the safety properties.                   *)
(***************************************************************************)

\* The handler's steps carry what they need.
HandlerInv ==
    /\ handler.step = "idle" <=> handler = Idle
    /\ handler.step # "idle" => handler.from \in Workers
    /\ handler.step \in {"dispatch", "busy", "record", "note"} => handler.task \in Tasks
    /\ handler.step = "busy" => handler.node \in Workers

\* A response can only go to the call that is waiting for it, made at the
\* phase that the handler's step belongs to.
CallInv ==
    /\ \A w \in Workers :
          /\ call[w] # "none" => phase[w] \in Calling
          /\ call[w] = "handling" <=> handler.waiting /\ handler.from = w
          /\ phase[w] \in {"execute", "report"} => held[w] \in Tasks
    /\ handler.waiting =>
          /\ handler.step # "idle"
          /\ handler.step \in {"dispatch", "busy"} => phase[handler.from] = "poll"
          /\ handler.step \in {"record", "note"} => phase[handler.from] = "report"
          /\ handler.step = "heartbeat" => phase[handler.from] = "register"

\* Worker w holds the only chance of task t to be executed: it is executing it,
\* or the assignment is on its way to it.
Carries(w, t) ==
    \/ phase[w] = "execute" /\ held[w] = t
    \/ phase[w] = "poll" /\ call[w] = "answered" /\ answer[w] = t
    \/ /\ phase[w] = "poll" /\ handler.waiting /\ handler.from = w
       /\ handler.step \in {"busy", "reply"} /\ handler.task = t

CarryInv ==
    \A t \in Tasks : \A w \in Workers : Carries(w, t) =>
        /\ status[t] = "dispatched"
        /\ runs[t] = 0
        /\ \A v \in Workers : Carries(v, t) => v = w

\* Every copy of a report, sent, queued or being recorded, says what the one
\* execution of its task produced; a task being dispatched is still pending
\* and a task being recorded is still open, for the server is serial.
ReportInv ==
    /\ \A w \in Workers : phase[w] = "report" =>
          outcome[w] = verdict[held[w]] /\ outcome[w] # "none"
    /\ \A r \in late : r.kind = "report" =>
          r.task \in Tasks /\ r.outcome = verdict[r.task] /\ r.outcome # "none"
    /\ handler.step = "dispatch" => status[handler.task] = "pending"
    /\ handler.step = "record" =>
          /\ handler.outcome = verdict[handler.task] /\ handler.outcome # "none"
          /\ status[handler.task] \notin ReportClosed

\* What the rows of one task say about each other.
RowInv ==
    \A t \in Tasks :
        /\ runs[t] \in {0, 1}
        /\ runs[t] = 0 <=> verdict[t] = "none"
        /\ runs[t] = 1 => status[t] \in {"dispatched", "completed", "failed", "abandoned"}
        /\ status[t] = "completed" => verdict[t] = "completed"
        /\ status[t] \in {"failed", "abandoned"} => verdict[t] = "failed"
        /\ results[t] = IF status[t] = "completed" THEN 1 ELSE 0

RetryInv ==
    \A t \in Tasks :
        /\ status[t] \notin {"failed", "abandoned"} =>
              retryNotes[t] = 0 /\ NoteDue(t) = 0 /\ unnoted[t] = 0
        /\ status[t] \in {"absent", "pending", "dispatched", "completed"} => failures[t] = 0
        /\ status[t] = "blocked" => failures[t] = 1
        /\ status[t] = "failed" =>
              /\ retryNotes[t] + NoteDue(t) <= MaxRetries
              /\ failures[t] = retryNotes[t] + NoteDue(t) + unnoted[t]
        /\ status[t] = "abandoned" => failures[t] = MaxRetries + 1 + unnoted[t]

IInv == TypeOK /\ HandlerInv /\ CallInv /\ CarryInv /\ ReportInv /\ RowInv /\ RetryInv

-----------------------------------------------------------------------------
(***************************************************************************)
(* Liveness.                                                               *)
(***************************************************************************)

\* As long as workers come back and polls go on, no pending task is passed over
\* for ever.
PendingIsTakenUp ==
    \A t \in Tasks : (status[t] = "pending") ~> (status[t] # "pending")

\* If no fault happens every task handed out is reported and the report recorded.
DispatchedIsResolved ==
    [](faults = 0) =>
       \A t \in Tasks : (status[t] = "dispatched") ~> (status[t] # "dispatched")
=============================================================================
