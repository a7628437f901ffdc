--------------------------- MODULE GridMasterProofs ---------------------------
EXTENDS GridMaster, TLAPS

USE ConstantsOK

LEMMA IdleHandler == Idle \in Handlers
  BY DEF Idle, Handlers, Steps, Outcomes

LEMMA InitIInv == Init => IInv
<1> SUFFICES ASSUME Init PROVE IInv
  OBVIOUS
<1> USE DEF Init, Idle
<1>1. TypeOK
  BY IdleHandler DEF TypeOK, Statuses, Phases, Outcomes
<1>2. HandlerInv /\ CallInv /\ CarryInv /\ ReportInv
  BY DEF HandlerInv, CallInv, CarryInv, Carries, ReportInv
<1>3. RowInv /\ RetryInv
  BY DEF RowInv, RetryInv, NoteDue
<1>4. QED
  BY <1>1, <1>2, <1>3 DEF IInv

LEMMA ServedRequest ==
  ASSUME IInv, NEW w \in Workers, call[w] = "sent"
  PROVE  CurrentRequest(w) \in Requests
  BY DEF IInv, TypeOK, CallInv, CurrentRequest, Requests, Calling

LEMMA BeginHandler ==
  ASSUME NEW r \in Requests, NEW waiting \in BOOLEAN, NEW step \in Steps,
         NEW t \in Tasks \cup {NoTask}, Begin(r, waiting, step, t)
  PROVE  handler' \in Handlers
  BY DEF Begin, Requests, Handlers

LEMMA TypeServe ==
  ASSUME IInv, NEW r \in Requests, NEW waiting \in BOOLEAN, Serve(r, waiting)
  PROVE  TypeOK'
<1> USE DEF IInv, TypeOK, dbVars, nodeVars, workerVars, ghostVars
<1>1. CASE HandlePoll(r, waiting)
  <2>1. handler' \in Handlers
    BY <1>1, BeginHandler DEF HandlePoll, Steps
  <2>2. call' \in [Workers -> {"none", "sent", "handling", "answered", "broken"}]
        /\ late' \in SUBSET Requests
    BY <1>1 DEF HandlePoll, Accept
  <2>3. QED BY <1>1, <2>1, <2>2 DEF HandlePoll
<1>2. CASE HandleResult(r, waiting)
  <2>1. handler' \in Handlers
    BY <1>2, BeginHandler DEF HandleResult, Steps, Requests
  <2>2. call' \in [Workers -> {"none", "sent", "handling", "answered", "broken"}]
        /\ late' \in SUBSET Requests
    BY <1>2 DEF HandleResult, Accept
  <2>3. QED BY <1>2, <2>1, <2>2 DEF HandleResult
<1>3. CASE HandleRegister(r, waiting)
  <2>1. handler' \in Handlers
    BY <1>3, BeginHandler DEF HandleRegister, Steps
  <2>2. call' \in [Workers -> {"none", "sent", "handling", "answered", "broken"}]
        /\ late' \in SUBSET Requests
    BY <1>3 DEF HandleRegister, Accept
  <2>3. QED BY <1>3, <2>1, <2>2 DEF HandleRegister
<1>4. QED
  BY <1>1, <1>2, <1>3 DEF Serve

LEMMA HandlerStepHandler ==
  ASSUME IInv, HandlerStep
  PROVE  handler' \in Handlers
<1> USE DEF IInv, TypeOK, Handlers, Steps
<1>1. CASE Dispatch
  BY <1>1 DEF Dispatch, AvailableNodes
<1>2. CASE SetBusy
  BY <1>2 DEF SetBusy
<1>3. CASE DispatchBlocked
  BY <1>3 DEF DispatchBlocked
<1>4. CASE RecordSuccess
  BY <1>4 DEF RecordSuccess
<1>5. CASE RecordFailure
  BY <1>5 DEF RecordFailure
<1>6. CASE WriteRetryNote
  BY <1>6 DEF WriteRetryNote
<1>7. CASE FirstHeartbeat
  BY <1>7 DEF FirstHeartbeat
<1>8. CASE Reply
  BY <1>8, IdleHandler DEF Reply
<1>9. QED
  BY <1>1, <1>2, <1>3, <1>4, <1>5, <1>6, <1>7, <1>8 DEF HandlerStep

LEMMA TypeHandlerStep ==
  ASSUME TypeOK, HandlerInv, HandlerStep, handler' \in Handlers
  PROVE  TypeOK'
<1> USE DEF dbVars, nodeVars, workerVars, callVars, ghostVars
<1>1. CASE Dispatch
  <2>1. handler.task \in Tasks
    BY <1>1 DEF Dispatch, HandlerInv
  <2>2. QED BY <1>1, <2>1 DEF Dispatch, TypeOK, Statuses
<1>2. CASE SetBusy
  <2>1. handler.node \in Workers
    BY <1>2 DEF SetBusy, HandlerInv
  <2>2. faults' \in 0..MaxFaults
    BY <1>2 DEF SetBusy, Fault, TypeOK
  <2>3. nodeStatus' \in [Workers -> {"unregistered", "online", "busy", "offline"}]
    BY <1>2, <2>1 DEF SetBusy, TypeOK
  <2>4. QED BY <1>2, <2>2, <2>3 DEF SetBusy, TypeOK
<1>3. CASE DispatchBlocked
  <2>1. handler.task \in Tasks
    BY <1>3 DEF DispatchBlocked, HandlerInv
  <2>2. status' \in [Tasks -> Statuses]
    BY <1>3, <2>1 DEF DispatchBlocked, TypeOK, Statuses
  <2>3. failures' \in [Tasks -> Nat]
    <3>1. failures \in [Tasks -> Nat]
      BY DEF TypeOK
    <3>2. failures' = [failures EXCEPT ![handler.task] = failures[handler.task] + 1]
      BY <1>3 DEF DispatchBlocked
    <3>3. QED
      BY <2>1, <3>1, <3>2, SMTT(30)
  <2>4. QED BY <1>3, <2>2, <2>3 DEF DispatchBlocked, TypeOK
<1>4. CASE RecordSuccess
  <2>1. handler.task \in Tasks /\ handler.from \in Workers
    BY <1>4 DEF RecordSuccess, HandlerInv
  <2>2. status' \in [Tasks -> Statuses]
    BY <1>4, <2>1 DEF RecordSuccess, TypeOK, Statuses
  <2>3. results' \in [Tasks -> Nat]
    <3>1. results \in [Tasks -> Nat]
      BY DEF TypeOK
    <3>2. results' = [results EXCEPT ![handler.task] = results[handler.task] + 1]
      BY <1>4 DEF RecordSuccess
    <3>3. QED
      BY <2>1, <3>1, <3>2, SMTT(30)
  <2>4. nodeStatus' \in [Workers -> {"unregistered", "online", "busy", "offline"}]
    BY <1>4, <2>1 DEF RecordSuccess, TypeOK
  <2>5. QED BY <1>4, <2>2, <2>3, <2>4 DEF RecordSuccess, TypeOK
<1>5. CASE RecordFailure
  <2>1. handler.task \in Tasks /\ handler.from \in Workers
    BY <1>5 DEF RecordFailure, HandlerInv
  <2>2. status' \in [Tasks -> Statuses]
    BY <1>5, <2>1 DEF RecordFailure, StatusAfterFailure, TypeOK, Statuses
  <2>3. failures' \in [Tasks -> Nat]
    <3>1. failures \in [Tasks -> Nat]
      BY DEF TypeOK
    <3>2. failures' = [failures EXCEPT ![handler.task] = failures[handler.task] + 1]
      BY <1>5 DEF RecordFailure
    <3>3. QED
      BY <2>1, <3>1, <3>2, SMTT(30)
  <2>4. nodeStatus' \in [Workers -> {"unregistered", "online", "busy", "offline"}]
    BY <1>5, <2>1 DEF RecordFailure, TypeOK
  <2>5. QED BY <1>5, <2>2, <2>3, <2>4 DEF RecordFailure, TypeOK
<1>6. CASE WriteRetryNote
  <2>1. handler.task \in Tasks
    BY <1>6 DEF WriteRetryNote, HandlerInv
  <2>2. retryNotes' \in [Tasks -> Nat]
    BY <1>6, <2>1 DEF WriteRetryNote, TypeOK
  <2>3. QED BY <1>6, <2>2 DEF WriteRetryNote, TypeOK
<1>7. CASE FirstHeartbeat
  <2>1. handler.from \in Workers
    BY <1>7 DEF FirstHeartbeat, HandlerInv
  <2>2. faults' \in 0..MaxFaults
    BY <1>7 DEF FirstHeartbeat, Fault, TypeOK
  <2>3. /\ nodeStatus' \in [Workers -> {"unregistered", "online", "busy", "offline"}]
        /\ fresh' \in SUBSET Workers
    BY <1>7, <2>1 DEF FirstHeartbeat, TypeOK
  <2>4. QED BY <1>7, <2>2, <2>3 DEF FirstHeartbeat, TypeOK
<1>8. CASE Reply
  <2>1. call' \in [Workers -> {"none", "sent", "handling", "answered", "broken"}]
    BY <1>8 DEF Reply, TypeOK
  <2>2. answer' \in [Workers -> Tasks \cup {NoTask}]
    BY <1>8 DEF Reply, TypeOK, Handlers
  <2>3. QED BY <1>8, <2>1, <2>2 DEF Reply, TypeOK
<1>9. QED
  BY <1>1, <1>2, <1>3, <1>4, <1>5, <1>6, <1>7, <1>8 DEF HandlerStep

LEMMA TypeSettle ==
  ASSUME TypeOK, NEW w \in Workers, NEW p \in Phases, NEW t \in Tasks \cup {NoTask},
         Settle(w, p, t)
  PROVE  /\ phase' \in [Workers -> Phases]
         /\ held' \in [Workers -> Tasks \cup {NoTask}]
         /\ outcome' \in [Workers -> Outcomes]
         /\ attempt' \in [Workers -> 0..MaxAttempts]
         /\ call' \in [Workers -> {"none", "sent", "handling", "answered", "broken"}]
         /\ answer' \in [Workers -> Tasks \cup {NoTask}]
  BY DEF TypeOK, Settle, Outcomes

LEMMA TypeCallEnds ==
  ASSUME IInv, NEW w \in Workers, TryAgain(w) \/ GiveUp(w)
  PROVE  /\ phase' \in [Workers -> Phases]
         /\ held' \in [Workers -> Tasks \cup {NoTask}]
         /\ outcome' \in [Workers -> Outcomes]
         /\ attempt' \in [Workers -> 0..MaxAttempts]
         /\ call' \in [Workers -> {"none", "sent", "handling", "answered", "broken"}]
         /\ answer' \in [Workers -> Tasks \cup {NoTask}]
<1>0. TypeOK
  BY DEF IInv
<1>1. CASE GiveUp(w)
  BY <1>0, <1>1, TypeSettle DEF GiveUp, Phases
<1>2. CASE TryAgain(w) /\ ~GiveUp(w)
  <2>1. attempt[w] + 1 \in 0..MaxAttempts
    BY <1>0, <1>2 DEF TypeOK, TryAgain
  <2>2. attempt' \in [Workers -> 0..MaxAttempts]
    BY <1>0, <1>2, <2>1 DEF TypeOK, TryAgain
  <2>3. QED
    BY <1>0, <1>2, <2>2 DEF TypeOK, TryAgain
<1>3. QED
  BY <1>1, <1>2

LEMMA TypeHangUp ==
  ASSUME IInv, NEW w \in Workers, HangUp(w)
  PROVE  handler' \in Handlers /\ late' \in SUBSET Requests /\ faults' \in 0..MaxFaults
<1>1. handler' \in Handlers
  BY DEF IInv, TypeOK, HangUp, Handlers
<1>2. late' \in SUBSET Requests
  <2>1. late \in SUBSET Requests
    BY DEF IInv, TypeOK
  <2>2. \/ late' = late
        \/ call[w] = "sent" /\ late' = late \cup {CurrentRequest(w)}
    BY DEF HangUp
  <2>3. QED BY <2>1, <2>2, ServedRequest
<1>3. faults' \in 0..MaxFaults
  BY DEF IInv, TypeOK, HangUp, Fault
<1>4. QED
  BY <1>1, <1>2, <1>3

LEMMA TypeBeginCall ==
  ASSUME TypeOK, NEW w \in Workers, NEW p \in Phases, BeginCall(w, p)
  PROVE  /\ phase' \in [Workers -> Phases]
         /\ attempt' \in [Workers -> 0..MaxAttempts]
         /\ call' \in [Workers -> {"none", "sent", "handling", "answered", "broken"}]
         /\ answer' \in [Workers -> Tasks \cup {NoTask}]
  BY DEF TypeOK, BeginCall

LEMMA TypeWorkerStep ==
  ASSUME IInv, NEW w \in Workers, WorkerStep(w)
  PROVE  TypeOK'
<1> USE DEF dbVars, nodeVars, ghostVars, Phases
<1>0. TypeOK /\ CallInv
  BY DEF IInv
<1>1. CASE StartWorker(w)
  BY <1>0, <1>1, TypeBeginCall DEF StartWorker, TypeOK
<1>2. CASE Poll(w)
  BY <1>0, <1>2, TypeBeginCall DEF Poll, TypeOK
<1>3. CASE CallReturns(w)
  <2>1. \E p \in Phases, t \in Tasks \cup {NoTask} : Settle(w, p, t)
    BY <1>0, <1>3 DEF CallReturns, TypeOK
  <2>2. QED BY <1>0, <1>3, <2>1, TypeSettle DEF CallReturns, TypeOK
<1>4. CASE ExecuteTask(w)
  <2>1. held[w] \in Tasks
    BY <1>0, <1>4 DEF ExecuteTask, CallInv
  <2>2. outcome' \in [Workers -> Outcomes] /\ verdict' \in [Tasks -> Outcomes]
    BY <1>0, <1>4, <2>1 DEF ExecuteTask, TypeOK, Outcomes
  <2>3. runs' \in [Tasks -> Nat]
    BY <1>0, <1>4, <2>1 DEF ExecuteTask, TypeOK
  <2>4. QED BY <1>0, <1>4, <2>2, <2>3, TypeBeginCall DEF ExecuteTask, TypeOK
<1>5. CASE CallBreaks(w)
  BY <1>0, <1>5, TypeCallEnds DEF CallBreaks, TypeOK
<1>6. QED
  BY <1>1, <1>2, <1>3, <1>4, <1>5 DEF WorkerStep

LEMMA TypeStep == IInv /\ [Next]_vars => TypeOK'
<1> SUFFICES ASSUME IInv, [Next]_vars PROVE TypeOK'
  OBVIOUS
<1> USE DEF dbVars, nodeVars, workerVars, callVars, ghostVars
<1>0. TypeOK /\ HandlerInv /\ CallInv
  BY DEF IInv
<1>1. ASSUME NEW t \in Tasks, SubmitTask(t) PROVE TypeOK'
  <2>1. status' \in [Tasks -> Statuses]
    BY <1>0, <1>1 DEF SubmitTask, TypeOK, Statuses
  <2>2. submitted' \in Seq(Tasks)
    <3>1. submitted \in Seq(Tasks) /\ submitted' = Append(submitted, t)
      BY <1>0, <1>1 DEF SubmitTask, TypeOK
    <3>2. QED BY <3>1
  <2>3. QED BY <1>0, <1>1, <2>1, <2>2 DEF SubmitTask, TypeOK
<1>2. CASE ServeLate
  BY <1>0, <1>2, TypeServe DEF ServeLate, TypeOK
<1>3. CASE HandlerStep
  BY <1>0, <1>3, HandlerStepHandler, TypeHandlerStep
<1>4. CASE HandlerAborts
  <2>1. call' \in [Workers -> {"none", "sent", "handling", "answered", "broken"}]
    BY <1>0, <1>4 DEF HandlerAborts, TypeOK
  <2>2. faults' \in 0..MaxFaults
    BY <1>0, <1>4 DEF HandlerAborts, Fault, TypeOK
  <2>3. unnoted' \in [Tasks -> Nat]
    <3>1. unnoted \in [Tasks -> Nat] /\ (handler.step = "note" => handler.task \in Tasks)
      BY <1>0 DEF HandlerInv, TypeOK
    <3>2. \/ unnoted' = unnoted
          \/ /\ handler.step = "note"
             /\ unnoted' = [unnoted EXCEPT ![handler.task] = unnoted[handler.task] + 1]
      BY <1>4 DEF HandlerAborts
    <3>3. QED BY <3>1, <3>2, SMTT(30)
  <2>4. QED BY <1>0, <1>4, <2>1, <2>2, <2>3, IdleHandler DEF HandlerAborts, TypeOK
<1>5. CASE SystemStatus
  BY <1>0, <1>5 DEF SystemStatus, TypeOK
<1>6. ASSUME NEW w \in Workers, ServeCall(w) PROVE TypeOK'
  <2>1. call[w] = "sent"
    BY <1>6 DEF ServeCall, Serve, HandlePoll, HandleResult, HandleRegister,
                Accept, CurrentRequest
  <2>2. QED BY <1>6, <2>1, ServedRequest, TypeServe DEF ServeCall
<1>7. ASSUME NEW w \in Workers, WorkerStep(w) PROVE TypeOK'
  BY <1>7, TypeWorkerStep
<1>8. ASSUME NEW w \in Workers, Heartbeat(w) PROVE TypeOK'
  BY <1>0, <1>8 DEF Heartbeat, TypeOK
<1>9. ASSUME NEW w \in Workers, HeartbeatsMissed(w) PROVE TypeOK'
  BY <1>0, <1>9 DEF HeartbeatsMissed, Fault, TypeOK
<1>10. ASSUME NEW w \in Workers, CallTimesOut(w) PROVE TypeOK'
  <2>1. HangUp(w) /\ TryAgain(w)
    BY <1>10 DEF CallTimesOut
  <2>2. QED BY <1>0, <1>10, <2>1, TypeHangUp, TypeCallEnds DEF CallTimesOut, TypeOK
<1>11. ASSUME NEW w \in Workers, WorkerExits(w) PROVE TypeOK'
  <2>1. HangUp(w) /\ Settle(w, "down", NoTask)
    BY <1>11 DEF WorkerExits
  <2>2. QED BY <1>0, <1>11, <2>1, TypeHangUp, TypeSettle
            DEF WorkerExits, TypeOK, Phases
<1>12. ASSUME NEW w \in Workers, DiscardAssignment(w) PROVE TypeOK'
  <2>1. Settle(w, "idle", NoTask) /\ faults' \in 0..MaxFaults
    BY <1>0, <1>12 DEF DiscardAssignment, Fault, TypeOK
  <2>2. QED BY <1>0, <1>12, <2>1, TypeSettle DEF DiscardAssignment, TypeOK, Phases
<1>13. CASE UNCHANGED vars
  BY <1>0, <1>13 DEF vars, TypeOK
<1>14. QED
  BY <1>1, <1>2, <1>3, <1>4, <1>5, <1>6, <1>7, <1>8, <1>9, <1>10, <1>11, <1>12, <1>13
     DEF Next

-----------------------------------------------------------------------------
\* What a handler's step does to the record of the request in progress.
HandlerGoes(before, after) ==
    /\ handler.step = before
    /\ handler'.step = after
    /\ handler'.from = handler.from
    /\ handler'.outcome = handler.outcome
    /\ handler'.waiting = handler.waiting

LEMMA HandlerEffects ==
  ASSUME TypeOK, HandlerInv
  PROVE  /\ Dispatch => /\ HandlerGoes("dispatch", "busy")
                        /\ handler'.task = handler.task
                        /\ handler'.node \in Workers
         /\ SetBusy => HandlerGoes("busy", "reply") /\ handler'.task = handler.task
         /\ DispatchBlocked => HandlerGoes("dispatch", "reply") /\ handler'.task = NoTask
         /\ RecordSuccess => HandlerGoes("record", "reply") /\ handler'.task = handler.task
         /\ RecordFailure => HandlerGoes("record", "note") /\ handler'.task = handler.task
         /\ WriteRetryNote => HandlerGoes("note", "reply") /\ handler'.task = handler.task
         /\ FirstHeartbeat => HandlerGoes("heartbeat", "reply") /\ handler'.task = handler.task
<1> USE DEF TypeOK, Handlers, HandlerGoes
<1>1. ASSUME Dispatch
      PROVE  /\ HandlerGoes("dispatch", "busy")
             /\ handler'.task = handler.task
             /\ handler'.node \in Workers
  <2>1. PICK n \in Workers : handler' = [handler EXCEPT !.step = "busy", !.node = n]
    BY <1>1 DEF Dispatch, AvailableNodes
  <2>2. QED BY <1>1, <2>1 DEF Dispatch
<1>2. SetBusy => HandlerGoes("busy", "reply") /\ handler'.task = handler.task
  BY DEF SetBusy
<1>3. DispatchBlocked => HandlerGoes("dispatch", "reply") /\ handler'.task = NoTask
  BY DEF DispatchBlocked
<1>4. RecordSuccess => HandlerGoes("record", "reply") /\ handler'.task = handler.task
  BY DEF RecordSuccess
<1>5. RecordFailure => HandlerGoes("record", "note") /\ handler'.task = handler.task
  BY DEF RecordFailure
<1>6. WriteRetryNote => HandlerGoes("note", "reply") /\ handler'.task = handler.task
  BY DEF WriteRetryNote
<1>7. FirstHeartbeat => HandlerGoes("heartbeat", "reply") /\ handler'.task = handler.task
  BY DEF FirstHeartbeat
<1>8. QED
  BY <1>1, <1>2, <1>3, <1>4, <1>5, <1>6, <1>7

\* The handler only ever goes from one of its steps to the next.
LEMMA HandlerStepInv ==
  ASSUME TypeOK, HandlerInv, HandlerStep
  PROVE  HandlerInv'
<1> USE DEF HandlerInv, HandlerGoes
<1>1. CASE Reply
  BY <1>1 DEF Reply, Idle
<1>2. CASE ~Reply
  <2>1. handler'.step # "idle" /\ handler'.from = handler.from /\ handler.step # "idle"
    BY <1>2, HandlerEffects DEF HandlerStep
  <2>2. handler'.step = "busy" => handler'.node \in Workers
    BY <1>2, HandlerEffects DEF HandlerStep
  <2>3. handler'.step \in {"dispatch", "busy", "record", "note"} => handler'.task \in Tasks
    BY <1>2, HandlerEffects DEF HandlerStep
  <2>4. QED BY <2>1, <2>2, <2>3 DEF Idle
<1>3. QED
  BY <1>1, <1>2

\* A report that is served names a task, and what its execution produced.
LEMMA ServedReport ==
  ASSUME IInv, NEW r \in Requests, NEW waiting \in BOOLEAN,
         Accept(r, waiting), r.kind = "report"
  PROVE  r.task \in Tasks /\ r.outcome = verdict[r.task] /\ r.outcome # "none"
<1>1. CASE waiting
  <2>1. /\ r.from \in Workers /\ phase[r.from] = "report"
        /\ r.task = held[r.from] /\ r.outcome = outcome[r.from]
    BY <1>1 DEF Accept, CurrentRequest, Requests
  <2>2. QED
    BY <2>1 DEF IInv, CallInv, ReportInv
<1>2. CASE ~waiting
  BY <1>2 DEF Accept, IInv, ReportInv
<1>3. QED
  BY <1>1, <1>2

LEMMA ServeHandlerInv ==
  ASSUME IInv, NEW r \in Requests, NEW waiting \in BOOLEAN, Serve(r, waiting)
  PROVE  HandlerInv'
<1> USE DEF Begin, Requests, HandlerInv, Idle
<1>1. CASE HandlePoll(r, waiting)
  BY <1>1 DEF HandlePoll
<1>2. CASE HandleResult(r, waiting)
  BY <1>2, ServedReport DEF HandleResult
<1>3. CASE HandleRegister(r, waiting)
  BY <1>3 DEF HandleRegister
<1>4. QED
  BY <1>1, <1>2, <1>3 DEF Serve

LEMMA HangUpEffects ==
  ASSUME TypeOK, NEW w \in Workers, HangUp(w)
  PROVE  /\ handler'.step = handler.step /\ handler'.from = handler.from
         /\ handler'.task = handler.task /\ handler'.node = handler.node
         /\ handler'.outcome = handler.outcome
         /\ handler'.waiting => handler.waiting /\ handler.from # w
         /\ handler.waiting /\ handler.from # w => handler'.waiting
         /\ handler = Idle => handler' = Idle
<1> USE DEF TypeOK, Handlers, HangUp, Idle
<1>1. CASE handler.waiting /\ handler.from = w
  <2>1. handler' = [handler EXCEPT !.waiting = FALSE]
    BY <1>1
  <2>2. ~handler'.waiting
    BY <2>1
  <2>3. handler # Idle
    BY <1>1
  <2>4. QED BY <1>1, <2>1, <2>2, <2>3
<1>2. CASE ~(handler.waiting /\ handler.from = w)
  <2>1. handler' = handler
    BY <1>2
  <2>2. QED BY <1>2, <2>1
<1>3. QED
  BY <1>1, <1>2

\* Nothing but a request that is being accepted starts a handler.
LEMMA HandlerInvStep == IInv /\ [Next]_vars => HandlerInv'
<1> SUFFICES ASSUME IInv, [Next]_vars PROVE HandlerInv'
  OBVIOUS
<1>0. TypeOK /\ HandlerInv
  BY DEF IInv
<1>1. CASE ServeLate
  BY <1>0, <1>1, ServeHandlerInv DEF ServeLate, TypeOK
<1>2. CASE HandlerStep
  BY <1>0, <1>2, HandlerStepInv
<1>3. CASE HandlerAborts
  BY <1>3 DEF HandlerAborts, HandlerInv, Idle
<1>4. ASSUME NEW w \in Workers, ServeCall(w) PROVE HandlerInv'
  <2>1. call[w] = "sent"
    BY <1>4 DEF ServeCall, Serve, HandlePoll, HandleResult, HandleRegister,
                Accept, CurrentRequest
  <2>2. QED BY <1>4, <2>1, ServedRequest, ServeHandlerInv DEF ServeCall
<1>5. ASSUME NEW w \in Workers, HangUp(w) PROVE HandlerInv'
  BY <1>0, <1>5, HangUpEffects DEF HandlerInv, Idle
<1>6. ASSUME UNCHANGED handler PROVE HandlerInv'
  BY <1>0, <1>6 DEF HandlerInv, Idle
<1>7. QED
  BY <1>1, <1>2, <1>3, <1>4, <1>5, <1>6
     DEF Next, vars, SubmitTask, SystemStatus, Heartbeat, HeartbeatsMissed,
         CallTimesOut, DiscardAssignment, WorkerExits, WorkerStep, StartWorker, Poll,
         CallReturns, ExecuteTask, CallBreaks

\* Accepting a request ties the handler to its call, or to nobody's.
LEMMA ServeCallInv ==
  ASSUME IInv, NEW r \in Requests, NEW waiting \in BOOLEAN, Serve(r, waiting)
  PROVE  CallInv'
<1>0. TypeOK /\ HandlerInv /\ CallInv
  BY DEF IInv
<1>1. r.from \in Workers /\ ~handler.waiting /\ UNCHANGED <<phase, held>>
  BY DEF Serve, HandlePoll, HandleResult, HandleRegister, Accept, Idle, Requests,
         workerVars
<1>2. /\ handler'.from = r.from
      /\ handler'.waiting = waiting
      /\ handler'.step # "idle"
      /\ handler'.step \in {"dispatch", "busy"} => r.kind = "poll"
      /\ handler'.step \in {"record", "note"} => r.kind = "report"
      /\ handler'.step = "heartbeat" => r.kind = "register"
  BY DEF Serve, HandlePoll, HandleResult, HandleRegister, Begin
<1>3. CASE waiting
  <2>1. /\ call[r.from] = "sent" /\ r.kind = phase[r.from]
        /\ call' = [call EXCEPT ![r.from] = "handling"]
    <3>1. Accept(r, waiting)
      BY DEF Serve, HandlePoll, HandleResult, HandleRegister
    <3>2. r = CurrentRequest(r.from)
      BY <1>3, <3>1 DEF Accept
    <3>3. r.kind = phase[r.from]
      BY <3>2 DEF CurrentRequest
    <3>4. QED BY <1>3, <3>1, <3>3 DEF Accept
  <2>2. QED BY <1>0, <1>1, <1>2, <1>3, <2>1 DEF TypeOK, CallInv, Calling
<1>4. CASE ~waiting
  <2>1. UNCHANGED call
    BY <1>4 DEF Serve, HandlePoll, HandleResult, HandleRegister, Accept
  <2>2. QED BY <1>0, <1>1, <1>2, <1>4, <2>1 DEF TypeOK, CallInv, Calling
<1>5. QED
  BY <1>3, <1>4

LEMMA HandlerCallInv ==
  ASSUME IInv, HandlerStep
  PROVE  CallInv'
<1>0. TypeOK /\ HandlerInv /\ CallInv
  BY DEF IInv
<1>1. CASE Reply
  <2>1. CASE handler.waiting
    <3>1. /\ handler.from \in Workers /\ ~handler'.waiting
          /\ call' = [call EXCEPT ![handler.from] = "answered"]
          /\ UNCHANGED <<phase, held>>
      BY <1>0, <1>1, <2>1 DEF Reply, HandlerInv, Idle, workerVars
    <3>2. QED BY <1>0, <2>1, <3>1 DEF TypeOK, CallInv, Calling
  <2>2. CASE ~handler.waiting
    BY <1>0, <1>1, <2>2 DEF Reply, CallInv, Idle, workerVars, callVars
  <2>3. QED BY <2>1, <2>2
<1>2. CASE ~Reply
  <2>1. UNCHANGED <<phase, held, call>>
    BY <1>2 DEF HandlerStep, Dispatch, SetBusy, DispatchBlocked, RecordSuccess,
                RecordFailure, WriteRetryNote, FirstHeartbeat, workerVars, callVars
  <2>2. /\ handler'.from = handler.from /\ handler'.waiting = handler.waiting
        /\ handler'.step \notin {"idle", "dispatch", "record", "heartbeat"}
        /\ handler'.step = "busy" => handler.step = "dispatch"
        /\ handler'.step = "note" => handler.step = "record"
    BY <1>0, <1>2, HandlerEffects DEF HandlerStep, HandlerGoes
  <2>3. QED BY <1>0, <2>1, <2>2 DEF CallInv
<1>3. QED
  BY <1>1, <1>2

\* What ending a call or a process leaves of it.
LEMMA SettleCallInv ==
  ASSUME IInv, NEW w \in Workers, NEW p \in Phases, NEW t \in Tasks \cup {NoTask},
         Settle(w, p, t), p = "execute" => t \in Tasks, p \notin Calling,
         handler'.waiting => handler.waiting /\ handler.from # w,
         handler.waiting /\ handler.from # w => handler'.waiting,
         handler'.from = handler.from, handler'.step = handler.step
  PROVE  CallInv'
<1>0. TypeOK /\ HandlerInv /\ CallInv
  BY DEF IInv
<1>1. \A v \in Workers \ {w} :
         phase'[v] = phase[v] /\ held'[v] = held[v] /\ call'[v] = call[v]
  BY <1>0 DEF TypeOK, Settle
<1>2. phase'[w] = p /\ held'[w] = t /\ call'[w] = "none"
  BY <1>0 DEF TypeOK, Settle
<1>3. \A v \in Workers :
         /\ call'[v] # "none" => phase'[v] \in Calling
         /\ call'[v] = "handling" <=> handler'.waiting /\ handler'.from = v
         /\ phase'[v] \in {"execute", "report"} => held'[v] \in Tasks
  BY <1>0, <1>1, <1>2 DEF CallInv, Calling
<1>4. handler'.waiting => handler'.from \in Workers \ {w}
  BY <1>0 DEF CallInv, HandlerInv
<1>5. QED
  BY <1>0, <1>1, <1>3, <1>4 DEF CallInv

LEMMA CallInvStep == IInv /\ [Next]_vars => CallInv'
<1> SUFFICES ASSUME IInv, [Next]_vars PROVE CallInv'
  OBVIOUS
<1>0. TypeOK /\ HandlerInv /\ CallInv
  BY DEF IInv
<1>1. CASE ServeLate
  BY <1>0, <1>1, ServeCallInv DEF ServeLate, TypeOK
<1>2. CASE HandlerStep
  BY <1>2, HandlerCallInv
<1>3. CASE HandlerAborts
  <2>1. CASE handler.waiting
    <3>1. /\ handler.from \in Workers
          /\ call' = [call EXCEPT ![handler.from] = "broken"]
      BY <1>0, <1>3, <2>1 DEF HandlerAborts, HandlerInv, Idle
    <3>2. handler' = Idle /\ UNCHANGED <<phase, held>>
      BY <1>3 DEF HandlerAborts, workerVars
    <3>3. QED BY <1>0, <2>1, <3>1, <3>2 DEF TypeOK, CallInv, Calling, Idle
  <2>2. CASE ~handler.waiting
    BY <1>0, <1>3, <2>2 DEF HandlerAborts, CallInv, Idle, workerVars
  <2>3. QED BY <2>1, <2>2
<1>4. ASSUME NEW w \in Workers, ServeCall(w) PROVE CallInv'
  <2>1. call[w] = "sent"
    BY <1>4 DEF ServeCall, Serve, HandlePoll, HandleResult, HandleRegister,
                Accept, CurrentRequest
  <2>2. QED BY <1>4, <2>1, ServedRequest, ServeCallInv DEF ServeCall
<1>5. ASSUME NEW w \in Workers, NEW p \in Calling, BeginCall(w, p),
             phase[w] \notin Calling, UNCHANGED <<held, handler>>,
             p = "report" => held[w] \in Tasks
      PROVE  CallInv'
  BY <1>0, <1>5 DEF TypeOK, CallInv, BeginCall, Calling
<1>6. ASSUME NEW w \in Workers, WorkerStep(w) PROVE CallInv'
  <2>1. CASE StartWorker(w) \/ Poll(w)
    BY <1>5, <2>1 DEF StartWorker, Poll, Calling
  <2>2. CASE ExecuteTask(w)
    BY <1>0, <1>5, <2>2 DEF ExecuteTask, Calling, CallInv
  <2>3. CASE CallReturns(w)
    <3>1. \E p \in Phases, t \in Tasks \cup {NoTask} :
             Settle(w, p, t) /\ p \notin Calling /\ (p = "execute" => t \in Tasks)
      BY <1>0, <2>3 DEF CallReturns, TypeOK, Phases, Calling
    <3>2. UNCHANGED handler /\ call[w] # "handling"
      BY <2>3 DEF CallReturns
    <3>3. PICK p \in Phases, t \in Tasks \cup {NoTask} :
             Settle(w, p, t) /\ p \notin Calling /\ (p = "execute" => t \in Tasks)
      BY <3>1
    <3>4. handler.waiting => handler.from # w
      BY <1>0, <3>2 DEF CallInv
    <3>5. QED BY <3>2, <3>3, <3>4, SettleCallInv
  <2>4. CASE CallBreaks(w)
    <3>1. UNCHANGED handler /\ call[w] # "handling"
      BY <2>4 DEF CallBreaks
    <3>2. CASE GiveUp(w)
      BY <1>0, <3>1, <3>2, SettleCallInv DEF GiveUp, CallInv, Phases, Calling
    <3>3. CASE TryAgain(w) /\ ~GiveUp(w)
      <4>1. call' = [call EXCEPT ![w] = "sent"] /\ UNCHANGED <<phase, held>>
        BY <3>3 DEF TryAgain
      <4>2. phase[w] \in Calling /\ ~(handler.waiting /\ handler.from = w)
        BY <1>0, <2>4, <3>1 DEF CallBreaks, CallInv
      <4>3. QED BY <1>0, <3>1, <4>1, <4>2 DEF CallInv, TypeOK
    <3>4. QED BY <2>4, <3>2, <3>3 DEF CallBreaks, TryAgain
  <2>5. QED BY <1>6, <2>1, <2>2, <2>3, <2>4 DEF WorkerStep
<1>7. ASSUME NEW w \in Workers, CallTimesOut(w) PROVE CallInv'
  <2>1. /\ handler'.step = handler.step /\ handler'.from = handler.from
        /\ handler'.waiting => handler.waiting /\ handler.from # w
        /\ handler.waiting /\ handler.from # w => handler'.waiting
    BY <1>0, <1>7, HangUpEffects DEF CallTimesOut
  <2>2. CASE GiveUp(w)
    BY <1>0, <2>1, <2>2, SettleCallInv DEF GiveUp, Phases, Calling
  <2>3. CASE TryAgain(w) /\ ~GiveUp(w)
    BY <1>0, <1>7, <2>1, <2>3 DEF CallTimesOut, TryAgain, CallInv, TypeOK, Calling
  <2>4. QED BY <1>7, <2>2, <2>3 DEF CallTimesOut
<1>8. ASSUME NEW w \in Workers, WorkerExits(w) PROVE CallInv'
  <2>1. /\ handler'.step = handler.step /\ handler'.from = handler.from
        /\ handler'.waiting => handler.waiting /\ handler.from # w
        /\ handler.waiting /\ handler.from # w => handler'.waiting
    BY <1>0, <1>8, HangUpEffects DEF WorkerExits
  <2>2. QED BY <1>8, <2>1, SettleCallInv DEF WorkerExits, Phases, Calling
<1>9. ASSUME NEW w \in Workers, DiscardAssignment(w) PROVE CallInv'
  <2>1. Settle(w, "idle", NoTask) /\ UNCHANGED handler /\ call[w] # "handling"
    BY <1>9 DEF DiscardAssignment
  <2>2. handler.waiting => handler.from # w
    BY <1>0, <2>1 DEF CallInv
  <2>3. QED BY <2>1, <2>2, SettleCallInv DEF Phases, Calling
<1>10. ASSUME UNCHANGED <<handler, phase, held, call>> PROVE CallInv'
  BY <1>0, <1>10 DEF CallInv
<1>11. QED
  BY <1>1, <1>2, <1>3, <1>4, <1>6, <1>7, <1>8, <1>9, <1>10
     DEF Next, vars, SubmitTask, SystemStatus, Heartbeat, HeartbeatsMissed,
         workerVars, callVars

-----------------------------------------------------------------------------
\* The steps that write a row the task's history is told by.
LEMMA RowWriters ==
  ASSUME [Next]_vars
  PROVE  \/ \E t \in Tasks : SubmitTask(t)
         \/ Dispatch \/ DispatchBlocked \/ RecordSuccess \/ RecordFailure
         \/ WriteRetryNote /\ UNCHANGED <<status, results, failures, runs, verdict>>
         \/ \E w \in Workers : ExecuteTask(w)
         \/ UNCHANGED <<status, results, failures, retryNotes, runs, verdict>>
<1> DEFINE Quiet == UNCHANGED <<status, results, failures, retryNotes, runs, verdict>>
<1> USE DEF dbVars, ghostVars
<1>1. ASSUME NEW r, NEW waiting, Serve(r, waiting) PROVE Quiet
  <2>1. CASE HandlePoll(r, waiting)
    BY <2>1 DEF HandlePoll
  <2>2. CASE HandleResult(r, waiting)
    BY <2>2 DEF HandleResult
  <2>3. CASE HandleRegister(r, waiting)
    BY <2>3 DEF HandleRegister
  <2>4. QED
    BY <1>1, <2>1, <2>2, <2>3 DEF Serve
<1>2. ASSUME SetBusy \/ FirstHeartbeat \/ Reply \/ HandlerAborts \/ SystemStatus
      PROVE  Quiet
  BY <1>2 DEF SetBusy, FirstHeartbeat, Reply, HandlerAborts, SystemStatus
<1>3. ASSUME NEW w \in Workers,
             \/ StartWorker(w) \/ Poll(w) \/ CallReturns(w) \/ CallBreaks(w)
             \/ Heartbeat(w) \/ HeartbeatsMissed(w) \/ CallTimesOut(w) \/ WorkerExits(w)
             \/ DiscardAssignment(w)
      PROVE  Quiet
  BY <1>3 DEF StartWorker, Poll, CallReturns, CallBreaks, Heartbeat, HeartbeatsMissed,
              CallTimesOut, WorkerExits, DiscardAssignment
<1>4. WriteRetryNote => UNCHANGED <<status, results, failures, runs, verdict>>
  BY DEF WriteRetryNote
<1>5. UNCHANGED vars => Quiet
  BY DEF vars
<1>6. QED
  BY <1>1, <1>2, <1>3, <1>4, <1>5 DEF Next, ServeLate, ServeCall, HandlerStep, WorkerStep

\* Nobody writes a row of a task but the step whose request names it.
LEMMA RowInvStep == IInv /\ [Next]_vars => RowInv'
<1> SUFFICES ASSUME IInv, [Next]_vars PROVE RowInv'
  OBVIOUS
<1>0. TypeOK /\ HandlerInv /\ CallInv /\ CarryInv /\ ReportInv /\ RowInv
  BY DEF IInv
<1>1. ASSUME NEW t \in Tasks, SubmitTask(t) PROVE RowInv'
  BY <1>0, <1>1 DEF SubmitTask, TypeOK, RowInv, ghostVars
<1>2. CASE Dispatch
  <2>1. handler.task \in Tasks /\ status[handler.task] = "pending"
    BY <1>0, <1>2 DEF Dispatch, HandlerInv, ReportInv
  <2>2. /\ status' = [status EXCEPT ![handler.task] = "dispatched"]
        /\ UNCHANGED <<results, runs, verdict>>
    BY <1>2 DEF Dispatch, ghostVars
  <2>3. QED BY <1>0, <2>1, <2>2 DEF TypeOK, RowInv
<1>3. CASE DispatchBlocked
  <2>1. handler.task \in Tasks /\ status[handler.task] = "pending"
    BY <1>0, <1>3 DEF DispatchBlocked, HandlerInv, ReportInv
  <2>2. /\ status' = [status EXCEPT ![handler.task] = "blocked"]
        /\ UNCHANGED <<results, runs, verdict>>
    BY <1>3 DEF DispatchBlocked, ghostVars
  <2>3. QED BY <1>0, <2>1, <2>2 DEF TypeOK, RowInv
<1>4. CASE RecordSuccess
  <2>1. /\ handler.task \in Tasks /\ verdict[handler.task] = "completed"
        /\ status[handler.task] \notin ReportClosed
    BY <1>0, <1>4 DEF RecordSuccess, HandlerInv, ReportInv
  <2>2. /\ status' = [status EXCEPT ![handler.task] = "completed"]
        /\ results' = [results EXCEPT ![handler.task] = @ + 1]
        /\ UNCHANGED <<runs, verdict>>
    BY <1>4 DEF RecordSuccess, ghostVars
  <2>3. QED BY <1>0, <2>1, <2>2 DEF TypeOK, RowInv, ReportClosed
<1>5. CASE RecordFailure
  <2>1. /\ handler.task \in Tasks /\ verdict[handler.task] = "failed"
        /\ status[handler.task] \notin ReportClosed
    BY <1>0, <1>5 DEF RecordFailure, HandlerInv, ReportInv
  <2>2. /\ \E s \in {"failed", "abandoned"} : status' = [status EXCEPT ![handler.task] = s]
        /\ UNCHANGED <<results, runs, verdict>>
    BY <1>5 DEF RecordFailure, StatusAfterFailure, ghostVars
  <2>3. QED BY <1>0, <2>1, <2>2 DEF TypeOK, RowInv, ReportClosed
<1>6. ASSUME NEW w \in Workers, ExecuteTask(w) PROVE RowInv'
  <2>1. /\ held[w] \in Tasks
        /\ status[held[w]] = "dispatched" /\ runs[held[w]] = 0
    BY <1>0, <1>6 DEF ExecuteTask, CallInv, CarryInv, Carries
  <2>2. /\ \E o \in {"completed", "failed"} : verdict' = [verdict EXCEPT ![held[w]] = o]
        /\ runs' = [runs EXCEPT ![held[w]] = @ + 1]
        /\ UNCHANGED <<status, results>>
    BY <1>6 DEF ExecuteTask, dbVars
  <2>3. QED BY <1>0, <2>1, <2>2 DEF TypeOK, RowInv
<1>7. CASE UNCHANGED <<status, results, runs, verdict>>
  BY <1>0, <1>7 DEF RowInv
<1>8. QED
  BY <1>1, <1>2, <1>3, <1>4, <1>5, <1>6, <1>7, RowWriters

\* What is said of a task that was executed is never unsaid.
LEMMA VerdictsStand ==
  ASSUME IInv, [Next]_vars, NEW t \in Tasks, verdict[t] # "none"
  PROVE  verdict'[t] = verdict[t]
<1>1. TypeOK /\ CallInv /\ CarryInv /\ RowInv
  BY DEF IInv
<1>2. ASSUME NEW w \in Workers, ExecuteTask(w) PROVE verdict'[t] = verdict[t]
  <2>1. held[w] \in Tasks /\ runs[held[w]] = 0
    BY <1>1, <1>2 DEF ExecuteTask, CallInv, CarryInv, Carries
  <2>2. held[w] # t
    BY <1>1, <2>1 DEF RowInv
  <2>3. QED BY <1>1, <1>2, <2>2 DEF ExecuteTask, TypeOK
<1>3. QED
  BY <1>2, RowWriters DEF SubmitTask, Dispatch, DispatchBlocked, RecordSuccess,
                          RecordFailure, ghostVars

\* The steps that change a status, by the status they find.
LEMMA StatusMoves ==
  ASSUME IInv, [Next]_vars, NEW t \in Tasks, status'[t] # status[t]
  PROVE  \/ status[t] = "absent" /\ status'[t] = "pending" /\ UNCHANGED handler
         \/ /\ status[t] = "pending" /\ status'[t] \in {"dispatched", "blocked"}
            /\ handler.step = "dispatch" /\ handler.task = t /\ (Dispatch \/ DispatchBlocked)
         \/ /\ status[t] \in {"dispatched", "failed"} /\ verdict[t] # "none"
            /\ handler.step = "record" /\ handler.task = t
            /\ RecordSuccess \/ RecordFailure
<1>0. TypeOK /\ HandlerInv /\ ReportInv /\ RowInv
  BY DEF IInv
<1>1. ASSUME NEW u \in Tasks, SubmitTask(u)
      PROVE  status[t] = "absent" /\ status'[t] = "pending" /\ UNCHANGED handler
  BY <1>0, <1>1 DEF SubmitTask, TypeOK
<1>2. ASSUME Dispatch \/ DispatchBlocked
      PROVE  /\ status[t] = "pending" /\ status'[t] \in {"dispatched", "blocked"}
             /\ handler.step = "dispatch" /\ handler.task = t
  <2>1. /\ handler.step = "dispatch" /\ status[handler.task] = "pending"
        /\ \E s \in {"dispatched", "blocked"} : status' = [status EXCEPT ![handler.task] = s]
    BY <1>0, <1>2 DEF Dispatch, DispatchBlocked, ReportInv
  <2>2. QED BY <1>0, <2>1 DEF TypeOK
<1>3. ASSUME RecordSuccess \/ RecordFailure
      PROVE  /\ status[t] \in {"dispatched", "failed"} /\ verdict[t] # "none"
             /\ handler.step = "record" /\ handler.task = t
  <2>1. /\ handler.step = "record" /\ handler.task \in Tasks
        /\ verdict[handler.task] # "none" /\ status[handler.task] \notin ReportClosed
        /\ \E s \in {"completed", "failed", "abandoned"} :
              status' = [status EXCEPT ![handler.task] = s]
    BY <1>0, <1>3 DEF RecordSuccess, RecordFailure, StatusAfterFailure, ReportInv, HandlerInv
  <2>2. handler.task = t
    BY <1>0, <2>1 DEF TypeOK
  <2>3. runs[t] = 1
    BY <1>0, <2>1, <2>2 DEF RowInv
  <2>4. QED BY <1>0, <2>1, <2>2, <2>3 DEF RowInv, ReportClosed
<1>4. QED
  BY <1>1, <1>2, <1>3, RowWriters DEF ExecuteTask, dbVars

LEMMA CarryKept ==
  ASSUME CarryInv,
         \A t \in Tasks, w \in Workers : Carries(w, t)' =>
            Carries(w, t) /\ status'[t] = status[t] /\ runs'[t] = runs[t]
  PROVE  CarryInv'
  BY DEF CarryInv

\* A carried task is in no hand but its carrier's: its row is left alone.
LEMMA CarriedRowsStand ==
  ASSUME IInv, [Next]_vars, NEW t \in Tasks, NEW w \in Workers, Carries(w, t),
         ~ExecuteTask(w)
  PROVE  status'[t] = status[t] /\ runs'[t] = runs[t]
<1>0. TypeOK /\ CallInv /\ CarryInv /\ RowInv
  BY DEF IInv
<1>1. status[t] = "dispatched" /\ runs[t] = 0 /\ verdict[t] = "none"
  BY <1>0 DEF CarryInv, RowInv
<1>2. status'[t] = status[t]
  BY <1>1, StatusMoves
<1>3. ASSUME NEW v \in Workers, ExecuteTask(v) PROVE runs'[t] = runs[t]
  <2>1. v # w
    BY <1>3
  <2>2. held[v] \in Tasks /\ Carries(v, held[v])
    BY <1>0, <1>3 DEF ExecuteTask, CallInv, Carries
  <2>3. held[v] # t
    BY <1>0, <2>1, <2>2 DEF CarryInv
  <2>4. QED BY <1>0, <1>3, <2>3 DEF ExecuteTask, TypeOK
<1>4. QED
  BY <1>2, <1>3, RowWriters DEF SubmitTask, Dispatch, DispatchBlocked,
     RecordSuccess, RecordFailure, ghostVars

\* A request that is accepted has no assignment to carry yet.
LEMMA ServeCarries ==
  ASSUME IInv, NEW r \in Requests, NEW waiting \in BOOLEAN, Serve(r, waiting),
         NEW t \in Tasks, NEW w \in Workers, Carries(w, t)'
  PROVE  Carries(w, t)
<1>1. UNCHANGED <<phase, held, answer>>
  BY DEF Serve, HandlePoll, HandleResult, HandleRegister, workerVars
<1>2. ~(handler'.step \in {"busy", "reply"} /\ handler'.task = t)
  BY DEF Serve, HandlePoll, HandleResult, HandleRegister, Begin
<1>3. call'[w] = "answered" => call[w] = "answered"
  BY DEF Serve, HandlePoll, HandleResult, HandleRegister, Accept, IInv, TypeOK, Requests
<1>4. QED
  BY <1>1, <1>2, <1>3 DEF Carries

\* Of the handler's steps only Dispatch hands a task to anybody.
LEMMA HandlerCarries ==
  ASSUME IInv, HandlerStep, ~Dispatch, NEW t \in Tasks, NEW w \in Workers,
         Carries(w, t)'
  PROVE  Carries(w, t)
<1>0. TypeOK /\ HandlerInv /\ CallInv
  BY DEF IInv
<1>1. UNCHANGED <<phase, held>>
  BY DEF HandlerStep, SetBusy, DispatchBlocked, RecordSuccess, RecordFailure,
         WriteRetryNote, FirstHeartbeat, Reply, workerVars
<1>2. CASE Reply
  <2>1. ~handler'.waiting
    BY <1>2 DEF Reply, Idle
  <2>2. CASE handler.waiting
    <3>1. /\ call' = [call EXCEPT ![handler.from] = "answered"]
          /\ answer' = [answer EXCEPT ![handler.from] = handler.task]
          /\ handler.step = "reply"
      BY <1>2, <2>2 DEF Reply
    <3>2. QED BY <1>0, <1>1, <2>1, <2>2, <3>1 DEF Carries, TypeOK
  <2>3. CASE ~handler.waiting
    BY <1>1, <1>2, <2>1, <2>3 DEF Reply, callVars, Carries
  <2>4. QED BY <2>2, <2>3
<1>3. CASE ~Reply
  <2>1. UNCHANGED <<call, answer>>
    BY <1>3 DEF HandlerStep, SetBusy, DispatchBlocked, RecordSuccess,
                RecordFailure, WriteRetryNote, FirstHeartbeat, callVars
  <2>2. handler'.waiting = handler.waiting /\ handler'.from = handler.from
    BY <1>0, <1>3, HandlerEffects DEF HandlerStep, HandlerGoes
  <2>3. handler'.step \in {"busy", "reply"} /\ handler'.task = t =>
           \/ handler.step = "busy" /\ handler.task = t
           \/ handler.step \in {"record", "note", "heartbeat"}
    BY <1>0, <1>3, HandlerEffects DEF HandlerStep, HandlerGoes
  <2>4. handler.waiting /\ handler.step \in {"record", "note", "heartbeat"} =>
           phase[handler.from] # "poll"
    BY <1>0 DEF CallInv
  <2>5. QED BY <1>1, <2>1, <2>2, <2>3, <2>4 DEF Carries
<1>4. QED
  BY <1>2, <1>3

LEMMA SettleCarries ==
  ASSUME TypeOK, NEW w \in Workers, NEW p, NEW t, Settle(w, p, t),
         p # "poll", p # "execute",
         handler'.waiting => handler.waiting, handler'.from = handler.from,
         handler'.step = handler.step, handler'.task = handler.task
  PROVE  \A u \in Tasks, v \in Workers : Carries(v, u)' => Carries(v, u)
<1>1. \A v \in Workers \ {w} :
         /\ phase'[v] = phase[v] /\ held'[v] = held[v]
         /\ call'[v] = call[v] /\ answer'[v] = answer[v]
  BY DEF TypeOK, Settle
<1>2. phase'[w] = p
  BY DEF TypeOK, Settle
<1>3. QED
  BY <1>1, <1>2 DEF Carries

LEMMA TryAgainCarries ==
  ASSUME TypeOK, NEW w \in Workers, TryAgain(w),
         handler'.waiting => handler.waiting, handler'.from = handler.from,
         handler'.step = handler.step, handler'.task = handler.task
  PROVE  \A u \in Tasks, v \in Workers : Carries(v, u)' => Carries(v, u)
<1>1. CASE GiveUp(w)
  BY <1>1, SettleCarries DEF GiveUp
<1>2. CASE ~GiveUp(w)
  <2>1. /\ call' = [call EXCEPT ![w] = "sent"]
        /\ answer' = [answer EXCEPT ![w] = NoTask]
        /\ UNCHANGED <<phase, held>>
    BY <1>2 DEF TryAgain
  <2>2. QED BY <2>1 DEF TypeOK, Carries
<1>3. QED
  BY <1>1, <1>2

\* A call that begins has not been answered and is not being served.
LEMMA BeginCarries ==
  ASSUME IInv, NEW w \in Workers, NEW p \in Calling, BeginCall(w, p),
         phase[w] \notin Calling, UNCHANGED <<held, handler>>
  PROVE  \A u \in Tasks, v \in Workers :
            Carries(v, u)' => Carries(v, u) /\ v # w
<1>0. TypeOK /\ CallInv
  BY DEF IInv
<1>1. /\ \A v \in Workers \ {w} :
            phase'[v] = phase[v] /\ call'[v] = call[v] /\ answer'[v] = answer[v]
      /\ phase'[w] = p /\ call'[w] = "sent"
  BY <1>0 DEF TypeOK, BeginCall
<1>2. ~(handler.waiting /\ handler.from = w)
  BY <1>0 DEF CallInv
<1>3. QED
  BY <1>1, <1>2 DEF Carries, Calling

\* Dispatch is the one place where a task gets a carrier, and it had none.
LEMMA DispatchCarryInv ==
  ASSUME IInv, [Next]_vars, Dispatch
  PROVE  CarryInv'
<1>0. TypeOK /\ HandlerInv /\ CallInv /\ CarryInv /\ ReportInv /\ RowInv
  BY DEF IInv
<1>1. handler.task \in Tasks /\ status[handler.task] = "pending"
  BY <1>0 DEF Dispatch, HandlerInv, ReportInv
<1>2. /\ status' = [status EXCEPT ![handler.task] = "dispatched"]
      /\ UNCHANGED <<phase, held, call, answer, runs>>
  BY DEF Dispatch, workerVars, callVars, ghostVars
<1>3. handler'.from = handler.from /\ handler'.task = handler.task /\ handler.step = "dispatch"
  BY <1>0, HandlerEffects DEF HandlerGoes
<1>4. runs[handler.task] = 0 /\ \A v \in Workers : ~Carries(v, handler.task)
  BY <1>0, <1>1 DEF RowInv, CarryInv
<1>5. \A t \in Tasks, w \in Workers : Carries(w, t)' =>
         Carries(w, t) \/ (t = handler.task /\ w = handler.from)
  BY <1>2, <1>3 DEF Carries
<1>6. \A t \in Tasks \ {handler.task} : status'[t] = status[t]
  BY <1>0, <1>2 DEF TypeOK
<1>7. status'[handler.task] = "dispatched"
  BY <1>0, <1>1, <1>2 DEF TypeOK
<1>8. SUFFICES ASSUME NEW t \in Tasks, NEW w \in Workers, Carries(w, t)'
               PROVE  /\ status'[t] = "dispatched" /\ runs'[t] = 0
                      /\ \A v \in Workers : Carries(v, t)' => v = w
  BY DEF CarryInv
<1>9. CASE t = handler.task
  BY <1>2, <1>4, <1>5, <1>7, <1>8, <1>9
<1>10. CASE t # handler.task
  BY <1>0, <1>2, <1>5, <1>6, <1>8, <1>10 DEF CarryInv
<1>11. QED
  BY <1>9, <1>10

\* Nothing else lets a task be carried that was not carried before.
LEMMA NoNewCarrier ==
  ASSUME IInv, [Next]_vars, ~Dispatch, \A w \in Workers : ~ExecuteTask(w)
  PROVE  \A t \in Tasks, w \in Workers : Carries(w, t)' => Carries(w, t)
<1> DEFINE Kept == \A t \in Tasks, w \in Workers : Carries(w, t)' => Carries(w, t)
<1>0. TypeOK /\ HandlerInv /\ CallInv
  BY DEF IInv
<1>1. CASE ServeLate
  BY <1>0, <1>1, ServeCarries DEF ServeLate, TypeOK
<1>2. ASSUME NEW w \in Workers, ServeCall(w) PROVE Kept
  <2>1. call[w] = "sent"
    BY <1>2 DEF ServeCall, Serve, HandlePoll, HandleResult, HandleRegister,
                Accept, CurrentRequest
  <2>2. QED BY <1>2, <2>1, ServedRequest, ServeCarries DEF ServeCall
<1>3. CASE HandlerStep
  BY <1>3, HandlerCarries
<1>4. CASE HandlerAborts
  <2>1. handler' = Idle /\ UNCHANGED <<phase, held, answer>>
    BY <1>4 DEF HandlerAborts, workerVars
  <2>2. \A v \in Workers : call'[v] = "answered" => call[v] = "answered"
    BY <1>0, <1>4 DEF HandlerAborts, TypeOK
  <2>3. QED BY <2>1, <2>2 DEF Carries, Idle
<1>5. ASSUME NEW w \in Workers, StartWorker(w) \/ Poll(w) PROVE Kept
  BY <1>5, BeginCarries DEF StartWorker, Poll, Calling
<1>6. ASSUME NEW w \in Workers, CallReturns(w) PROVE Kept
  <2>1. CASE phase[w] = "poll" /\ answer[w] # NoTask
    <3>1. Settle(w, "execute", answer[w]) /\ UNCHANGED handler /\ call[w] = "answered"
      BY <1>6, <2>1 DEF CallReturns
    <3>2. QED BY <1>0, <2>1, <3>1 DEF Settle, TypeOK, Carries
  <2>2. CASE ~(phase[w] = "poll" /\ answer[w] # NoTask)
    <3>1. Settle(w, "idle", NoTask) /\ UNCHANGED handler
      BY <1>6, <2>2 DEF CallReturns
    <3>2. QED BY <1>0, <3>1, SettleCarries
  <2>3. QED BY <2>1, <2>2
<1>7. ASSUME NEW w \in Workers, CallBreaks(w) PROVE Kept
  <2>1. UNCHANGED handler
    BY <1>7 DEF CallBreaks
  <2>2. CASE GiveUp(w)
    BY <1>0, <2>1, <2>2, SettleCarries DEF GiveUp
  <2>3. CASE TryAgain(w)
    BY <1>0, <2>1, <2>3, TryAgainCarries
  <2>4. QED BY <1>7, <2>2, <2>3 DEF CallBreaks
<1>8. ASSUME NEW w \in Workers, CallTimesOut(w) PROVE Kept
  <2>1. HangUp(w) /\ TryAgain(w)
    BY <1>8 DEF CallTimesOut
  <2>2. QED BY <1>0, <2>1, HangUpEffects, TryAgainCarries
<1>9. ASSUME NEW w \in Workers, WorkerExits(w) PROVE Kept
  <2>1. HangUp(w) /\ Settle(w, "down", NoTask)
    BY <1>9 DEF WorkerExits
  <2>2. QED BY <1>0, <2>1, HangUpEffects, SettleCarries
<1>10. ASSUME NEW w \in Workers, DiscardAssignment(w) PROVE Kept
  <2>1. Settle(w, "idle", NoTask) /\ UNCHANGED handler
    BY <1>10 DEF DiscardAssignment
  <2>2. QED BY <1>0, <2>1, SettleCarries
<1>11. CASE UNCHANGED <<phase, held, call, answer, handler>>
  BY <1>11 DEF Carries
<1>12. QED
  BY <1>1, <1>2, <1>3, <1>4, <1>5, <1>6, <1>7, <1>8, <1>9, <1>10, <1>11
     DEF Next, vars, SubmitTask, SystemStatus, Heartbeat, HeartbeatsMissed,
         WorkerStep, workerVars, callVars

LEMMA CarryInvStep == IInv /\ [Next]_vars => CarryInv'
<1> SUFFICES ASSUME IInv, [Next]_vars PROVE CarryInv'
  OBVIOUS
<1>0. TypeOK /\ CallInv /\ CarryInv
  BY DEF IInv
<1>1. CASE Dispatch
  BY <1>1, DispatchCarryInv
<1>2. ASSUME NEW w \in Workers, ExecuteTask(w) PROVE CarryInv'
  <2>1. held[w] \in Tasks /\ phase[w] = "execute"
    BY <1>0, <1>2 DEF ExecuteTask, CallInv
  <2>2. /\ runs' = [runs EXCEPT ![held[w]] = @ + 1]
        /\ UNCHANGED <<status, held, handler>> /\ BeginCall(w, "report")
    BY <1>2 DEF ExecuteTask, dbVars
  <2>3. \A u \in Tasks, v \in Workers : Carries(v, u)' => Carries(v, u) /\ v # w
    BY <2>1, <2>2, BeginCarries DEF Calling
  <2>4. \A u \in Tasks, v \in Workers : Carries(v, u)' => u # held[w]
    BY <1>0, <2>1, <2>3 DEF CarryInv, Carries
  <2>5. \A u \in Tasks \ {held[w]} : runs'[u] = runs[u]
    BY <1>0, <2>2 DEF TypeOK
  <2>6. QED BY <1>0, <2>2, <2>3, <2>4, <2>5, CarryKept
<1>3. CASE ~Dispatch /\ \A w \in Workers : ~ExecuteTask(w)
  <2>1. \A t \in Tasks, w \in Workers : Carries(w, t)' =>
           Carries(w, t) /\ status'[t] = status[t] /\ runs'[t] = runs[t]
    BY <1>3, NoNewCarrier, CarriedRowsStand
  <2>2. QED BY <1>0, <2>1, CarryKept
<1>4. QED
  BY <1>1, <1>2, <1>3

-----------------------------------------------------------------------------
\* What a waiting or queued report says stays what the execution produced, and
\* nobody but the handler itself changes the row of the task it is about.
LEMMA HandlerStatusStands ==
  ASSUME IInv, [Next]_vars, ~HandlerStep, handler.step \in {"dispatch", "record"}
  PROVE  status'[handler.task] = status[handler.task]
<1>1. TypeOK /\ HandlerInv /\ ReportInv /\ RowInv
  BY DEF IInv
<1>2. handler.task \in Tasks /\ status[handler.task] # "absent"
  BY <1>1 DEF HandlerInv, ReportInv, RowInv, TypeOK, Outcomes
<1>3. QED
  BY <1>2, StatusMoves DEF HandlerStep

\* The first two conjuncts of ReportInv speak of the reports.
ReportsTrue ==
    /\ \A w \in Workers : phase[w] = "report" =>
          outcome[w] = verdict[held[w]] /\ outcome[w] # "none"
    /\ \A r \in late : r.kind = "report" =>
          r.task \in Tasks /\ r.outcome = verdict[r.task] /\ r.outcome # "none"

LEMMA ReportsKept ==
  ASSUME IInv, [Next]_vars,
         \A w \in Workers : phase'[w] = "report" =>
            phase[w] = "report" /\ held'[w] = held[w] /\ outcome'[w] = outcome[w],
         \A r \in late' : r \in late \/ \E w \in Workers :
            r = CurrentRequest(w) /\ call[w] # "none"
  PROVE  ReportsTrue'
<1>0. TypeOK /\ CallInv /\ ReportInv
  BY DEF IInv
<1>1. ASSUME NEW w \in Workers, phase[w] = "report"
      PROVE  /\ held[w] \in Tasks /\ outcome[w] # "none"
             /\ outcome[w] = verdict[held[w]] /\ verdict'[held[w]] = verdict[held[w]]
  BY <1>0, <1>1, VerdictsStand DEF CallInv, ReportInv
<1>2. ASSUME NEW r \in late', r.kind = "report"
      PROVE  r.task \in Tasks /\ r.outcome = verdict'[r.task] /\ r.outcome # "none"
  <2>1. CASE r \in late
    BY <1>0, <1>2, <2>1, VerdictsStand DEF ReportInv
  <2>2. ASSUME NEW w \in Workers, r = CurrentRequest(w), call[w] # "none"
        PROVE  r.task \in Tasks /\ r.outcome = verdict'[r.task] /\ r.outcome # "none"
    <3>1. phase[w] = "report" /\ r.task = held[w] /\ r.outcome = outcome[w]
      BY <1>2, <2>2 DEF CurrentRequest
    <3>2. QED BY <1>1, <3>1
  <2>3. QED BY <2>1, <2>2
<1>3. QED
  BY <1>1, <1>2 DEF ReportsTrue

LEMMA ReportsStep == IInv /\ [Next]_vars => ReportsTrue'
<1> SUFFICES ASSUME IInv, [Next]_vars PROVE ReportsTrue'
  OBVIOUS
<1>0. TypeOK /\ CallInv /\ CarryInv /\ RowInv /\ ReportInv
  BY DEF IInv
<1>1. ASSUME UNCHANGED workerVars, late' \subseteq late PROVE ReportsTrue'
  BY <1>1, ReportsKept DEF workerVars
<1>2. ASSUME NEW w \in Workers, NEW p \in Phases, NEW t, Settle(w, p, t), p # "report",
             late' \subseteq late \/ HangUp(w)
      PROVE  ReportsTrue'
  <2>1. \A v \in Workers : phase'[v] = "report" =>
           phase[v] = "report" /\ held'[v] = held[v] /\ outcome'[v] = outcome[v]
    BY <1>0, <1>2 DEF TypeOK, Settle
  <2>2. \A r \in late' : r \in late \/ (r = CurrentRequest(w) /\ call[w] # "none")
    BY <1>2 DEF HangUp
  <2>3. QED BY <2>1, <2>2, ReportsKept
<1>3. ASSUME NEW w \in Workers, NEW p \in Calling, BeginCall(w, p), p # "report",
             UNCHANGED <<held, outcome, late>>
      PROVE  ReportsTrue'
  <2>1. \A v \in Workers : phase'[v] = "report" => phase[v] = "report"
    BY <1>0, <1>3 DEF TypeOK, BeginCall
  <2>2. QED BY <1>3, <2>1, ReportsKept
<1>4. ASSUME NEW w \in Workers, TryAgain(w), late' \subseteq late \/ HangUp(w)
      PROVE  ReportsTrue'
  <2>1. CASE GiveUp(w)
    BY <1>2, <1>4, <2>1 DEF GiveUp, Phases
  <2>2. CASE ~GiveUp(w)
    <3>1. UNCHANGED <<phase, held, outcome>>
      BY <1>4, <2>2 DEF TryAgain
    <3>2. \A r \in late' : r \in late \/ (r = CurrentRequest(w) /\ call[w] # "none")
      BY <1>4 DEF HangUp
    <3>3. QED BY <3>1, <3>2, ReportsKept
  <2>3. QED BY <2>1, <2>2
<1>5. ASSUME NEW w \in Workers, ExecuteTask(w) PROVE ReportsTrue'
  <2>1. held[w] \in Tasks
    BY <1>0, <1>5 DEF ExecuteTask, CallInv
  <2>2. PICK o \in {"completed", "failed"} :
           /\ outcome' = [outcome EXCEPT ![w] = o]
           /\ verdict' = [verdict EXCEPT ![held[w]] = o]
    BY <1>5 DEF ExecuteTask
  <2>3. /\ phase' = [phase EXCEPT ![w] = "report"]
        /\ UNCHANGED <<held, late>>
    BY <1>5 DEF ExecuteTask, BeginCall
  <2>4. outcome'[w] = o /\ verdict'[held[w]] = o
    BY <1>0, <2>1, <2>2 DEF TypeOK
  <2>5. ASSUME NEW v \in Workers \ {w}, phase'[v] = "report"
        PROVE  outcome'[v] = verdict'[held[v]] /\ outcome'[v] # "none"
    <3>1. phase[v] = "report" /\ outcome'[v] = outcome[v] /\ held[v] \in Tasks
      BY <1>0, <2>2, <2>3, <2>5 DEF TypeOK, CallInv
    <3>2. outcome[v] = verdict[held[v]] /\ outcome[v] # "none"
      BY <1>0, <3>1 DEF ReportInv
    <3>3. QED BY <3>1, <3>2, VerdictsStand
  <2>6. ASSUME NEW r \in late, r.kind = "report"
        PROVE  r.task \in Tasks /\ r.outcome = verdict'[r.task] /\ r.outcome # "none"
    BY <1>0, <2>6, VerdictsStand DEF ReportInv
  <2>7. QED BY <2>3, <2>4, <2>5, <2>6 DEF ReportsTrue
<1>6. ASSUME NEW w \in Workers, CallReturns(w) PROVE ReportsTrue'
  <2>1. \E p \in Phases, t \in Tasks \cup {NoTask} : Settle(w, p, t) /\ p # "report"
    BY <1>0, <1>6 DEF CallReturns, TypeOK, Phases
  <2>2. QED BY <1>2, <1>6, <2>1 DEF CallReturns
<1>7. ASSUME NEW w \in Workers, CallBreaks(w) PROVE ReportsTrue'
  BY <1>2, <1>4, <1>7 DEF CallBreaks, GiveUp, Phases
<1>8. ASSUME NEW w \in Workers, CallTimesOut(w) PROVE ReportsTrue'
  BY <1>4, <1>8 DEF CallTimesOut
<1>9. ASSUME NEW w \in Workers, WorkerExits(w) PROVE ReportsTrue'
  BY <1>2, <1>9 DEF WorkerExits, Phases
<1>10. ASSUME NEW w \in Workers, StartWorker(w) \/ Poll(w) PROVE ReportsTrue'
  BY <1>3, <1>10 DEF StartWorker, Poll, Calling
<1>11. ASSUME NEW w \in Workers, ServeCall(w) \/ ServeLate PROVE ReportsTrue'
  BY <1>1, <1>11 DEF ServeCall, ServeLate, Serve, HandlePoll, HandleResult,
                     HandleRegister, Accept
<1>12. ASSUME NEW w \in Workers, DiscardAssignment(w) PROVE ReportsTrue'
  BY <1>2, <1>12 DEF DiscardAssignment, Phases
<1>13. QED
  BY <1>1, <1>5, <1>6, <1>7, <1>8, <1>9, <1>10, <1>11, <1>12
     DEF Next, vars, ServeLate, Serve, HandlePoll, HandleResult, HandleRegister,
         Accept, SubmitTask, HandlerStep, Dispatch, SetBusy, DispatchBlocked,
         RecordSuccess, RecordFailure, WriteRetryNote, FirstHeartbeat, Reply,
         HandlerAborts, SystemStatus, WorkerStep, Heartbeat, HeartbeatsMissed, workerVars

LEMMA ServeReportInv ==
  ASSUME IInv, NEW r \in Requests, NEW waiting \in BOOLEAN, Serve(r, waiting)
  PROVE  /\ handler'.step = "dispatch" => status'[handler'.task] = "pending"
         /\ handler'.step = "record" =>
               /\ handler'.outcome = verdict'[handler'.task] /\ handler'.outcome # "none"
               /\ status'[handler'.task] \notin ReportClosed
<1>1. UNCHANGED <<status, verdict>>
  BY DEF Serve, HandlePoll, HandleResult, HandleRegister, dbVars, ghostVars
<1>2. CASE HandlePoll(r, waiting)
  BY <1>1, <1>2 DEF HandlePoll, Begin, NextPending
<1>3. CASE HandleResult(r, waiting)
  BY <1>1, <1>3, ServedReport DEF HandleResult, Begin
<1>4. CASE HandleRegister(r, waiting)
  BY <1>4 DEF HandleRegister, Begin
<1>5. QED
  BY <1>2, <1>3, <1>4 DEF Serve

\* The server is serial: between accepting a request and acting on it nobody
\* else touches the row of its task.
LEMMA ReportInvStep == IInv /\ [Next]_vars => ReportInv'
<1> SUFFICES ASSUME IInv, [Next]_vars PROVE ReportInv'
  OBVIOUS
<1> DEFINE Pending == handler.step = "dispatch" => status[handler.task] = "pending"
<1> DEFINE Open == handler.step = "record" =>
          /\ handler.outcome = verdict[handler.task] /\ handler.outcome # "none"
          /\ status[handler.task] \notin ReportClosed
<1> SUFFICES Pending' /\ Open'
  BY ReportsStep DEF ReportInv, ReportsTrue
<1>0. TypeOK /\ HandlerInv /\ ReportInv
  BY DEF IInv
<1>1. CASE ServeLate
  BY <1>0, <1>1, ServeReportInv DEF ServeLate, TypeOK
<1>2. ASSUME NEW w \in Workers, ServeCall(w) PROVE Pending' /\ Open'
  <2>1. call[w] = "sent"
    BY <1>2 DEF ServeCall, Serve, HandlePoll, HandleResult, HandleRegister,
                Accept, CurrentRequest
  <2>2. QED BY <1>2, <2>1, ServedRequest, ServeReportInv DEF ServeCall
<1>3. CASE HandlerStep
  <2>1. handler'.step \notin {"dispatch", "record"}
    BY <1>0, <1>3, HandlerEffects DEF HandlerStep, HandlerGoes, Reply, Idle
  <2>2. QED BY <2>1
<1>4. CASE HandlerAborts
  BY <1>4 DEF HandlerAborts, Idle
<1>5. ASSUME ~HandlerStep, handler'.step = handler.step, handler'.task = handler.task,
             handler'.outcome = handler.outcome
      PROVE  Pending' /\ Open'
  <2>1. CASE handler.step \in {"dispatch", "record"}
    <3>1. status'[handler.task] = status[handler.task]
      BY <1>5, <2>1, HandlerStatusStands
    <3>2. handler.step = "record" => verdict'[handler.task] = verdict[handler.task]
      BY <1>0, VerdictsStand DEF HandlerInv, ReportInv
    <3>3. QED BY <1>0, <1>5, <3>1, <3>2 DEF ReportInv
  <2>2. CASE handler.step \notin {"dispatch", "record"}
    BY <1>5, <2>2
  <2>3. QED BY <2>1, <2>2
<1>6. ASSUME NEW w \in Workers, HangUp(w)
      PROVE  handler'.step = handler.step /\ handler'.task = handler.task
             /\ handler'.outcome = handler.outcome
  BY <1>0, <1>6, HangUpEffects
<1>7. QED
  BY <1>1, <1>2, <1>3, <1>4, <1>5, <1>6
     DEF Next, vars, SubmitTask, SystemStatus, Heartbeat, HeartbeatsMissed,
         CallTimesOut, DiscardAssignment, WorkerExits, WorkerStep, StartWorker, Poll,
         CallReturns, ExecuteTask, CallBreaks

\* A note falls due only with a failure record, and only by RecordFailure.
LEMMA NotesDue ==
  ASSUME IInv, [Next]_vars, ~RecordFailure, NEW t \in Tasks
  PROVE  /\ NoteDue(t) \in {0, 1} /\ NoteDue(t)' \in {0, 1}
         /\ NoteDue(t)' <= NoteDue(t)
         /\ NoteDue(t)' # NoteDue(t) => WriteRetryNote \/ HandlerAborts
<1>0. TypeOK /\ HandlerInv
  BY DEF IInv
<1>1. ASSUME handler'.step # "note" PROVE NoteDue(t)' = 0
  BY <1>1 DEF NoteDue
<1>2. ASSUME handler.step # "note" PROVE NoteDue(t) = 0
  BY <1>2 DEF NoteDue
<1>3. CASE ServeLate \/ \E w \in Workers : ServeCall(w)
  <2>1. handler.step # "note" /\ handler'.step # "note"
    BY <1>3 DEF ServeLate, ServeCall, Serve, HandlePoll, HandleResult,
                HandleRegister, Accept, Begin, Idle
  <2>2. QED BY <1>1, <1>2, <2>1
<1>4. CASE HandlerStep
  <2>1. handler'.step # "note"
    BY <1>0, <1>4, HandlerEffects DEF HandlerStep, HandlerGoes, Reply, Idle
  <2>2. handler.step = "note" => WriteRetryNote
    BY <1>0, <1>4, HandlerEffects DEF HandlerStep, HandlerGoes, Reply
  <2>3. QED BY <1>1, <1>2, <2>1, <2>2 DEF NoteDue
<1>5. CASE HandlerAborts
  <2>1. handler'.step # "note"
    BY <1>5 DEF HandlerAborts, Idle
  <2>2. QED BY <1>1, <1>5, <2>1 DEF NoteDue
<1>6. ASSUME handler'.step = handler.step, handler'.task = handler.task
      PROVE  NoteDue(t)' = NoteDue(t)
  BY <1>6 DEF NoteDue
<1>7. ASSUME NEW w \in Workers, HangUp(w) PROVE NoteDue(t)' = NoteDue(t)
  BY <1>0, <1>6, <1>7, HangUpEffects
<1>8. NoteDue(t) \in {0, 1} /\ NoteDue(t)' \in {0, 1}
  BY DEF NoteDue
<1>9. \/ ServeLate \/ \E w \in Workers : ServeCall(w)
      \/ HandlerStep \/ HandlerAborts
      \/ UNCHANGED handler
      \/ \E w \in Workers : HangUp(w)
  BY DEF Next, vars, SubmitTask, SystemStatus, Heartbeat, HeartbeatsMissed,
         CallTimesOut, DiscardAssignment, WorkerExits, WorkerStep, StartWorker, Poll,
         CallReturns, ExecuteTask, CallBreaks
<1>10. QED
  BY <1>3, <1>4, <1>5, <1>6, <1>7, <1>8, <1>9

\* A lost note is counted when the handler that owes it is aborted, as long as
\* its task has further tries.
LEMMA LostNotes ==
  ASSUME IInv, [Next]_vars, NEW t \in Tasks
  PROVE  /\ HandlerAborts => unnoted'[t] = IF NoteDue(t) = 1 /\ status[t] = "failed"
                                          THEN unnoted[t] + 1 ELSE unnoted[t]
         /\ ~HandlerAborts => unnoted'[t] = unnoted[t]
<1>1. HandlerAborts => unnoted'[t] = IF NoteDue(t) = 1 /\ status[t] = "failed"
                                     THEN unnoted[t] + 1 ELSE unnoted[t]
  <2>1. /\ unnoted \in [Tasks -> Nat]
        /\ handler.step = "note" => handler.task \in Tasks
    BY DEF IInv, TypeOK, HandlerInv
  <2>2. HandlerAborts =>
           unnoted' = IF handler.step = "note" /\ status[handler.task] = "failed"
                      THEN [unnoted EXCEPT ![handler.task] = unnoted[handler.task] + 1]
                      ELSE unnoted
    BY DEF HandlerAborts
  <2>3. QED BY <2>1, <2>2 DEF NoteDue
<1>2. ~HandlerAborts => UNCHANGED unnoted
  BY DEF Next, vars, SubmitTask, ServeLate, ServeCall, Serve, HandlePoll,
         HandleResult, HandleRegister, HandlerStep, Dispatch, SetBusy,
         DispatchBlocked, RecordSuccess, RecordFailure, WriteRetryNote,
         FirstHeartbeat, Reply, SystemStatus, Heartbeat, HeartbeatsMissed,
         CallTimesOut, DiscardAssignment, WorkerExits, WorkerStep,
         StartWorker, Poll, CallReturns, ExecuteTask, CallBreaks, ghostVars
<1>3. QED
  BY <1>1, <1>2

\* What RetryInv says of one task.
TaskRetryInv(t) ==
    /\ status[t] \notin {"failed", "abandoned"} =>
          retryNotes[t] = 0 /\ NoteDue(t) = 0 /\ unnoted[t] = 0
    /\ status[t] \in {"absent", "pending", "dispatched", "completed"} => failures[t] = 0
    /\ status[t] = "blocked" => failures[t] = 1
    /\ status[t] = "failed" =>
          /\ retryNotes[t] + NoteDue(t) <= MaxRetries
          /\ failures[t] = retryNotes[t] + NoteDue(t) + unnoted[t]
    /\ status[t] = "abandoned" => failures[t] = MaxRetries + 1 + unnoted[t]

LEMMA RetryNumbers ==
  ASSUME TypeOK, NEW t \in Tasks
  PROVE  /\ retryNotes[t] \in Nat /\ failures[t] \in Nat /\ unnoted[t] \in Nat
         /\ MaxRetries \in Nat \ {0} /\ NoteDue(t) \in {0, 1}
  BY DEF TypeOK, NoteDue

\* A failure report counts the notes of the failures before its own, and its own
\* note is due from then on.
LEMMA FailureRetryInv ==
  ASSUME IInv, [Next]_vars, RecordFailure, NEW t \in Tasks
  PROVE  TaskRetryInv(t)'
<1>0. TypeOK /\ HandlerInv /\ ReportInv /\ RowInv /\ TaskRetryInv(t)
  BY DEF IInv, RetryInv, TaskRetryInv
<1>1. /\ retryNotes[t] \in Nat /\ failures[t] \in Nat /\ unnoted[t] \in Nat
      /\ MaxRetries \in Nat /\ retryNotes'[t] = retryNotes[t] /\ unnoted'[t] = unnoted[t]
  BY <1>0, RetryNumbers DEF RecordFailure, ghostVars
<1>2. handler.step = "record" /\ handler'.step = "note" /\ handler'.task = handler.task
  BY <1>0, HandlerEffects DEF HandlerGoes
<1>3. NoteDue(t) = 0
  BY <1>2 DEF NoteDue
<1>4. CASE t = handler.task
  <2>1. NoteDue(t)' = 1
    BY <1>2, <1>4 DEF NoteDue
  <2>2. /\ failures'[t] = failures[t] + 1
        /\ status'[t] = IF retryNotes[t] >= MaxRetries THEN "abandoned" ELSE "failed"
    BY <1>0, <1>4 DEF RecordFailure, StatusAfterFailure, TypeOK
  <2>3. status[t] \in {"dispatched", "failed"}
    BY <1>0, <1>2, <1>4, <2>2, StatusMoves DEF ReportInv, RowInv, ReportClosed, TypeOK, Statuses
  <2>4. QED BY <1>0, <1>1, <1>3, <2>1, <2>2, <2>3 DEF TaskRetryInv
<1>5. CASE t # handler.task
  <2>1. NoteDue(t)' = 0
    BY <1>2, <1>5 DEF NoteDue
  <2>2. failures'[t] = failures[t] /\ status'[t] = status[t]
    BY <1>0, <1>2, <1>5 DEF RecordFailure, TypeOK, HandlerInv
  <2>3. QED BY <1>0, <1>1, <1>3, <2>1, <2>2 DEF TaskRetryInv
<1>6. QED
  BY <1>4, <1>5

LEMMA NoteRetryInv ==
  ASSUME IInv, [Next]_vars, WriteRetryNote, NEW t \in Tasks
  PROVE  TaskRetryInv(t)'
<1>0. TypeOK /\ HandlerInv /\ TaskRetryInv(t)
  BY DEF IInv, RetryInv, TaskRetryInv
<1>1. /\ handler.step = "note" /\ handler'.step = "reply" /\ handler.task \in Tasks
      /\ UNCHANGED <<status, failures, unnoted>>
      /\ retryNotes' = [retryNotes EXCEPT ![handler.task] = @ + 1]
  BY <1>0, HandlerEffects DEF WriteRetryNote, HandlerGoes, HandlerInv, ghostVars
<1>2. retryNotes'[t] = retryNotes[t] + NoteDue(t) /\ NoteDue(t)' = 0
  BY <1>0, <1>1 DEF TypeOK, NoteDue
<1>3. /\ retryNotes[t] \in Nat /\ failures[t] \in Nat /\ unnoted[t] \in Nat
      /\ MaxRetries \in Nat /\ NoteDue(t) \in {0, 1}
  BY <1>0, RetryNumbers
<1>4. QED
  BY <1>0, <1>1, <1>2, <1>3 DEF TaskRetryInv

LEMMA BlockedRetryInv ==
  ASSUME IInv, [Next]_vars, DispatchBlocked, NEW t \in Tasks
  PROVE  TaskRetryInv(t)'
<1>0. TypeOK /\ HandlerInv /\ ReportInv /\ TaskRetryInv(t)
  BY DEF IInv, RetryInv, TaskRetryInv
<1>1. /\ handler.step = "dispatch" /\ handler'.step = "reply"
      /\ handler.task \in Tasks /\ status[handler.task] = "pending"
  BY <1>0, HandlerEffects DEF DispatchBlocked, HandlerGoes, HandlerInv, ReportInv
<1>2. NoteDue(t) = 0 /\ NoteDue(t)' = 0
  BY <1>1 DEF NoteDue
<1>3. /\ status' = [status EXCEPT ![handler.task] = "blocked"]
      /\ failures' = [failures EXCEPT ![handler.task] = @ + 1]
      /\ UNCHANGED <<retryNotes, unnoted>>
  BY DEF DispatchBlocked, ghostVars
<1>4. /\ retryNotes[t] \in Nat /\ failures[t] \in Nat /\ unnoted[t] \in Nat
      /\ MaxRetries \in Nat
  BY <1>0, RetryNumbers
<1>5. CASE t = handler.task
  <2>1. status'[t] = "blocked" /\ failures'[t] = failures[t] + 1
    BY <1>0, <1>3, <1>5 DEF TypeOK
  <2>2. QED BY <1>0, <1>1, <1>2, <1>3, <1>4, <1>5, <2>1 DEF TaskRetryInv
<1>6. CASE t # handler.task
  <2>1. status'[t] = status[t] /\ failures'[t] = failures[t]
    BY <1>0, <1>3, <1>6 DEF TypeOK
  <2>2. QED BY <1>0, <1>2, <1>3, <1>4, <2>1 DEF TaskRetryInv
<1>7. QED
  BY <1>5, <1>6

LEMMA RetryInvStep == IInv /\ [Next]_vars => RetryInv'
<1> SUFFICES ASSUME IInv, [Next]_vars, NEW t \in Tasks PROVE TaskRetryInv(t)'
  BY DEF RetryInv, TaskRetryInv
<1>0. TypeOK /\ RowInv /\ ReportInv /\ HandlerInv /\ TaskRetryInv(t)
  BY DEF IInv, RetryInv, TaskRetryInv
<1>1. CASE RecordFailure
  BY <1>1, FailureRetryInv
<1>2. CASE WriteRetryNote
  BY <1>2, NoteRetryInv
<1>3. CASE DispatchBlocked
  BY <1>3, BlockedRetryInv
<1>4. CASE HandlerAborts
  <2>1. /\ UNCHANGED <<status, failures, retryNotes>> /\ NoteDue(t)' = 0
    BY <1>4 DEF HandlerAborts, dbVars, NoteDue, Idle
  <2>2. unnoted'[t] = IF NoteDue(t) = 1 /\ status[t] = "failed"
                      THEN unnoted[t] + 1 ELSE unnoted[t]
    BY <1>4, LostNotes
  <2>3. QED BY <1>0, <2>1, <2>2, RetryNumbers DEF TaskRetryInv
<1>5. CASE ~(RecordFailure \/ WriteRetryNote \/ DispatchBlocked \/ HandlerAborts)
  <2>1. NoteDue(t)' = NoteDue(t) /\ unnoted'[t] = unnoted[t]
    BY <1>5, NotesDue, LostNotes
  <2>2. UNCHANGED <<failures, retryNotes>>
    BY <1>5, RowWriters DEF SubmitTask, Dispatch, RecordSuccess, ExecuteTask, dbVars
  <2>3. \/ status'[t] = status[t]
        \/ status[t] = "absent" /\ status'[t] = "pending"
        \/ status[t] = "pending" /\ status'[t] = "dispatched"
        \/ status[t] = "dispatched" /\ status'[t] = "completed"
    <3>1. CASE RecordSuccess /\ status'[t] # status[t]
      <4>1. handler.step = "record" /\ handler.task = t /\ verdict[t] = "completed"
            /\ status[t] \in {"dispatched", "failed"}
        BY <1>0, <3>1, StatusMoves, HandlerEffects
           DEF RecordSuccess, HandlerGoes, ReportInv
      <4>2. status[t] = "dispatched"
        BY <1>0, <4>1 DEF RowInv
      <4>3. QED BY <1>0, <3>1, <4>1, <4>2 DEF RecordSuccess, TypeOK
    <3>2. CASE Dispatch /\ status'[t] # status[t]
      BY <1>0, <3>2, StatusMoves DEF Dispatch, TypeOK, HandlerInv
    <3>3. CASE ~RecordSuccess /\ ~Dispatch
      BY <1>5, <3>3, StatusMoves
    <3>4. QED BY <3>1, <3>2, <3>3
  <2>4. QED BY <1>0, <2>1, <2>2, <2>3, RetryNumbers DEF TaskRetryInv
<1>6. QED
  BY <1>1, <1>2, <1>3, <1>4, <1>5

-----------------------------------------------------------------------------
(***************************************************************************)
(* The theorems.                                                           *)
(***************************************************************************)

\* The inductive invariant holds in every reachable state, for any number of
\* tasks and workers, any priorities and any bounds on retries and faults.
THEOREM Invariance == Spec => []IInv
<1>1. IInv /\ [Next]_vars => IInv'
  BY TypeStep, HandlerInvStep, CallInvStep, CarryInvStep, ReportInvStep, RowInvStep,
     RetryInvStep DEF IInv
<1>2. QED
  BY InitIInv, <1>1, PTL DEF Spec

\* Every variable keeps its type: no call runs past its attempts, no handler
\* names a task or a node that is not there.
THEOREM TypeCorrect == Spec => []TypeOK
<1>1. IInv => TypeOK
  BY DEF IInv
<1>2. QED
  BY <1>1, Invariance, PTL

\* However often a report is retried, delayed or repeated, a task leaves exactly
\* one result record, and leaves it together with its status.
THEOREM OneResult == Spec => []ExactlyOneResult
<1>1. IInv => ExactlyOneResult
  BY DEF IInv, RowInv, ExactlyOneResult
<1>2. QED
  BY <1>1, Invariance, PTL

\* The tables never contradict what the execution produced.
THEOREM TruthfulTables == Spec => []BeliefIsTruth
<1>1. IInv => BeliefIsTruth
  BY DEF IInv, RowInv, BeliefIsTruth
<1>2. QED
  BY <1>1, Invariance, PTL

\* No task is executed twice, however many polls are repeated.
THEOREM SingleExecution == Spec => []AtMostOneRun
<1>1. IInv => AtMostOneRun
  <2>1. SUFFICES ASSUME RowInv, NEW t \in Tasks
        PROVE  /\ runs[t] <= 1
               /\ runs[t] = 1 => status[t] \notin {"absent", "pending", "blocked"}
    BY DEF IInv, AtMostOneRun
  <2>2. runs[t] \in {0, 1}
    BY <2>1 DEF RowInv
  <2>3. runs[t] = 1 => status[t] \notin {"absent", "pending", "blocked"}
    BY <2>1 DEF RowInv
  <2>4. QED BY <2>2, <2>3
<1>2. QED
  BY <1>1, Invariance, PTL

\* A task is abandoned by its failure number MaxRetries + 1 and by no other, not
\* counting the failures whose note was lost with its handler.
THEOREM RetriesAccounted == Spec => []RetryAccounting
<1>1. IInv => RetryAccounting
  <2>1. SUFFICES ASSUME IInv, NEW t \in Tasks, TaskRetryInv(t)
        PROVE  /\ status[t] = "failed" =>
                     failures[t] = retryNotes[t] + NoteDue(t) + unnoted[t]
               /\ status[t] = "abandoned" <=> failures[t] > MaxRetries + unnoted[t]
               /\ failures[t] <= MaxRetries + 1 + unnoted[t]
    BY DEF IInv, RetryInv, TaskRetryInv, RetryAccounting
  <2>2. status[t] \in Statuses
    BY <2>1 DEF IInv, TypeOK
  <2>3. /\ retryNotes[t] \in Nat /\ failures[t] \in Nat /\ unnoted[t] \in Nat
        /\ MaxRetries \in Nat \ {0} /\ NoteDue(t) \in {0, 1}
    BY <2>1, RetryNumbers DEF IInv
  <2>4. QED BY <2>1, <2>2, <2>3 DEF TaskRetryInv, Statuses
<1>2. QED
  BY <1>1, Invariance, PTL

-----------------------------------------------------------------------------
\* A record step finds the task handed out, or failed and not yet retried out.
LEMMA RecordedTask ==
  ASSUME IInv, handler.step = "record"
  PROVE  /\ handler.task \in Tasks
         /\ handler.outcome = "completed" => status[handler.task] = "dispatched"
         /\ handler.outcome = "failed" => status[handler.task] \in {"dispatched", "failed"}
         /\ status[handler.task] = "dispatched" => retryNotes[handler.task] = 0
         /\ retryNotes[handler.task] <= failures[handler.task]
<1> DEFINE t == handler.task
<1>1. t \in Tasks /\ handler.outcome = verdict[t] /\ handler.outcome # "none"
      /\ status[t] \notin ReportClosed
  BY DEF IInv, HandlerInv, ReportInv
<1>2. runs[t] = 1 /\ status[t] \in {"dispatched", "failed"}
  BY <1>1 DEF IInv, RowInv, ReportClosed
<1>3. NoteDue(t) = 0
  BY DEF NoteDue
<1>4. retryNotes[t] \in Nat /\ failures[t] \in Nat
  BY <1>1 DEF IInv, TypeOK
<1>5. retryNotes[t] <= failures[t]
  <2>1. unnoted[t] \in Nat
    BY <1>1 DEF IInv, TypeOK
  <2>2. QED BY <1>1, <1>2, <1>3, <1>4, <2>1 DEF IInv, RetryInv
<1>6. status[t] = "dispatched" => retryNotes[t] = 0
  BY <1>1 DEF IInv, RetryInv
<1>7. handler.outcome = "completed" => status[t] = "dispatched"
  BY <1>1, <1>2 DEF IInv, RowInv
<1>8. QED
  BY <1>1, <1>2, <1>5, <1>6, <1>7

LEMMA BoardStep == IInv /\ [Next]_vars => [Board!Next]_(Board!vars)
<1> SUFFICES ASSUME IInv, [Next]_vars PROVE [Board!Next]_(Board!vars)
  OBVIOUS
<1> USE DEF Board!Next, Board!Move, Board!LogFailure
<1>0. TypeOK /\ HandlerInv /\ ReportInv
  BY DEF IInv
<1>1. ASSUME NEW t \in Tasks, SubmitTask(t) PROVE Board!Next
  <2>1. Board!Submit(t)
    BY <1>1 DEF SubmitTask, Board!Submit
  <2>2. QED BY <2>1
<1>2. CASE Dispatch
  <2>1. handler.task \in Tasks /\ Board!HandOut(handler.task)
    BY <1>0, <1>2 DEF Dispatch, HandlerInv, ReportInv, Board!HandOut
  <2>2. QED BY <2>1
<1>3. CASE DispatchBlocked
  <2>1. handler.task \in Tasks /\ Board!Block(handler.task)
    BY <1>0, <1>3 DEF DispatchBlocked, HandlerInv, ReportInv, Board!Block
  <2>2. QED BY <2>1
<1>4. CASE RecordSuccess
  <2>1. handler.task \in Tasks /\ Board!Succeed(handler.task)
    BY <1>4, RecordedTask DEF RecordSuccess, Board!Succeed
  <2>2. QED BY <2>1
<1>5. CASE RecordFailure
  <2>1. /\ handler.task \in Tasks
        /\ status[handler.task] \in {"dispatched", "failed"}
        /\ status[handler.task] = "dispatched" => retryNotes[handler.task] = 0
        /\ retryNotes[handler.task] <= failures[handler.task]
    BY <1>5, RecordedTask DEF RecordFailure
  <2>2. /\ failures' = [failures EXCEPT ![handler.task] = @ + 1]
        /\ UNCHANGED results
    BY <1>5 DEF RecordFailure
  <2>3. CASE retryNotes[handler.task] >= MaxRetries
    <3>1. status' = [status EXCEPT ![handler.task] = "abandoned"]
      BY <1>5, <2>3 DEF RecordFailure, StatusAfterFailure
    <3>2. retryNotes[handler.task] \in Nat /\ failures[handler.task] \in Nat
      BY <1>0, <2>1 DEF TypeOK
    <3>3. status[handler.task] = "failed" /\ failures[handler.task] >= MaxRetries
      BY <2>1, <2>3, <3>2
    <3>4. Board!Abandon(handler.task)
      BY <2>2, <3>1, <3>3 DEF Board!Abandon
    <3>5. QED BY <2>1, <3>4
  <2>4. CASE ~(retryNotes[handler.task] >= MaxRetries)
    <3>1. status' = [status EXCEPT ![handler.task] = "failed"]
      BY <1>5, <2>4 DEF RecordFailure, StatusAfterFailure
    <3>2. Board!Fail(handler.task)
      BY <2>1, <2>2, <3>1 DEF Board!Fail
    <3>3. QED BY <2>1, <3>2
  <2>5. QED BY <2>3, <2>4
<1>6. CASE UNCHANGED <<status, results, failures>>
  BY <1>6 DEF Board!vars
<1>7. QED
  BY <1>1, <1>2, <1>3, <1>4, <1>5, <1>6, RowWriters DEF ExecuteTask, dbVars

\* Whatever the network, the workers and the aborted handlers do, the tables
\* change only as the task board allows.
THEOREM Refinement == Spec => ImplementsTaskBoard
<1>1. Init => Board!Init
  BY DEF Init, Board!Init
<1>2. QED
  BY <1>1, Invariance, BoardStep, PTL DEF Spec, Board!Spec, ImplementsTaskBoard

\* A completed, abandoned or blocked task keeps its status and its records for
\* ever.
THEOREM Finality == Spec => FinalIsFinal
<1>1. ASSUME IInv, [Next]_vars, NEW t \in Tasks,
             status[t] \in {"completed", "abandoned", "blocked"}
      PROVE  status'[t] = status[t] /\ results'[t] = results[t] /\ failures'[t] = failures[t]
  <2>1. status'[t] = status[t]
    BY <1>1, StatusMoves
  <2>2. [Board!Next]_(Board!vars)
    BY <1>1, BoardStep
  <2>3. ASSUME NEW u \in Tasks,
               \/ Board!Submit(u) \/ Board!HandOut(u) \/ Board!Block(u)
               \/ Board!Succeed(u) \/ Board!Fail(u) \/ Board!Abandon(u)
        PROVE  results'[t] = results[t] /\ failures'[t] = failures[t]
    <3>1. u # t
      BY <1>1, <2>3 DEF Board!Submit, Board!HandOut, Board!Block, Board!Succeed,
                        Board!Fail, Board!Abandon, Board!Move
    <3>2. results \in [Tasks -> Nat] /\ failures \in [Tasks -> Nat]
      BY <1>1 DEF IInv, TypeOK
    <3>3. QED
      BY <2>3, <3>1, <3>2 DEF Board!Submit, Board!HandOut, Board!Block,
         Board!Succeed, Board!Fail, Board!Abandon, Board!LogFailure
  <2>4. QED BY <2>1, <2>2, <2>3 DEF Board!Next, Board!vars
<1>2. IInv /\ [Next]_vars =>
         [\A t \in Tasks : status[t] \in {"completed", "abandoned", "blocked"} =>
            /\ status'[t] = status[t]
            /\ results'[t] = results[t]
            /\ failures'[t] = failures[t]]_vars
  BY <1>1
<1>3. QED
  BY <1>2, Invariance, PTL DEF Spec, FinalIsFinal
===============================================================================
