--------------------------- MODULE NodeHealthProofs ---------------------------
(***************************************************************************)
(* Proofs about NodeHealth, for any nodes, tasks and monitors and any      *)
(* threshold: its type invariant, and that the partition mode of a worker  *)
(* means unanswered heartbeats.                                            *)
(***************************************************************************)
EXTENDS NodeHealth, TLAPS

RowTypes ==
    /\ status \in [Nodes -> {"none", "online", "offline"}]
    /\ age \in [Nodes -> {"never", "fresh", "stale", "old"}]
    /\ owner \in [Tasks -> Nodes \cup {NoNode}]
    /\ chosen \in [Tasks -> Nodes \cup {NoNode}]

PassRecords ==
    [step : {"rest", "next", "swap", "restore", "expel", "list", "requeue"},
     todo : SUBSET Nodes, node : Nodes \cup {NoNode},
     seen : Health, found : SUBSET Tasks]

MonitorTypes ==
    /\ last \in [Nodes -> Health]
    /\ pass \in [Monitors -> PassRecords]

HandlerTypes ==
    /\ handler \in [Nodes -> {"none", "look", "classify", "mark", "restore"}]
    /\ queue \in [Nodes -> Nat]
    /\ sender \in [Nodes -> {"idle", "sent"} \cup Answers]
    /\ \A n \in Nodes : sender[n] \in Answers => handler[n] = "none" /\ queue[n] = 0

WorkerTypes ==
    /\ alive \in [Nodes -> BOOLEAN]
    /\ missed \in [Nodes -> 0..Threshold]
    /\ partition \in [Nodes -> BOOLEAN]
    /\ wanted \in [Nodes -> BOOLEAN]
    /\ joining \in [Nodes -> BOOLEAN]
    /\ faults \in 0..MaxFaults

LEMMA TypesSplit == TypeOK <=> RowTypes /\ MonitorTypes /\ HandlerTypes /\ WorkerTypes
BY DEF TypeOK, RowTypes, MonitorTypes, PassRecords, HandlerTypes, WorkerTypes

LEMMA TypesJoin ==
    ASSUME RowTypes', MonitorTypes', HandlerTypes', WorkerTypes' PROVE TypeOK'
BY DEF TypeOK, RowTypes, MonitorTypes, PassRecords, HandlerTypes, WorkerTypes

-----------------------------------------------------------------------------

LEMMA InitTypes == Init => TypeOK
<1> SUFFICES ASSUME Init PROVE TypeOK
    OBVIOUS
<1>1. RowTypes
    BY DEF Init, RowTypes
<1>2. MonitorTypes
    BY DEF Init, MonitorTypes, PassRecords, Rest, Health
<1>3. HandlerTypes
    BY DEF Init, HandlerTypes, Answers
<1>4. WorkerTypes
    BY ConstantsOK DEF Init, WorkerTypes
<1> QED
    BY <1>1, <1>2, <1>3, <1>4, TypesSplit

\* One more missed heartbeat is still at most the threshold.
LEMMA OneMoreTyped ==
    ASSUME WorkerTypes, NEW n \in Nodes
    PROVE  OneMore(n) \in 0..Threshold
<1>1. missed[n] \in 0..Threshold
    BY DEF WorkerTypes
<1> QED
    BY <1>1, ConstantsOK DEF OneMore

LEMMA FaultTyped ==
    ASSUME WorkerTypes, Fault PROVE faults' \in 0..MaxFaults
BY ConstantsOK DEF WorkerTypes, Fault

\* The worker's own steps
LEMMA WorkerStepTypes ==
    ASSUME TypeOK, NEW n \in Nodes,
           StartWorker(n) \/ StopWorker(n) \/ SenderStep(n)
             \/ HeartbeatFails(n) \/ NoticeFlag(n) \/ Reregister(n)
    PROVE  TypeOK'
<1>1. RowTypes /\ MonitorTypes /\ HandlerTypes /\ WorkerTypes
    BY TypesSplit
<1>2. CASE StartWorker(n)
    <2>1. RowTypes' /\ MonitorTypes'
        BY <1>1, <1>2 DEF StartWorker, SetStatus, RowTypes, MonitorTypes, monVars, serverVars
    <2>2. HandlerTypes'
        BY <1>1, <1>2 DEF StartWorker, HandlerTypes, Answers, monVars, serverVars
    <2>3. WorkerTypes'
        BY <1>1, <1>2, ConstantsOK DEF StartWorker, WorkerTypes
    <2> QED
        BY <2>1, <2>2, <2>3, TypesJoin
<1>3. CASE StopWorker(n)
    <2>1. (RowTypes /\ MonitorTypes /\ HandlerTypes)'
        BY <1>1, <1>3 DEF StopWorker, RowTypes, MonitorTypes, HandlerTypes, rowVars, monVars, serverVars
    <2>2. faults' \in 0..MaxFaults
        BY <1>1, <1>3, FaultTyped DEF StopWorker
    <2>3. WorkerTypes'
        BY <1>1, <1>3, <2>2 DEF StopWorker, WorkerTypes
    <2> QED
        BY <2>1, <2>3, TypesJoin
<1>4. CASE SendHeartbeat(n) \/ RetryHeartbeat(n)
    <2>1. Posts(n) /\ (UNCHANGED faults \/ Fault)
        BY <1>4 DEF SendHeartbeat, RetryHeartbeat
    <2>2. (RowTypes /\ MonitorTypes)'
        BY <1>1, <2>1 DEF Posts, RowTypes, MonitorTypes, rowVars
    <2>3. HandlerTypes'
        BY <1>1, <2>1 DEF Posts, HandlerTypes, Answers
    <2>4. faults' \in 0..MaxFaults
        BY <1>1, <2>1, FaultTyped DEF WorkerTypes
    <2>5. WorkerTypes'
        BY <1>1, <2>1, <2>4 DEF Posts, WorkerTypes
    <2> QED
        BY <2>2, <2>3, <2>5, TypesJoin
<1>5. CASE HeartbeatOK(n)
    <2>1. (RowTypes /\ MonitorTypes)'
        BY <1>1, <1>5 DEF HeartbeatOK, RowTypes, MonitorTypes, rowVars, monVars, serverVars
    <2>2. HandlerTypes'
        BY <1>1, <1>5 DEF HeartbeatOK, HandlerTypes, Answers, monVars, serverVars
    <2>3. WorkerTypes'
        BY <1>1, <1>5, ConstantsOK DEF HeartbeatOK, WorkerTypes
    <2> QED
        BY <2>1, <2>2, <2>3, TypesJoin
<1>6. CASE HeartbeatRejected(n)
    <2>1. (RowTypes /\ MonitorTypes)'
        BY <1>1, <1>6 DEF HeartbeatRejected, RowTypes, MonitorTypes, rowVars, monVars, serverVars
    <2>2. HandlerTypes'
        BY <1>1, <1>6 DEF HeartbeatRejected, HandlerTypes, Answers, monVars, serverVars
    <2>3. WorkerTypes'
        BY <1>1, <1>6, OneMoreTyped DEF HeartbeatRejected, WorkerTypes
    <2> QED
        BY <2>1, <2>2, <2>3, TypesJoin
<1>7. CASE HeartbeatFails(n)
    <2>1. (RowTypes /\ MonitorTypes)'
        BY <1>1, <1>7 DEF HeartbeatFails, RowTypes, MonitorTypes, rowVars, monVars, serverVars
    <2>2. HandlerTypes'
        BY <1>1, <1>7 DEF HeartbeatFails, HandlerTypes, Answers, monVars, serverVars
    <2>3. faults' \in 0..MaxFaults
        BY <1>1, <1>7, FaultTyped DEF HeartbeatFails, WorkerTypes
    <2>4. partition' \in [Nodes -> BOOLEAN]
        BY <1>1, <1>7, Zenon DEF HeartbeatFails, WorkerTypes
    <2>5. missed' \in [Nodes -> 0..Threshold]
        BY <1>1, <1>7, OneMoreTyped DEF HeartbeatFails, WorkerTypes
    <2>6. WorkerTypes'
        BY <1>1, <1>7, <2>3, <2>4, <2>5 DEF HeartbeatFails, WorkerTypes
    <2> QED
        BY <2>1, <2>2, <2>6, TypesJoin
<1>8. CASE NoticeFlag(n)
    <2>1. (RowTypes /\ MonitorTypes /\ HandlerTypes)'
        BY <1>1, <1>8 DEF NoticeFlag, RowTypes, MonitorTypes, HandlerTypes, rowVars, monVars, serverVars
    <2>2. WorkerTypes'
        BY <1>1, <1>8 DEF NoticeFlag, WorkerTypes
    <2> QED
        BY <2>1, <2>2, TypesJoin
<1>9. CASE Reregister(n)
    <2>1. RowTypes'
        BY <1>1, <1>9 DEF Reregister, SetStatus, RowTypes
    <2>2. (MonitorTypes /\ HandlerTypes)'
        BY <1>1, <1>9 DEF Reregister, MonitorTypes, HandlerTypes, monVars, serverVars, senderVars
    <2>3. faults' \in 0..MaxFaults
        BY <1>1, <1>9, FaultTyped DEF Reregister, WorkerTypes
    <2>4. WorkerTypes'
        BY <1>1, <1>9, <2>3 DEF Reregister, WorkerTypes, senderVars
    <2> QED
        BY <2>1, <2>2, <2>4, TypesJoin
<1> QED
    BY <1>2, <1>3, <1>4, <1>5, <1>6, <1>7, <1>8, <1>9 DEF SenderStep

\* The handler's steps
LEMMA HandlerStepTypes ==
    ASSUME TypeOK, NEW n \in Nodes, HandlerStep(n)
    PROVE  TypeOK'
<1>1. RowTypes /\ MonitorTypes /\ HandlerTypes /\ WorkerTypes
    BY TypesSplit
<1>2. CASE ReceiveHeartbeat(n)
    <2>1. RowTypes' /\ MonitorTypes'
        BY <1>1, <1>2 DEF ReceiveHeartbeat, SetStatus, RowTypes, MonitorTypes
    <2>2. HandlerTypes'
        BY <1>1, <1>2 DEF ReceiveHeartbeat, Accepts, HandlerTypes, Answers, Step, Reply
    <2>3. faults' \in 0..MaxFaults
        BY <1>1, <1>2, FaultTyped DEF ReceiveHeartbeat, WorkerTypes
    <2>4. WorkerTypes'
        BY <1>1, <1>2, <2>3 DEF ReceiveHeartbeat, WorkerTypes
    <2> QED
        BY <2>1, <2>2, <2>4, TypesJoin
<1>3. CASE LookUpLast(n) \/ CheckRecovery(n)
    <2>1. (RowTypes /\ MonitorTypes /\ WorkerTypes)'
        BY <1>1, <1>3 DEF LookUpLast, CheckRecovery, RowTypes, MonitorTypes, WorkerTypes, rowVars
    <2>2. HandlerTypes'
        BY <1>1, <1>3 DEF LookUpLast, CheckRecovery, HandlerTypes, Answers, Step, Reply
    <2> QED
        BY <2>1, <2>2, TypesJoin
<1>4. CASE MarkRecovered(n)
    <2>1. (RowTypes /\ WorkerTypes)'
        BY <1>1, <1>4 DEF MarkRecovered, RowTypes, WorkerTypes, rowVars, workerVars, senderVars
    <2>2. MonitorTypes'
        BY <1>1, <1>4 DEF MarkRecovered, MonitorTypes, Health
    <2>3. HandlerTypes'
        BY <1>1, <1>4 DEF MarkRecovered, HandlerTypes, Answers, Step, workerVars, senderVars
    <2> QED
        BY <2>1, <2>2, <2>3, TypesJoin
<1>5. CASE RestoreAfterHeartbeat(n)
    <2>1. (RowTypes /\ MonitorTypes /\ WorkerTypes)'
        BY <1>1, <1>5 DEF RestoreAfterHeartbeat, Update, SetStatus, RowTypes, MonitorTypes, WorkerTypes
    <2>2. HandlerTypes'
        BY <1>1, <1>5 DEF RestoreAfterHeartbeat, HandlerTypes, Answers, Step, Reply
    <2> QED
        BY <2>1, <2>2, TypesJoin
<1> QED
    BY <1>2, <1>3, <1>4, <1>5 DEF HandlerStep

\* The monitor's steps
LEMMA PassStepTypes ==
    ASSUME TypeOK, NEW m \in Monitors, PassStep(m)
    PROVE  TypeOK'
<1>1. RowTypes /\ MonitorTypes /\ HandlerTypes /\ WorkerTypes
    BY TypesSplit
<1>2. pass[m] \in PassRecords
    BY <1>1 DEF MonitorTypes
<1>3. HandlerTypes'
    BY <1>1 DEF PassStep, BeginPass, ClassifyNext, SwapClassification, RestoreNode, MarkOffline,
           ListDispatched, Requeue, DutyFails, EndPass, HandlerTypes, serverVars, workerVars, senderVars
<1>4. faults' \in 0..MaxFaults
    <2>1. faults' = faults \/ Fault
        BY DEF PassStep, BeginPass, ClassifyNext, SwapClassification, RestoreNode, MarkOffline,
               ListDispatched, Requeue, DutyFails, EndPass
    <2> QED
        BY <1>1, <2>1, FaultTyped DEF WorkerTypes
<1>5. WorkerTypes'
    <2>1. UNCHANGED workerVars
        BY DEF PassStep, BeginPass, ClassifyNext, SwapClassification, RestoreNode, MarkOffline,
               ListDispatched, Requeue, DutyFails, EndPass
    <2> QED
        BY <1>1, <1>4, <2>1 DEF WorkerTypes, workerVars, senderVars
<1>6. RowTypes'
    <2>1. CASE RestoreNode(m) \/ MarkOffline(m)
        BY <1>1, <2>1 DEF RestoreNode, MarkOffline, Update, SetStatus, RowTypes
    <2>2. CASE Requeue(m)
        BY <1>1, <2>2 DEF Requeue, RowTypes
    <2>3. CASE BeginPass(m) \/ ClassifyNext(m) \/ SwapClassification(m)
                 \/ ListDispatched(m) \/ DutyFails(m) \/ EndPass(m)
        BY <1>1, <2>3 DEF BeginPass, ClassifyNext, SwapClassification, ListDispatched, DutyFails,
               EndPass, RowTypes, rowVars
    <2> QED
        BY <2>1, <2>2, <2>3 DEF PassStep
<1>7. MonitorTypes'
    <2>1. CASE BeginPass(m) \/ EndPass(m)
        <3>1. Rest \in PassRecords
            BY DEF Rest, PassRecords, Health
        <3>2. [Rest EXCEPT !.step = "next", !.todo = {n \in Nodes : status[n] # "none"}]
                  \in PassRecords
            BY <3>1 DEF PassRecords
        <3> QED
            BY <1>1, <2>1, <3>1, <3>2 DEF BeginPass, EndPass, PassGoes, MonitorTypes
    <2>2. CASE ClassifyNext(m)
        <3>1. PICK n \in pass[m].todo, seen \in Health :
                  pass' = [pass EXCEPT ![m] = [pass[m] EXCEPT
                              !.step = "swap", !.todo = @ \ {n}, !.node = n, !.seen = seen]]
            BY <2>2 DEF ClassifyNext, PassGoes
        <3>2. n \in Nodes /\ pass[m].todo \ {n} \in SUBSET Nodes
            BY <1>2 DEF PassRecords
        <3>3. [pass[m] EXCEPT !.step = "swap", !.todo = @ \ {n}, !.node = n, !.seen = seen]
                  \in PassRecords
            BY <1>2, <3>2 DEF PassRecords
        <3> QED
            BY <1>1, <2>2, <3>1, <3>3 DEF ClassifyNext, MonitorTypes
    <2>3. CASE SwapClassification(m)
        <3>1. Duty(last[pass[m].node], pass[m].seen) \in {"next", "restore", "expel"}
            BY DEF Duty
        <3>2. [pass[m] EXCEPT !.step = Duty(last[pass[m].node], pass[m].seen)] \in PassRecords
            BY <1>2, <3>1 DEF PassRecords
        <3> QED
            BY <1>1, <1>2, <2>3, <3>2 DEF SwapClassification, PassGoes, MonitorTypes, PassRecords
    <2>4. CASE RestoreNode(m) \/ MarkOffline(m)
        BY <1>1, <1>2, <2>4 DEF RestoreNode, MarkOffline, PassGoes, MonitorTypes, PassRecords
    <2>5. CASE ListDispatched(m)
        BY <1>1, <1>2, <2>5 DEF ListDispatched, PassGoes, MonitorTypes, PassRecords
    <2>6. CASE Requeue(m) \/ DutyFails(m)
        BY <1>1, <1>2, <2>6 DEF Requeue, DutyFails, PassGoes, MonitorTypes, PassRecords
    <2> QED
        BY <2>1, <2>2, <2>3, <2>4, <2>5, <2>6 DEF PassStep
<1> QED
    BY <1>3, <1>5, <1>6, <1>7, TypesJoin

\* What befalls rows: the clock, an operator, dispatchers and sweeps
LEMMA RowStepTypes ==
    ASSUME TypeOK,
           \/ \E n \in Nodes : GrowsOlder(n) \/ Unregister(n)
           \/ \E t \in Tasks : ChooseNode(t) \/ ClaimTask(t) \/ TaskDone(t) \/ TimesOut(t)
    PROVE  TypeOK'
<1>1. RowTypes /\ MonitorTypes /\ HandlerTypes /\ WorkerTypes
    BY TypesSplit
<1>2. UNCHANGED <<monVars, workerVars>> /\ (faults' = faults \/ Fault)
    BY DEF GrowsOlder, Unregister, ChooseNode, ClaimTask, TaskDone, TimesOut
<1>3. (MonitorTypes /\ HandlerTypes)'
    BY <1>1, <1>2 DEF MonitorTypes, HandlerTypes, monVars, serverVars, workerVars, senderVars
<1>4. faults' \in 0..MaxFaults
    BY <1>1, <1>2, FaultTyped DEF WorkerTypes
<1>5. WorkerTypes'
    BY <1>1, <1>2, <1>4 DEF WorkerTypes, workerVars, senderVars
<1>6. RowTypes'
    <2>1. CASE \E n \in Nodes : GrowsOlder(n) \/ Unregister(n)
        BY <1>1, <2>1 DEF GrowsOlder, Unregister, SetStatus, RowTypes
    <2>2. ASSUME NEW t \in Tasks, ChooseNode(t) \/ ClaimTask(t) \/ TaskDone(t) \/ TimesOut(t)
          PROVE  RowTypes'
        BY <1>1, <2>2 DEF ChooseNode, ClaimTask, TaskDone, TimesOut, RowTypes
    <2> QED
        BY <2>1, <2>2
<1> QED
    BY <1>3, <1>5, <1>6, TypesJoin

LEMMA RestartTypes ==
    ASSUME TypeOK, MasterRestarts PROVE TypeOK'
<1>1. RowTypes /\ MonitorTypes /\ HandlerTypes /\ WorkerTypes
    BY TypesSplit
<1>2. RowTypes'
    BY <1>1 DEF MasterRestarts, RowTypes
<1>3. MonitorTypes'
    BY <1>1 DEF MasterRestarts, MonitorTypes, PassRecords, Rest, Health
<1>4. HandlerTypes'
    BY <1>1 DEF MasterRestarts, HandlerTypes, workerVars, senderVars
<1>5. faults' \in 0..MaxFaults
    BY <1>1, FaultTyped DEF MasterRestarts
<1>6. WorkerTypes'
    BY <1>1, <1>5 DEF MasterRestarts, WorkerTypes, workerVars, senderVars
<1> QED
    BY <1>2, <1>3, <1>4, <1>6, TypesJoin

LEMMA NextTypes == TypeOK /\ [Next]_vars => TypeOK'
<1> SUFFICES ASSUME TypeOK, [Next]_vars PROVE TypeOK'
    OBVIOUS
<1>1. CASE UNCHANGED vars
    BY <1>1 DEF vars, rowVars, monVars, serverVars, workerVars, senderVars, TypeOK
<1>2. CASE Next
    BY <1>2, WorkerStepTypes, HandlerStepTypes, PassStepTypes, RowStepTypes, RestartTypes DEF Next
<1> QED
    BY <1>1, <1>2

-----------------------------------------------------------------------------

\* A step either keeps both the mode and the count of a worker, or adds a miss
\* and may set the mode once the threshold is reached, or clears the mode.
LEMMA PartitionNext ==
    TypeOK /\ PartitionMeansMisses /\ [Next]_vars => PartitionMeansMisses'
<1> SUFFICES ASSUME TypeOK, PartitionMeansMisses, [Next]_vars, NEW n \in Nodes, partition'[n]
             PROVE  missed'[n] >= Threshold
    BY DEF PartitionMeansMisses
<1>1. missed[n] \in 0..Threshold /\ Threshold \in Nat
    BY ConstantsOK DEF TypeOK
<1>2. partition[n] => missed[n] >= Threshold
    BY DEF PartitionMeansMisses
<1>3. CASE UNCHANGED <<missed, partition>>
    BY <1>2, <1>3
<1>4. ASSUME NEW k \in Nodes, StartWorker(k) \/ HeartbeatOK(k)
      PROVE  missed'[n] >= Threshold
    <2>1. partition' = [partition EXCEPT ![k] = FALSE]
        BY <1>4 DEF StartWorker, HeartbeatOK
    <2>2. partition \in [Nodes -> BOOLEAN]
        BY DEF TypeOK
    <2>3. partition'[k] = FALSE
        BY <2>1, <2>2, Zenon
    <2>4. n # k
        BY <2>3
    <2>5. partition[n]
        BY <2>1, <2>2, <2>4, Zenon
    <2>6. missed'[n] = missed[n]
        BY <1>4, <2>4 DEF TypeOK, StartWorker, HeartbeatOK
    <2> QED
        BY <1>2, <2>5, <2>6
<1>5. ASSUME NEW k \in Nodes, HeartbeatRejected(k) \/ HeartbeatFails(k)
      PROVE  missed'[n] >= Threshold
    <2>1. missed' = [missed EXCEPT ![k] = OneMore(k)]
        BY <1>5 DEF HeartbeatRejected, HeartbeatFails
    <2>2. missed'[n] = IF n = k THEN OneMore(n) ELSE missed[n]
        BY <2>1 DEF TypeOK
    <2>3. missed[n] >= Threshold => missed'[n] >= Threshold
        BY <1>1, <2>2 DEF OneMore
    <2>4. partition[n] \/ (n = k /\ OneMore(n) >= Threshold)
        <3>1. partition \in [Nodes -> BOOLEAN]
            BY DEF TypeOK
        <3>2. CASE UNCHANGED partition
            BY <3>2
        <3>3. CASE partition' = [partition EXCEPT ![k] = @ \/ OneMore(k) >= Threshold]
            <4>1. CASE n = k
                <5>1. partition'[k] = (partition[k] \/ OneMore(k) >= Threshold)
                    BY <3>1, <3>3, Zenon
                <5> QED
                    BY <4>1, <5>1
            <4>2. CASE n # k
                BY <3>1, <3>3, <4>2, Zenon
            <4> QED
                BY <4>1, <4>2
        <3> QED
            BY <1>5, <3>2, <3>3, Zenon DEF HeartbeatRejected, HeartbeatFails
    <2> QED
        BY <1>2, <2>2, <2>3, <2>4
<1>6. CASE Next
    <2>1. CASE \E k \in Nodes : StartWorker(k) \/ HeartbeatOK(k)
        BY <1>4, <2>1
    <2>2. CASE \E k \in Nodes : HeartbeatRejected(k) \/ HeartbeatFails(k)
        BY <1>5, <2>2
    <2>3. CASE \E k \in Nodes : \/ GrowsOlder(k) \/ Unregister(k) \/ StopWorker(k)
                                \/ SendHeartbeat(k) \/ RetryHeartbeat(k)
                                \/ NoticeFlag(k) \/ Reregister(k)
                                \/ HandlerStep(k)
        BY <1>3, <2>3 DEF GrowsOlder, Unregister, StopWorker, SendHeartbeat, RetryHeartbeat, Posts, NoticeFlag, Reregister,
               HandlerStep, ReceiveHeartbeat, LookUpLast, CheckRecovery, MarkRecovered,
               RestoreAfterHeartbeat, workerVars, senderVars
    <2>4. CASE \E m \in Monitors : PassStep(m)
        BY <1>3, <2>4 DEF PassStep, BeginPass, ClassifyNext, SwapClassification, RestoreNode,
               MarkOffline, ListDispatched, Requeue, DutyFails, EndPass, workerVars, senderVars
    <2>5. CASE \E t \in Tasks : ChooseNode(t) \/ ClaimTask(t) \/ TaskDone(t) \/ TimesOut(t)
        BY <1>3, <2>5 DEF ChooseNode, ClaimTask, TaskDone, TimesOut, workerVars, senderVars
    <2>6. CASE MasterRestarts
        BY <1>3, <2>6 DEF MasterRestarts, workerVars, senderVars
    <2> QED
        BY <1>6, <2>1, <2>2, <2>3, <2>4, <2>5, <2>6 DEF Next, SenderStep
<1> QED
    BY <1>3, <1>6 DEF vars, workerVars, senderVars

\* Every variable of senders, handlers, monitors and rows keeps its type, and an
\* answered heartbeat has no handler left (heartbeat_monitor.py:130-195).
THEOREM TypeCorrect == Spec => []TypeOK
BY InitTypes, NextTypes, PTL DEF Spec

\* A worker is in partition mode only after Threshold unanswered heartbeats in a
\* row, whatever is answered late and however often either side restarts
\* (heartbeat_sender.py:284).
THEOREM PartitionsAreMisses == Spec => []PartitionMeansMisses
<1>1. Init => PartitionMeansMisses
    BY DEF Init, PartitionMeansMisses
<1> QED
    BY <1>1, InitTypes, NextTypes, PartitionNext, PTL DEF Spec
===============================================================================
