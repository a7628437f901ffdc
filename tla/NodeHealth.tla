------------------------------ MODULE NodeHealth ------------------------------
(***************************************************************************)
(* Who is alive, as the registry believes it: the heartbeat sender of each *)
(* worker with the re-registration its main loop does (heartbeat_sender.py,*)
(* worker_runtime.py), the master's heartbeat handler and its monitor      *)
(* (heartbeat_monitor.py, registry.py, node_registry.py), and the tasks    *)
(* that a dispatcher hands to nodes and takes from the lost ones           *)
(* (failure.py).  ServiceLoop has the life of the monitor's thread.        *)
(*                                                                         *)
(* A node's row and the monitor's last classification of it are read and   *)
(* written step by step by the handler's threads and by the monitor's, and *)
(* only the classification is under a lock: what a step read may have been *)
(* overtaken by a heartbeat or by the clock.                               *)
(***************************************************************************)
EXTENDS Naturals, FiniteSets

CONSTANTS Nodes, Tasks,
          Monitors,             \* threads in check_all_nodes
          Threshold,            \* _PARTITION_THRESHOLD (3)
          MaxFaults,            \* bound on failing calls, crashes, restarts
          NoNode

ASSUME ConstantsOK ==
    /\ Threshold \in Nat \ {0}
    /\ MaxFaults \in Nat
    /\ NoNode \notin Nodes

VARIABLES
    \* rows of node_registry
    status,      \* "none" where there is no row
    age,         \* of last_heartbeat: "never", "fresh", "stale" or "old"
    \* rows of tasks
    owner,       \* assigned_node_id while dispatched_to_node
    chosen,      \* the node a dispatcher selected for the task and not yet claimed
    \* the master's monitor and heartbeat handlers
    last,        \* _last_classification
    pass,        \* check_all_nodes in each monitor thread
    handler,     \* the handler of a heartbeat of each node
    queue,       \* the node's heartbeats that wait for the serial server
    \* the workers
    alive,       \* the process runs
    sender,      \* its heartbeat on the way
    missed,      \* _missed_heartbeats
    partition,   \* _partition_mode
    wanted,      \* _needs_reregistration
    joining,     \* the main loop is about to register again
    faults

rowVars    == <<status, age, owner, chosen>>
serverVars == <<handler, queue>>
monVars    == <<last, pass, serverVars>>
senderVars == <<sender, missed, partition, wanted>>
workerVars == <<alive, senderVars, joining>>
vars == <<rowVars, monVars, workerVars, faults>>

Health == {"online", "stale", "offline", "unknown"}
\* 200; 404 or 401; and every other refusal
Answers == {"ok", "rejected", "refused"}
Rest   == [step |-> "rest", todo |-> {}, node |-> NoNode, seen |-> "unknown", found |-> {}]

TypeOK ==
    /\ status \in [Nodes -> {"none", "online", "offline"}]
    /\ age \in [Nodes -> {"never", "fresh", "stale", "old"}]
    /\ owner \in [Tasks -> Nodes \cup {NoNode}]
    /\ chosen \in [Tasks -> Nodes \cup {NoNode}]
    /\ last \in [Nodes -> Health]
    /\ pass \in [Monitors -> [step : {"rest", "next", "swap", "restore", "expel", "list", "requeue"},
                             todo : SUBSET Nodes, node : Nodes \cup {NoNode},
                             seen : Health, found : SUBSET Tasks]]
    /\ handler \in [Nodes -> {"none", "look", "classify", "mark", "restore"}]
    /\ queue \in [Nodes -> Nat]
    /\ alive \in [Nodes -> BOOLEAN]
    /\ sender \in [Nodes -> {"idle", "sent"} \cup Answers]
    /\ missed \in [Nodes -> 0..Threshold]
    /\ partition \in [Nodes -> BOOLEAN]
    /\ wanted \in [Nodes -> BOOLEAN]
    /\ joining \in [Nodes -> BOOLEAN]
    /\ \A n \in Nodes : sender[n] \in Answers => handler[n] = "none" /\ queue[n] = 0
    /\ faults \in 0..MaxFaults

Init ==
    /\ status = [n \in Nodes |-> "none"] /\ age = [n \in Nodes |-> "never"]
    /\ owner = [t \in Tasks |-> NoNode] /\ chosen = [t \in Tasks |-> NoNode]
    /\ last = [n \in Nodes |-> "unknown"]
    /\ pass = [m \in Monitors |-> Rest]
    /\ handler = [n \in Nodes |-> "none"] /\ queue = [n \in Nodes |-> 0]
    /\ alive = [n \in Nodes |-> FALSE]
    /\ sender = [n \in Nodes |-> "idle"] /\ missed = [n \in Nodes |-> 0]
    /\ partition = [n \in Nodes |-> FALSE] /\ wanted = [n \in Nodes |-> FALSE]
    /\ joining = [n \in Nodes |-> FALSE]
    /\ faults = 0

Fault == faults < MaxFaults /\ faults' = faults + 1

-----------------------------------------------------------------------------
(* The registry *)

\* classify_health
Classify(n) ==
    CASE status[n] = "none"                              -> "unknown"
      [] status[n] = "offline" \/ age[n] \in {"never", "old"} -> "offline"
      [] status[n] = "online" /\ age[n] = "stale"        -> "stale"
      [] OTHER                                           -> "online"

SetStatus(n, s) == status' = [status EXCEPT ![n] = s]

\* UPDATE finds no row where there is none.
Update(n, s) == IF status[n] = "none" THEN UNCHANGED status ELSE SetStatus(n, s)

GrowsOlder(n) ==
    /\ age[n] \in {"fresh", "stale"}
    /\ age' = [age EXCEPT ![n] = IF @ = "fresh" THEN "stale" ELSE "old"]
    /\ UNCHANGED <<status, owner, chosen, monVars, workerVars, faults>>

Unregister(n) ==
    /\ status[n] = "online"
    /\ Fault
    /\ SetStatus(n, "offline")
    /\ UNCHANGED <<age, owner, chosen, monVars, workerVars>>

\* The server has no heartbeat of the node.
Idle(n) == handler[n] = "none" /\ queue[n] = 0

-----------------------------------------------------------------------------
(* The worker *)

\* (mutant: the partition of an earlier run is kept)
StartsPartitioned(n) ==
    /\ ~alive[n]
    /\ SetStatus(n, "online")
    /\ alive' = [alive EXCEPT ![n] = TRUE]
    /\ sender' = [sender EXCEPT ![n] = "idle"]
    /\ missed' = [missed EXCEPT ![n] = 0]
    /\ UNCHANGED <<age, owner, chosen, monVars, partition, wanted, joining, faults>>

\* Registering precedes start_sender, which begins its counts anew.
StartWorker(n) ==
    /\ ~alive[n]
    /\ SetStatus(n, "online")
    /\ alive' = [alive EXCEPT ![n] = TRUE]
    /\ sender' = [sender EXCEPT ![n] = "idle"]
    /\ missed' = [missed EXCEPT ![n] = 0]
    /\ partition' = [partition EXCEPT ![n] = FALSE]
    /\ UNCHANGED <<age, owner, chosen, monVars, wanted, joining, faults>>

\* A crash, or worker_runtime.stop(), which the flag of the sender's module
\* outlives.
StopWorker(n) ==
    /\ alive[n]
    /\ Fault
    /\ alive' = [alive EXCEPT ![n] = FALSE]
    /\ joining' = [joining EXCEPT ![n] = FALSE]
    /\ wanted' = [wanted EXCEPT ![n] = FALSE] \/ UNCHANGED wanted
    /\ UNCHANGED <<rowVars, monVars, sender, missed, partition>>

Posts(n) ==
    /\ sender' = [sender EXCEPT ![n] = "sent"]
    /\ queue' = [queue EXCEPT ![n] = @ + 1]
    /\ UNCHANGED <<rowVars, last, pass, handler, alive, missed, partition, wanted, joining>>

\* What was given up before may still wait for the server, or be at work there.
SendHeartbeat(n) ==
    /\ alive[n] /\ sender[n] = "idle"
    /\ Posts(n)
    /\ UNCHANGED faults

\* The client posts the same heartbeat again when its request died with the
\* server, timed out, or its answer was lost.
RetryHeartbeat(n) ==
    /\ alive[n]
    /\ \/ sender[n] = "sent" /\ Idle(n) /\ UNCHANGED faults
       \/ sender[n] \in {"sent"} \cup Answers /\ Fault
    /\ Posts(n)

\* The count is cut off at the threshold.
OneMore(n) == IF missed[n] < Threshold THEN missed[n] + 1 ELSE Threshold

HeartbeatOK(n) ==
    /\ sender[n] = "ok"
    /\ sender' = [sender EXCEPT ![n] = "idle"]
    /\ missed' = [missed EXCEPT ![n] = 0]
    /\ partition' = [partition EXCEPT ![n] = FALSE]
    /\ UNCHANGED <<rowVars, monVars, alive, wanted, joining, faults>>

\* 404 or 401: counted, but never a partition.
HeartbeatRejected(n) ==
    /\ sender[n] = "rejected"
    /\ sender' = [sender EXCEPT ![n] = "idle"]
    /\ wanted' = [wanted EXCEPT ![n] = TRUE]
    /\ missed' = [missed EXCEPT ![n] = OneMore(n)]
    /\ UNCHANGED <<rowVars, monVars, alive, partition, joining, faults>>

\* Refused, or no answer came: the request is gone, or served all the same.
HeartbeatFails(n) ==
    /\ \/ sender[n] = "refused" /\ UNCHANGED faults
       \/ sender[n] = "sent" /\ Idle(n) /\ UNCHANGED faults
       \/ sender[n] \in {"sent"} \cup Answers /\ Fault
    /\ sender' = [sender EXCEPT ![n] = "idle"]
    /\ missed' = [missed EXCEPT ![n] = OneMore(n)]
    /\ \/ partition' = [partition EXCEPT ![n] = @ \/ OneMore(n) >= Threshold]
       \/ UNCHANGED partition   \* not a GridClientError
    /\ UNCHANGED <<rowVars, monVars, alive, wanted, joining>>

\* The main loop reads the flag and clears it before it registers.
NoticeFlag(n) ==
    /\ alive[n] /\ wanted[n] /\ ~joining[n]
    /\ wanted' = [wanted EXCEPT ![n] = FALSE]
    /\ joining' = [joining EXCEPT ![n] = TRUE]
    /\ UNCHANGED <<rowVars, monVars, alive, sender, missed, partition, faults>>

Reregister(n) ==
    /\ alive[n] /\ joining[n]
    /\ joining' = [joining EXCEPT ![n] = FALSE]
    /\ \/ SetStatus(n, "online") /\ UNCHANGED faults
       \/ Fault /\ UNCHANGED status
    /\ UNCHANGED <<age, owner, chosen, monVars, alive, senderVars>>

-----------------------------------------------------------------------------
(* The handler of a heartbeat *)

\* Requests are served in the order they came: the answer reaches the sender if
\* the request was its last one.
Reply(n, answer) ==
    sender' = [sender EXCEPT ![n] = IF @ = "sent" /\ queue'[n] = 0 THEN answer ELSE @]

Step(n, s) == handler' = [handler EXCEPT ![n] = s]

Accepts(n) ==
    /\ handler[n] = "none" /\ queue[n] > 0
    /\ queue' = [queue EXCEPT ![n] = @ - 1]

\* (mutant: the time is stamped, the status left to the monitor)
StampsOnly(n) ==
    /\ Accepts(n)
    /\ IF status[n] = "none"
       THEN Reply(n, "rejected") /\ UNCHANGED <<age, handler>>
       ELSE /\ age' = [age EXCEPT ![n] = "fresh"]
            /\ Step(n, "look") /\ UNCHANGED sender
    /\ UNCHANGED <<status, owner, chosen, last, pass, alive, missed, partition, wanted, joining, faults>>

\* record_heartbeat.  A row that cannot be read counts as missing; an update
\* that fails is not noticed; a payload may fail its signature, a key its test.
ReceiveHeartbeat(n) ==
    /\ Accepts(n)
    /\ \/ /\ \/ status[n] = "none" /\ Reply(n, "rejected") /\ UNCHANGED faults
             \/ Fault /\ (Reply(n, "rejected") \/ Reply(n, "refused"))
          /\ UNCHANGED <<handler, status, age>>
       \/ /\ status[n] # "none"
          /\ SetStatus(n, "online")
          /\ age' = [age EXCEPT ![n] = "fresh"]
          /\ Step(n, "look") /\ UNCHANGED <<sender, faults>>
       \/ /\ status[n] # "none"
          /\ Fault
          /\ Step(n, "look") /\ UNCHANGED <<sender, status, age>>
    /\ UNCHANGED <<owner, chosen, last, pass, alive, missed, partition, wanted, joining>>

\* (mutant: answered before the recovery is done)
RepliesAtOnce(n) ==
    /\ handler[n] = "look" /\ UNCHANGED queue
    /\ Step(n, IF last[n] \in {"stale", "offline"} THEN "classify" ELSE "none")
    /\ Reply(n, "ok")
    /\ UNCHANGED <<rowVars, last, pass, alive, missed, partition, wanted, joining, faults>>

\* _check_recovery, in the four accesses it makes
LookUpLast(n) ==
    /\ handler[n] = "look" /\ UNCHANGED queue
    /\ IF last[n] \in {"stale", "offline"}
       THEN Step(n, "classify") /\ UNCHANGED sender
       ELSE Step(n, "none") /\ Reply(n, "ok")
    /\ UNCHANGED <<rowVars, last, pass, alive, missed, partition, wanted, joining, faults>>

CheckRecovery(n) ==
    /\ handler[n] = "classify" /\ UNCHANGED queue
    /\ IF Classify(n) = "online"
       THEN Step(n, "mark") /\ UNCHANGED sender
       ELSE Step(n, "none") /\ Reply(n, "ok")
    /\ UNCHANGED <<rowVars, last, pass, alive, missed, partition, wanted, joining, faults>>

MarkRecovered(n) ==
    /\ handler[n] = "mark"
    /\ last' = [last EXCEPT ![n] = "online"]
    /\ Step(n, "restore")
    /\ UNCHANGED <<rowVars, pass, queue, workerVars, faults>>

RestoreAfterHeartbeat(n) ==
    /\ handler[n] = "restore" /\ UNCHANGED queue
    /\ Update(n, "online")
    /\ Step(n, "none") /\ Reply(n, "ok")
    /\ UNCHANGED <<age, owner, chosen, last, pass, alive, missed, partition, wanted, joining, faults>>

-----------------------------------------------------------------------------
(* check_all_nodes *)

At(m, step) == pass[m].step = step

PassGoes(m, p) == pass' = [pass EXCEPT ![m] = p]

BeginPass(m) ==
    /\ At(m, "rest")
    /\ PassGoes(m, [Rest EXCEPT !.step = "next", !.todo = {n \in Nodes : status[n] # "none"}])
    /\ UNCHANGED <<rowVars, last, serverVars, workerVars, faults>>

\* A row that cannot be read counts as missing.
ClassifyNext(m) ==
    /\ At(m, "next")
    /\ \E n \in pass[m].todo, seen \in Health :
          /\ (seen = Classify(n) /\ UNCHANGED faults) \/ (seen = "unknown" /\ Fault)
          /\ PassGoes(m, [pass[m] EXCEPT !.step = "swap", !.todo = @ \ {n},
                                         !.node = n, !.seen = seen])
    /\ UNCHANGED <<rowVars, last, serverVars, workerVars>>

\* What the transition asks for
Duty(was, seen) ==
    CASE was = seen                                              -> "next"
      [] seen = "online" /\ was \in {"stale", "offline", "unknown"} -> "restore"
      [] seen = "offline" /\ was # "offline"                     -> "expel"
      [] OTHER                                                   -> "next"

SwapClassification(m) ==
    /\ At(m, "swap")
    /\ LET n == pass[m].node IN
          /\ last' = [last EXCEPT ![n] = pass[m].seen]
          /\ PassGoes(m, [pass[m] EXCEPT !.step = Duty(last[n], pass[m].seen)])
    /\ UNCHANGED <<rowVars, serverVars, workerVars, faults>>

RestoreNode(m) ==
    /\ At(m, "restore")
    /\ Update(pass[m].node, "online")
    /\ PassGoes(m, [pass[m] EXCEPT !.step = "next"])
    /\ UNCHANGED <<age, owner, chosen, last, serverVars, workerVars, faults>>

\* handle_offline_node: the row, then the tasks assigned to the node, then each
\* of them, by its id alone
MarkOffline(m) ==
    /\ At(m, "expel")
    /\ Update(pass[m].node, "offline")
    /\ PassGoes(m, [pass[m] EXCEPT !.step = "list"])
    /\ UNCHANGED <<age, owner, chosen, last, serverVars, workerVars, faults>>

ListDispatched(m) ==
    /\ At(m, "list")
    /\ PassGoes(m, [pass[m] EXCEPT !.step = "requeue",
                                   !.found = {t \in Tasks : owner[t] = pass[m].node}])
    /\ UNCHANGED <<rowVars, last, serverVars, workerVars, faults>>

Requeue(m) ==
    /\ At(m, "requeue")
    /\ \/ \E t \in pass[m].found :
             /\ owner' = [owner EXCEPT ![t] = NoNode]
             /\ PassGoes(m, [pass[m] EXCEPT !.found = @ \ {t}])
       \/ /\ pass[m].found = {}
          /\ PassGoes(m, [pass[m] EXCEPT !.step = "next"])
          /\ UNCHANGED owner
    /\ UNCHANGED <<status, age, chosen, last, serverVars, workerVars, faults>>

\* A statement that fails is passed over: nothing is tried again.
DutyFails(m) ==
    /\ Fault
    /\ \/ At(m, "restore") /\ PassGoes(m, [pass[m] EXCEPT !.step = "next"])
       \/ At(m, "expel")   /\ PassGoes(m, [pass[m] EXCEPT !.step = "list"])
       \/ At(m, "list")    /\ PassGoes(m, [pass[m] EXCEPT !.step = "next"])
       \/ At(m, "requeue") /\ \E t \in pass[m].found :
                                 PassGoes(m, [pass[m] EXCEPT !.found = @ \ {t}])
    /\ UNCHANGED <<rowVars, last, serverVars, workerVars>>

EndPass(m) ==
    /\ At(m, "next")
    /\ pass[m].todo = {}
    /\ PassGoes(m, Rest)
    /\ UNCHANGED <<rowVars, last, serverVars, workerVars, faults>>

-----------------------------------------------------------------------------
(* Tasks *)

\* A dispatcher selects among the healthy nodes, and claims in a later statement.
ChooseNode(t) ==
    /\ owner[t] = NoNode /\ chosen[t] = NoNode
    /\ \E n \in Nodes :
          /\ Classify(n) = "online"
          /\ chosen' = [chosen EXCEPT ![t] = n]
    /\ UNCHANGED <<status, age, owner, monVars, workerVars, faults>>

ClaimTask(t) ==
    /\ chosen[t] # NoNode
    /\ owner' = [owner EXCEPT ![t] = chosen[t]]
    /\ chosen' = [chosen EXCEPT ![t] = NoNode]
    /\ UNCHANGED <<status, age, monVars, workerVars, faults>>

TaskDone(t) ==
    /\ owner[t] # NoNode
    /\ alive[owner[t]]
    /\ owner' = [owner EXCEPT ![t] = NoNode]
    /\ UNCHANGED <<status, age, chosen, monVars, workerVars, faults>>

\* (mutant: the tasks of an offline node are left to the offline handler)
TimesOutOnline(t) ==
    /\ owner[t] # NoNode
    /\ status[owner[t]] = "online"
    /\ owner' = [owner EXCEPT ![t] = NoNode]
    /\ UNCHANGED <<status, age, chosen, monVars, workerVars, faults>>

\* handle_timed_out_tasks
TimesOut(t) ==
    /\ owner[t] # NoNode
    /\ owner' = [owner EXCEPT ![t] = NoNode]
    /\ UNCHANGED <<status, age, chosen, monVars, workerVars, faults>>

-----------------------------------------------------------------------------

\* The master's process ends; where its disk goes with it, so do the rows.
MasterRestarts ==
    /\ Fault
    /\ last' = [n \in Nodes |-> "unknown"]
    /\ pass' = [m \in Monitors |-> Rest]
    /\ handler' = [n \in Nodes |-> "none"] /\ queue' = [n \in Nodes |-> 0]
    /\ chosen' = [t \in Tasks |-> NoNode]
    /\ \/ UNCHANGED <<status, age, owner>>
       \/ /\ status' = [n \in Nodes |-> "none"]
          /\ age' = [n \in Nodes |-> "never"]
          /\ owner' = [t \in Tasks |-> NoNode]
    /\ UNCHANGED workerVars

HandlerStep(n) ==
    \/ ReceiveHeartbeat(n) \/ LookUpLast(n) \/ CheckRecovery(n)
    \/ MarkRecovered(n) \/ RestoreAfterHeartbeat(n)

SenderStep(n) ==
    \/ SendHeartbeat(n) \/ RetryHeartbeat(n) \/ HeartbeatOK(n) \/ HeartbeatRejected(n)

PassStep(m) ==
    \/ BeginPass(m) \/ ClassifyNext(m) \/ SwapClassification(m) \/ RestoreNode(m)
    \/ MarkOffline(m) \/ ListDispatched(m) \/ Requeue(m) \/ DutyFails(m) \/ EndPass(m)

Next ==
    \/ \E n \in Nodes :
          \/ GrowsOlder(n) \/ Unregister(n) \/ StartWorker(n) \/ StopWorker(n)
          \/ SenderStep(n) \/ HeartbeatFails(n) \/ NoticeFlag(n) \/ Reregister(n)
          \/ HandlerStep(n)
    \/ \E m \in Monitors : PassStep(m)
    \/ \E t \in Tasks : ChooseNode(t) \/ ClaimTask(t) \/ TaskDone(t) \/ TimesOut(t)
    \/ MasterRestarts

Spec == Init /\ [][Next]_vars

\* Monitors get on, requests are answered or break, the clock goes and tasks time
\* out.  Nobody has to start a worker, a dispatch or the monitor.
FairSpec ==
    /\ Spec
    /\ \A n \in Nodes :
          /\ WF_vars(SenderStep(n) \/ HeartbeatFails(n))
          /\ WF_vars(HandlerStep(n))
          /\ WF_vars(NoticeFlag(n)) /\ WF_vars(Reregister(n))
          /\ WF_vars(GrowsOlder(n))
    /\ \A m \in Monitors : WF_vars(PassStep(m))
    /\ \A t \in Tasks : WF_vars(TimesOut(t))

-----------------------------------------------------------------------------
(* Properties *)

\* A worker is in partition mode only while as many heartbeats as the threshold
\* went unanswered in a row, over restarts, late answers and refusals
\* (heartbeat_sender.py:284).
PartitionMeansMisses == \A n \in Nodes : partition[n] => missed[n] >= Threshold

\* A worker that stays up is registered and online again and again, whatever the
\* monitor made of an old reading (heartbeat_monitor.py:221), whoever
\* unregistered it and although the master lost its row (worker_runtime.py:372).
LiveNodesComeBack ==
    \A n \in Nodes : (<>[]alive[n]) => []<>(status[n] = "online")

\* A worker that is gone for good ends up without tasks for good, also those that
\* a dispatcher claimed for it after the monitor had taken its tasks away
\* (failure.py:476) and those it got while a late step called it online.
SilentNodesAreEmptied ==
    \A n \in Nodes : (<>[]~alive[n]) => <>[](\A t \in Tasks : owner[t] # n)
==============================================================================
