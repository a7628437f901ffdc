-------------------------- MODULE GridDispatchProofs --------------------------
(***************************************************************************)
(* The safety of the push dispatcher for every number of tasks, nodes and  *)
(* threads and every bound on the faults: types, who owns a claim, how     *)
(* often a task is requeued, what the records rest on; and that without    *)
(* slow tasks and faults it does its errands.                              *)
(***************************************************************************)
EXTENDS GridDispatch, FiniteSetTheorems, TLAPS

USE ConstantsOK

HandlingSteps == {"choose", "claim", "send", "revert", "count", "quarantine", "release"}

\* A thread that handles or requeues a task has one, and from the choice on a node.
ThreadInv ==
    \A th \in Threads :
        /\ thread[th].step \in {"requeue", "note"} => thread[th].task \in Tasks
        /\ thread[th].step \in HandlingSteps => th \in Dispatchers /\ thread[th].task \in Tasks
        /\ thread[th].step \in {"claim", "send", "revert", "count", "quarantine"} =>
              thread[th].node \in Nodes

\* A handler that is about to write has a report.
RecorderInv == \A r \in Recorders : recorder[r].step # "idle" =>
                   recorder[r].outcome \in Outcomes /\ recorder[r].task \in Tasks

TypeInv == TypeOK /\ ThreadInv /\ RecorderInv

LEMMA ThreadsFinite ==
  /\ IsFiniteSet(Threads)
  /\ Cardinality(Threads) \in Nat
  /\ \A S \in SUBSET Threads : IsFiniteSet(S) /\ Cardinality(S) \in Nat
<1>1. IsFiniteSet(Threads)
  BY FS_Union DEF Threads
<1>2. QED
  BY <1>1, FS_Subset, FS_CardinalityType

LEMMA RestingThread == Resting \in ThreadStates /\ Listening \in RecorderStates
  BY DEF Resting, Listening, ThreadStates, RecorderStates, Steps

LEMMA InitTypeInv == Init => TypeInv
<1> SUFFICES ASSUME Init PROVE TypeInv
  OBVIOUS
<1>1. TypeOK
  BY RestingThread DEF Init, TypeOK, Statuses
<1>2. ThreadInv /\ RecorderInv
  BY DEF Init, ThreadInv, RecorderInv, Resting, Listening, HandlingSteps
<1>3. QED
  BY <1>1, <1>2 DEF TypeInv

(***************************************************************************)
(* The steps of the system, by who takes them.                             *)
(***************************************************************************)
SweepAction(th) ==
    \/ \E S \in SUBSET Tasks : StartSweep(th, S)
    \/ \E n \in Nodes : MarkOffline(th, n)
    \/ ListDispatched(th)
    \/ \E t \in Tasks : ReadRetryCount(th, t)
    \/ Requeue(th) \/ RequeueFails(th) \/ WriteNote(th) \/ EndSweep(th)

DispatchAction(d) ==
    \/ FetchPlanned(d) \/ NextInBatch(d) \/ EndCycle(d)
    \/ \E t \in Tasks : DispatchDirectly(d, t)
    \/ Choose(d) \/ Claim(d) \/ ClaimFails(d)
    \/ SendSucceeds(d) \/ SendTimesOut(d) \/ SendIsRefused(d) \/ SendBreaks(d)
    \/ Revert(d) \/ CycleAborts(d) \/ CountFailure(d) \/ Quarantine(d) \/ Release(d)

NodeAction(n) ==
    \/ NodeStep(n) \/ Heartbeat(n) \/ QuarantineExpires(n)
    \/ HeartbeatsStop(n) \/ WorkerRestarts(n)

LEMMA NextCases ==
  ASSUME [Next]_vars
  PROVE  \/ \E th \in Threads : SweepAction(th)
         \/ \E d \in Dispatchers : DispatchAction(d)
         \/ \E n \in Nodes : NodeAction(n)
         \/ \E r \in Recorders : RecorderStep(r)
         \/ LoseReport
         \/ MasterRestarts
         \/ UNCHANGED vars
  BY DEF Next, SweeperStep, SweepStep, DispatcherStep, SweepAction, DispatchAction,
         NodeAction, Threads, TimeKeepers, Sweepers

(***************************************************************************)
(* What one step of a thread does to the threads.                          *)
(***************************************************************************)

\* The step of th changes no other thread.
Alone(th) == \A x \in Threads \ {th} : thread'[x] = thread[x]

\* The step of th leaves it in a state it may be in.
Proper(th) ==
    /\ thread'[th].step \in {"requeue", "note"} => thread'[th].task \in Tasks
    /\ thread'[th].step \in HandlingSteps =>
          th \in Dispatchers /\ thread'[th].task \in Tasks
    /\ thread'[th].step \in {"claim", "send", "revert", "count", "quarantine"} =>
          thread'[th].node \in Nodes

LEMMA ThreadInvMoves ==
  ASSUME TypeInv, NEW th \in Threads, thread' \in [Threads -> ThreadStates],
         Alone(th), Proper(th)
  PROVE  ThreadInv'
  BY DEF TypeInv, ThreadInv, Alone, Proper

\* thread' of every step of a thread
StepOf(th) == /\ thread' \in [Threads -> ThreadStates]
              /\ Alone(th)
              /\ Proper(th)

LEMMA SweepThreads ==
  ASSUME TypeInv, NEW th \in Threads,
         SweepAction(th)
  PROVE  StepOf(th)
<1>0. /\ thread \in [Threads -> ThreadStates] /\ thread[th] \in ThreadStates
      /\ thread[th].step \in {"requeue", "note"} => thread[th].task \in Tasks
  BY DEF TypeInv, TypeOK, ThreadInv
<1> USE <1>0 DEF ThreadStates, Steps, StepOf, Alone, Proper, HandlingSteps, At, Go
<1>1. CASE \E S \in SUBSET Tasks : StartSweep(th, S)
  <2>1. PICK S \in SUBSET Tasks :
           thread' = [thread EXCEPT ![th].step = "sweep", ![th].todo = S]
    BY <1>1 DEF StartSweep
  <2>2. QED
    BY <2>1
<1>2. CASE \E n \in Nodes : MarkOffline(th, n)
  <2>1. PICK n \in Nodes : thread' = [thread EXCEPT ![th].step = "list", ![th].node = n]
    BY <1>2 DEF MarkOffline
  <2>2. QED
    BY <2>1
<1>3. CASE ListDispatched(th)
  <2> DEFINE S == {t \in Tasks : status[t] = "dispatched_to_node"
                                  /\ assigned[t] = thread[th].node}
  <2>1. thread' = [thread EXCEPT ![th].step = "sweep", ![th].node = NoNode, ![th].todo = S]
    BY <1>3 DEF ListDispatched
  <2>2. S \in SUBSET Tasks
    OBVIOUS
  <2> HIDE DEF S
  <2>3. QED
    BY <2>1, <2>2
<1>4. CASE \E t \in Tasks : ReadRetryCount(th, t)
  <2>1. PICK t \in Tasks : ReadRetryCount(th, t)
    BY <1>4
  <2> DEFINE R == thread[th].todo \ {t}
  <2>2. PICK seen \in {notes[t], 0} :
           thread' = [thread EXCEPT ![th].step = "requeue", ![th].task = t,
                                    ![th].todo = R, ![th].count = seen]
    BY <2>1 DEF ReadRetryCount
  <2>3. seen \in Nat
    BY <2>2 DEF TypeInv, TypeOK
  <2>4. R \in SUBSET Tasks
    OBVIOUS
  <2> HIDE DEF R
  <2>5. QED
    BY <2>2, <2>3, <2>4
<1>5. CASE Requeue(th)
  BY <1>5 DEF Requeue
<1>6. CASE RequeueFails(th)
  BY <1>6 DEF RequeueFails
<1>7. CASE WriteNote(th)
  BY <1>7 DEF WriteNote
<1>8. CASE EndSweep(th)
  BY <1>8 DEF EndSweep
<1>9. QED
  BY <1>1, <1>2, <1>3, <1>4, <1>5, <1>6, <1>7, <1>8 DEF SweepAction

\* A sweep's step leaves the thread in the sweep or idle.
LEMMA SweepSteps ==
  ASSUME TypeInv, NEW th \in Threads, SweepAction(th)
  PROVE  thread'[th].step \in {"list", "sweep", "requeue", "note", "idle"}
<1>0. thread \in [Threads -> ThreadStates] /\ thread[th] \in ThreadStates
  BY DEF TypeInv, TypeOK
<1> USE <1>0 DEF ThreadStates, Go
<1>1. CASE \E S \in SUBSET Tasks : StartSweep(th, S)
  BY <1>1 DEF StartSweep
<1>2. CASE \E n \in Nodes : MarkOffline(th, n)
  BY <1>2 DEF MarkOffline
<1>3. CASE ListDispatched(th)
  BY <1>3 DEF ListDispatched
<1>4. CASE \E t \in Tasks : ReadRetryCount(th, t)
  BY <1>4 DEF ReadRetryCount
<1>5. CASE Requeue(th)
  BY <1>5 DEF Requeue
<1>6. CASE RequeueFails(th) \/ WriteNote(th) \/ EndSweep(th)
  BY <1>6 DEF RequeueFails, WriteNote, EndSweep
<1>7. QED
  BY <1>1, <1>2, <1>3, <1>4, <1>5, <1>6 DEF SweepAction

LEMMA TakeThreads ==
  ASSUME TypeInv, NEW d \in Dispatchers, NEW t \in Tasks, Take(d, t)
  PROVE  StepOf(d)
<1>0. d \in Threads /\ thread \in [Threads -> ThreadStates] /\ thread[d] \in ThreadStates
  BY DEF TypeInv, TypeOK, Threads
<1> USE <1>0 DEF ThreadStates, Steps, StepOf, Alone, Proper, HandlingSteps
<1>1. CASE t \notin inFlight
  BY <1>1 DEF Take
<1>2. CASE t \in inFlight
  BY <1>2 DEF Take
<1>3. QED
  BY <1>1, <1>2

LEMMA TryAgainThreads ==
  ASSUME TypeInv, NEW d \in Dispatchers, NEW kept, At(d, "send"), TryAgain(d, kept)
  PROVE  StepOf(d)
<1>0. /\ d \in Threads /\ thread \in [Threads -> ThreadStates] /\ thread[d] \in ThreadStates
      /\ thread[d].step = "send" /\ thread[d].task \in Tasks /\ thread[d].node \in Nodes
  BY DEF TypeInv, TypeOK, ThreadInv, Threads, HandlingSteps, At
<1> USE <1>0 DEF ThreadStates, Steps, StepOf, Alone, Proper, HandlingSteps
<1>1. CASE thread' = [thread EXCEPT ![d].count = @ + 1]
  BY <1>1
<1>2. CASE Go(d, "revert")
  BY <1>2 DEF Go
<1>3. QED
  BY <1>1, <1>2 DEF TryAgain

\* The threads after each step of a dispatcher that is not a sweep's.
LEMMA DispatchThreads ==
  ASSUME TypeInv, NEW d \in Dispatchers,
         DispatchAction(d)
  PROVE  StepOf(d)
<1>1. CASE NextInBatch(d)
  <2>1. PICK t \in thread[d].todo : Take(d, t)
    BY <1>1 DEF NextInBatch
  <2>2. t \in Tasks
    BY <2>1 DEF TypeInv, TypeOK, ThreadStates, Threads
  <2>3. QED
    BY <2>1, <2>2, TakeThreads
<1>2. CASE \E t \in Tasks : DispatchDirectly(d, t)
  BY <1>2, TakeThreads DEF DispatchDirectly
<1>3. CASE SendTimesOut(d) \/ SendBreaks(d)
  BY <1>3, TryAgainThreads DEF SendTimesOut, SendBreaks
<1>0. /\ d \in Threads /\ thread \in [Threads -> ThreadStates] /\ thread[d] \in ThreadStates
      /\ thread[d].step \in HandlingSteps => thread[d].task \in Tasks
      /\ thread[d].step \in {"claim", "send", "revert", "count", "quarantine"} =>
            thread[d].node \in Nodes
  BY DEF TypeInv, TypeOK, ThreadInv, Threads
<1> USE <1>0 DEF ThreadStates, Steps, StepOf, Alone, Proper, HandlingSteps, At, Go
<1>4. CASE FetchPlanned(d)
  <2>1. Batch \in SUBSET Tasks
    BY DEF Batch
  <2>2. QED
    BY <1>4, <2>1 DEF FetchPlanned
<1>5. CASE EndCycle(d)
  BY <1>5 DEF EndCycle
<1>6. CASE Choose(d)
  <2>1. CASE \E n \in Eligible : thread' = [thread EXCEPT ![d].step = "claim", ![d].node = n]
    <3>1. PICK n \in Nodes : thread' = [thread EXCEPT ![d].step = "claim", ![d].node = n]
      BY <2>1 DEF Eligible, TypeInv, TypeOK
    <3>2. QED
      BY <1>6, <3>1 DEF Choose
  <2>2. CASE Go(d, "release")
    BY <1>6, <2>2 DEF Choose
  <2>3. QED
    BY <1>6, <2>1, <2>2 DEF Choose
<1>7. CASE Claim(d)
  <2>1. CASE thread' = [thread EXCEPT ![d].step = "send", ![d].count = 1]
    BY <1>7, <2>1 DEF Claim
  <2>2. CASE Go(d, "release")
    BY <1>7, <2>2 DEF Claim
  <2>3. QED
    BY <1>7, <2>1, <2>2 DEF Claim
<1>8. CASE SendSucceeds(d)
  BY <1>8 DEF SendSucceeds
<1>9. CASE Revert(d)
  BY <1>9 DEF Revert
<1>10. CASE CycleAborts(d)
  BY <1>10 DEF CycleAborts
<1>15. CASE SendIsRefused(d) \/ ClaimFails(d)
  BY <1>15 DEF SendIsRefused, ClaimFails
<1>11. CASE CountFailure(d)
  <2>1. Go(d, "quarantine") \/ Go(d, "release")
    BY <1>11 DEF CountFailure
  <2>2. QED
    BY <1>11, <2>1 DEF CountFailure
<1>12. CASE Quarantine(d)
  BY <1>12 DEF Quarantine
<1>13. CASE Release(d)
  BY <1>13 DEF Release
<1>14. QED
  BY <1>1, <1>2, <1>3, <1>4, <1>5, <1>6, <1>7, <1>8, <1>9, <1>10, <1>11, <1>12, <1>13,
     <1>15 DEF DispatchAction

\* A dispatcher's own step neither leaves nor enters a requeue.
LEMMA DispatchSteps ==
  ASSUME TypeInv, NEW d \in Dispatchers, DispatchAction(d)
  PROVE  thread[d].step \notin {"requeue", "note"} /\ thread'[d].step \notin {"requeue", "note"}
<1>0. d \in Threads /\ thread \in [Threads -> ThreadStates] /\ thread[d] \in ThreadStates
  BY DEF TypeInv, TypeOK, Threads
<1> USE <1>0 DEF ThreadStates, At, Go
<1>1. CASE NextInBatch(d) \/ \E t \in Tasks : DispatchDirectly(d, t)
  <2>1. PICK t : Take(d, t) /\ thread[d].step \in {"batch", "idle"}
    BY <1>1 DEF NextInBatch, DispatchDirectly
  <2>2. QED
    BY <2>1 DEF Take
<1>2. CASE FetchPlanned(d) \/ EndCycle(d)
  BY <1>2 DEF FetchPlanned, EndCycle
<1>3. CASE Choose(d)
  BY <1>3 DEF Choose
<1>4. CASE Claim(d)
  BY <1>4 DEF Claim
<1>5. CASE SendSucceeds(d)
  BY <1>5 DEF SendSucceeds
<1>6. CASE SendTimesOut(d) \/ SendBreaks(d)
  <2>1. thread[d].step = "send"
        /\ (thread' = [thread EXCEPT ![d].count = @ + 1] \/ Go(d, "revert"))
    BY <1>6 DEF SendTimesOut, SendBreaks, TryAgain
  <2>2. QED
    BY <2>1
<1>7. CASE Revert(d)
  BY <1>7 DEF Revert
<1>8. CASE CycleAborts(d) \/ SendIsRefused(d) \/ ClaimFails(d)
  BY <1>8 DEF CycleAborts, SendIsRefused, ClaimFails
<1>9. CASE CountFailure(d)
  <2>1. thread[d].step = "count" /\ (Go(d, "quarantine") \/ Go(d, "release"))
    BY <1>9 DEF CountFailure
  <2>2. QED
    BY <2>1
<1>10. CASE Quarantine(d) \/ Release(d)
  BY <1>10 DEF Quarantine, Release
<1>11. QED
  BY <1>1, <1>2, <1>3, <1>4, <1>5, <1>6, <1>7, <1>8, <1>9, <1>10 DEF DispatchAction

(***************************************************************************)
(* Types.                                                                  *)
(***************************************************************************)
LEMMA Increment ==
  ASSUME NEW S, NEW f \in [S -> Nat], NEW x \in S
  PROVE  [f EXCEPT ![x] = @ + 1] \in [S -> Nat]
  OBVIOUS

LEMMA TypeSweep ==
  ASSUME TypeInv, NEW th \in Threads, thread' \in [Threads -> ThreadStates],
         SweepAction(th)
  PROVE  TypeOK'
<1> USE DEF TypeInv, TypeOK, rowVars, nodeVars, memVars, workerVars, ghostVars
<1>1. CASE \E S \in SUBSET Tasks : StartSweep(th, S)
  BY <1>1 DEF StartSweep
<1>2. CASE \E n \in Nodes : MarkOffline(th, n)
  <2>1. PICK n \in Nodes : MarkOffline(th, n)
    BY <1>2
  <2>2. nodeStatus' \in [Nodes -> {"online", "offline"}]
    BY <2>1 DEF MarkOffline
  <2>3. QED
    BY <2>1, <2>2 DEF MarkOffline
<1>3. CASE ListDispatched(th)
  BY <1>3 DEF ListDispatched
<1>4. CASE \E t \in Tasks : ReadRetryCount(th, t)
  <2>1. PICK t \in Tasks : ReadRetryCount(th, t)
    BY <1>4
  <2>2. faults' \in 0..MaxFaults /\ unnoted' \in [Tasks -> Nat]
    <3>1. PICK seen \in {notes[t], 0} :
             \/ faults' = faults /\ unnoted' = unnoted
             \/ faults < MaxFaults /\ faults' = faults + 1
                /\ unnoted' = [unnoted EXCEPT ![t] = @ + 1]
      BY <2>1 DEF ReadRetryCount, Fault
    <3>2. faults' \in 0..MaxFaults
      BY <3>1
    <3>3. [unnoted EXCEPT ![t] = @ + 1] \in [Tasks -> Nat]
      BY Increment, Zenon
    <3>4. unnoted' \in [Tasks -> Nat]
      BY <3>1, <3>3, Zenon
    <3>5. QED
      BY <3>2, <3>4
  <2>3. QED
    BY <2>1, <2>2 DEF ReadRetryCount
<1>5. CASE Requeue(th)
  <2> thread[th].task \in Tasks
    BY <1>5 DEF Requeue, ThreadInv, At
  <2> DEFINE t == thread[th].task
  <2>0. /\ \/ status' = [status EXCEPT ![t] = "abandoned"]
           \/ status' = [status EXCEPT ![t] = "planned"]
        /\ requeued' = requeued \/ requeued' = [requeued EXCEPT ![t] = @ + 1]
    BY <1>5 DEF Requeue
  <2> t \in Tasks
    OBVIOUS
  <2> HIDE DEF t
  <2>1. status' \in [Tasks -> Statuses] /\ requeued' \in [Tasks -> Nat]
    <3>1. status' \in [Tasks -> Statuses]
      BY <2>0 DEF Statuses
    <3>2. [requeued EXCEPT ![t] = @ + 1] \in [Tasks -> Nat]
      BY Increment, Zenon
    <3>3. requeued' \in [Tasks -> Nat]
      BY <2>0, <3>2, Zenon
    <3>4. QED
      BY <3>1, <3>3
  <2>2. assigned' \in [Tasks -> Nodes \cup {NoNode}]
    BY <1>5 DEF Requeue
  <2>3. QED
    BY <1>5, <2>1, <2>2 DEF Requeue
<1>6. CASE RequeueFails(th)
  BY <1>6 DEF RequeueFails, Fault
<1>7. CASE WriteNote(th)
  <2> thread[th].task \in Tasks
    BY <1>7 DEF WriteNote, ThreadInv, At
  <2> DEFINE t == thread[th].task
  <2>0. /\ notes' = notes \/ notes' = [notes EXCEPT ![t] = @ + 1]
        /\ unnoted' = unnoted \/ unnoted' = [unnoted EXCEPT ![t] = @ + 1]
    BY <1>7 DEF WriteNote
  <2> t \in Tasks
    OBVIOUS
  <2> HIDE DEF t
  <2>1. notes' \in [Tasks -> Nat] /\ unnoted' \in [Tasks -> Nat]
    <3>1. /\ [notes EXCEPT ![t] = @ + 1] \in [Tasks -> Nat]
          /\ [unnoted EXCEPT ![t] = @ + 1] \in [Tasks -> Nat]
      BY Increment, Zenon
    <3>2. QED
      BY <2>0, <3>1, Zenon
  <2>2. faults' \in 0..MaxFaults
    BY <1>7, SMTT(30) DEF WriteNote, Fault
  <2>3. QED
    BY <1>7, <2>1, <2>2 DEF WriteNote
<1>8. CASE EndSweep(th)
  BY <1>8 DEF EndSweep
<1>9. QED
  BY <1>1, <1>2, <1>3, <1>4, <1>5, <1>6, <1>7, <1>8 DEF SweepAction

LEMMA PostIsPost ==
  ASSUME TypeInv, NEW d \in Dispatchers, At(d, "claim") \/ At(d, "send")
  PROVE  Post(d) \in Posts
<1>1. thread[d].task \in Tasks /\ thread[d].node \in Nodes
  BY DEF TypeInv, ThreadInv, HandlingSteps, Threads, At
<1>2. QED
  BY <1>1 DEF Post, Posts

LEMMA TypeTryAgain ==
  ASSUME TypeInv, NEW d \in Dispatchers, At(d, "send"),
         NEW kept \in SUBSET Posts, TryAgain(d, kept)
  PROVE  posts' \in SUBSET Posts
<1>1. Post(d) \in Posts
  BY PostIsPost
<1>2. QED
  BY <1>1 DEF TryAgain

LEMMA TypeDispatch ==
  ASSUME TypeInv, NEW d \in Dispatchers, thread' \in [Threads -> ThreadStates],
         DispatchAction(d)
  PROVE  TypeOK'
<1>0. /\ thread[d].step \in HandlingSteps => thread[d].task \in Tasks
      /\ thread[d].step \in {"claim", "send", "revert", "count", "quarantine"} =>
            thread[d].node \in Nodes
      /\ thread[d].todo \in SUBSET Tasks
  BY DEF TypeInv, ThreadInv, TypeOK, ThreadStates, Threads
<1> USE DEF TypeInv, TypeOK, rowVars, nodeVars, memVars, workerVars, ghostVars
<1>1. CASE FetchPlanned(d) \/ EndCycle(d)
  BY <1>1 DEF FetchPlanned, EndCycle
<1>2. CASE NextInBatch(d)
  <2>1. PICK t \in thread[d].todo : Take(d, t)
    BY <1>2 DEF NextInBatch
  <2>2. inFlight' \in SUBSET Tasks
    BY <1>0, <2>1 DEF Take
  <2>3. QED
    BY <1>2, <2>2 DEF NextInBatch
<1>3. CASE \E t \in Tasks : DispatchDirectly(d, t)
  <2>1. inFlight' \in SUBSET Tasks
    BY <1>3 DEF DispatchDirectly, Take
  <2>2. QED
    BY <1>3, <2>1 DEF DispatchDirectly
<1>4. CASE Choose(d)
  BY <1>4 DEF Choose
<1>5. CASE Claim(d)
  <2>1. Post(d) \in Posts
    BY <1>5, PostIsPost DEF Claim
  <2>2. status' \in [Tasks -> Statuses] /\ posts' \in SUBSET Posts
    <3>1. status' \in [Tasks -> Statuses]
      BY <1>5 DEF Claim, Statuses
    <3>2. posts' \in SUBSET Posts
      BY <1>5, <2>1 DEF Claim
    <3>3. QED
      BY <3>1, <3>2
  <2>3. thread[d].node \in Nodes
    BY <1>0, <1>5 DEF Claim, At
  <2>4. assigned' \in [Tasks -> Nodes \cup {NoNode}]
    BY <1>5, <2>3 DEF Claim
  <2>5. QED
    BY <1>5, <2>2, <2>4 DEF Claim
<1>6. CASE SendSucceeds(d)
  <2>1. posts' \in SUBSET Posts /\ failCount' \in [Nodes -> Nat]
    BY <1>6 DEF SendSucceeds
  <2>2. QED
    BY <1>6, <2>1 DEF SendSucceeds
<1>7. CASE SendTimesOut(d)
  <2>1. PICK p \in Pending(d) :
          \/ TryAgain(d, posts \ {p})
          \/ TryAgain(d, (posts \ {p}) \cup {[p EXCEPT !.orphan = faults + 1]})
    BY <1>7 DEF SendTimesOut
  <2>2. p \in Posts /\ faults + 1 \in Nat
    BY DEF Pending
  <2>3. [p EXCEPT !.orphan = faults + 1] \in Posts
    BY <2>2 DEF Posts
  <2>4. posts \ {p} \in SUBSET Posts
        /\ (posts \ {p}) \cup {[p EXCEPT !.orphan = faults + 1]} \in SUBSET Posts
    BY <2>3
  <2>5. posts' \in SUBSET Posts
    BY <1>7, <2>1, <2>4, TypeTryAgain DEF SendTimesOut
  <2>6. faults' \in 0..MaxFaults
    BY <1>7 DEF SendTimesOut, Fault
  <2>7. QED
    BY <1>7, <2>5, <2>6 DEF SendTimesOut
<1>8. CASE SendBreaks(d)
  <2>1. posts' \in SUBSET Posts
    BY <1>8, TypeTryAgain DEF SendBreaks
  <2>2. QED
    BY <1>8, <2>1 DEF SendBreaks
<1>9. CASE Revert(d)
  <2>1. status' \in [Tasks -> Statuses] /\ assigned' \in [Tasks -> Nodes \cup {NoNode}]
    BY <1>9 DEF Revert, Statuses
  <2>2. QED
    BY <1>9, <2>1 DEF Revert
<1>10. CASE CycleAborts(d) \/ ClaimFails(d)
  BY <1>10 DEF CycleAborts, ClaimFails, Fault
<1>15. CASE SendIsRefused(d)
  <2>1. posts' \in SUBSET Posts
    BY <1>15 DEF SendIsRefused
  <2>2. QED
    BY <1>15, <2>1 DEF SendIsRefused, Fault
<1>11. CASE CountFailure(d)
  <2> thread[d].node \in Nodes
    BY <1>0, <1>11 DEF CountFailure, At
  <2>1. failCount' \in [Nodes -> Nat]
    BY <1>11 DEF CountFailure
  <2>2. QED
    BY <1>11, <2>1 DEF CountFailure
<1>12. CASE Quarantine(d)
  <2>1. thread[d].node \in Nodes
    BY <1>0, <1>12 DEF Quarantine, At
  <2>2. QED
    BY <1>12, <2>1 DEF Quarantine
<1>13. CASE Release(d)
  BY <1>13 DEF Release, StillInFlight
<1>14. QED
  BY <1>1, <1>2, <1>3, <1>4, <1>5, <1>6, <1>7, <1>8, <1>9, <1>10, <1>11, <1>12, <1>13,
     <1>15 DEF DispatchAction

\* A node's request after each of its steps.
LEMMA MovedPosts ==
  ASSUME TypeInv, NEW p \in posts,
         NEW at \in {"arriving", "queueing", "marking", "answered"}
  PROVE  Moved(p, at) \in SUBSET Posts /\ Answer(p) \in SUBSET Posts
<1>1. p \in Posts /\ posts \in SUBSET Posts
  BY DEF TypeInv, TypeOK
<1>2. [p EXCEPT !.at = at] \in Posts /\ [p EXCEPT !.at = "answered"] \in Posts
  BY <1>1 DEF Posts
<1>3. QED
  BY <1>1, <1>2 DEF Moved, Answer

LEMMA TypeNode ==
  ASSUME TypeInv, NEW n \in Nodes,
         NodeAction(n)
  PROVE  TypeOK'
<1> USE DEF TypeInv, TypeOK, rowVars, nodeVars, memVars, workerVars, ghostVars
<1>1. CASE \E p \in posts : CheckDuplicate(p) \/ Enqueue(p) \/ MarkAccepted(p)
  <2>1. PICK p \in posts : CheckDuplicate(p) \/ Enqueue(p) \/ MarkAccepted(p)
    BY <1>1
  <2>2. p \in Posts /\ p.task \in Tasks
    BY DEF Posts
  <2>3. posts' \in SUBSET Posts
    <3>1. /\ Answer(p) \in SUBSET Posts
          /\ Moved(p, "queueing") \in SUBSET Posts /\ Moved(p, "marking") \in SUBSET Posts
      BY MovedPosts
    <3>2. posts' \in {Answer(p), Moved(p, "queueing"), Moved(p, "marking")}
      BY <2>1 DEF CheckDuplicate, Enqueue, MarkAccepted
    <3>3. QED
      BY <3>1, <3>2
  <2>4. CASE CheckDuplicate(p)
    BY <2>3, <2>4 DEF CheckDuplicate
  <2>5. CASE Enqueue(p)
    <3>0. \A m \in Nodes : Append(queue[m], p.task) \in Seq(Tasks)
      BY <2>2
    <3>1. queue' \in [Nodes -> Seq(Tasks)]
      BY <3>0, <2>5 DEF Enqueue
    <3>2. QED
      BY <2>3, <2>5, <3>1 DEF Enqueue
  <2>6. CASE MarkAccepted(p)
    <3>1. accepted' \in [Nodes -> SUBSET Tasks]
      BY <2>2, <2>6 DEF MarkAccepted
    <3>2. QED
      BY <2>3, <2>6, <3>1 DEF MarkAccepted
  <2>7. QED
    BY <2>1, <2>4, <2>5, <2>6
<1>2. CASE Dequeue(n)
  <2>1. queue[n] \in Seq(Tasks) /\ queue[n] # <<>>
    BY <1>2 DEF Dequeue
  <2>2. Head(queue[n]) \in Tasks /\ Tail(queue[n]) \in Seq(Tasks)
    BY <2>1
  <2>3. queue' \in [Nodes -> Seq(Tasks)] /\ work' \in [Nodes -> Tasks \cup {NoTask}]
    BY <1>2, <2>2 DEF Dequeue
  <2>4. QED
    BY <1>2, <2>3 DEF Dequeue
<1>3. CASE FinishWork(n)
  <2> DEFINE report(o) == [task |-> work[n], node |-> n, outcome |-> o, id |-> runs[work[n]]]
  <2>1. PICK o \in Outcomes : /\ reports' = reports \cup {report(o)}
                              /\ produced' = [produced EXCEPT ![work[n]] = @ \cup {report(o)}]
    BY <1>3 DEF FinishWork
  <2>2. work[n] \in Tasks
    BY <1>3 DEF FinishWork
  <2>3. report(o) \in Reports
    BY <2>2 DEF Reports
  <2> HIDE DEF report
  <2>4. reports' \in SUBSET Reports /\ produced' \in [Tasks -> SUBSET Reports]
    BY <2>1, <2>2, <2>3
  <2>5. runs' \in [Tasks -> Nat] /\ work' \in [Nodes -> Tasks \cup {NoTask}]
    BY <1>3, <2>2 DEF FinishWork
  <2>6. QED
    BY <1>3, <2>4, <2>5 DEF FinishWork
<1>4. CASE Heartbeat(n)
  BY <1>4 DEF Heartbeat
<1>5. CASE QuarantineExpires(n)
  BY <1>5 DEF QuarantineExpires
<1>6. CASE HeartbeatsStop(n)
  BY <1>6 DEF HeartbeatsStop, Fault
<1>7. CASE WorkerRestarts(n)
  <2>1. queue' \in [Nodes -> Seq(Tasks)] /\ work' \in [Nodes -> Tasks \cup {NoTask}]
    BY <1>7 DEF WorkerRestarts
  <2>2. accepted' \in [Nodes -> SUBSET Tasks] /\ posts' \in SUBSET Posts
    BY <1>7 DEF WorkerRestarts
  <2>3. QED
    BY <1>7, <2>1, <2>2 DEF WorkerRestarts, Fault
<1>8. QED
  BY <1>1, <1>2, <1>3, <1>4, <1>5, <1>6, <1>7 DEF NodeAction, NodeStep

LEMMA TypeRecorder ==
  ASSUME TypeInv, NEW r \in Recorders, RecorderStep(r)
  PROVE  TypeOK' /\ RecorderInv'
<1>0. recorder \in [Recorders -> RecorderStates] /\ recorder[r] \in RecorderStates
      /\ (recorder[r].step # "idle" =>
              recorder[r].outcome \in Outcomes /\ recorder[r].task \in Tasks)
      /\ Listening \in RecorderStates
  BY RestingThread DEF TypeInv, TypeOK, RecorderInv
<1>1. CASE \E report \in reports : ReceiveReport(r, report)
  <2>1. PICK report \in reports : ReceiveReport(r, report)
    BY <1>1
  <2> DEFINE c == [step |-> "write", task |-> report.task, node |-> report.node,
                   outcome |-> report.outcome]
  <2>2. recorder' = [recorder EXCEPT ![r] = c] \/ recorder' = recorder
    BY <2>1 DEF ReceiveReport
  <2>3. c \in RecorderStates /\ c.outcome \in Outcomes /\ c.task \in Tasks
    BY DEF TypeInv, TypeOK, Reports, RecorderStates
  <2> HIDE DEF c
  <2>4. recorder' \in [Recorders -> RecorderStates] /\ RecorderInv'
    BY <1>0, <2>2, <2>3 DEF TypeInv, RecorderInv
  <2>5. reports' \in SUBSET Reports /\ faults' \in 0..MaxFaults
    BY <2>1 DEF ReceiveReport, Fault, TypeInv, TypeOK
  <2>6. repeated' \in [Tasks -> Nat]
    <3>1. report.task \in Tasks /\ repeated \in [Tasks -> Nat]
      BY <2>3 DEF TypeInv, TypeOK, Reports
    <3>2. [repeated EXCEPT ![report.task] = @ + 1] \in [Tasks -> Nat]
      BY <3>1, Increment, Zenon
    <3>3. \/ repeated' = repeated
          \/ repeated' = [repeated EXCEPT ![report.task] = @ + 1]
      BY <2>1 DEF ReceiveReport, SentAgain
    <3>4. QED
      BY <3>1, <3>2, <3>3, Zenon
  <2>7. QED
    BY <2>1, <2>4, <2>5, <2>6 DEF ReceiveReport, TypeInv, TypeOK, rowVars, nodeVars, memVars,
                                  workerVars
<1>2. CASE RecordResult(r)
  <2> DEFINE c == IF recorder[r].outcome = "completed"
                  THEN [recorder[r] EXCEPT !.step = "reset"] ELSE Listening
  <2>1. recorder[r].outcome \in Outcomes /\ recorder[r].task \in Tasks
    BY <1>0, <1>2 DEF RecordResult
  <2>2. c \in RecorderStates /\ (c.step # "idle" => c.outcome \in Outcomes /\ c.task \in Tasks)
    BY <1>0, <2>1 DEF RecorderStates, Listening
  <2>3. recorder' = [recorder EXCEPT ![r] = c]
    BY <1>2 DEF RecordResult
  <2> HIDE DEF c
  <2>4. recorder' \in [Recorders -> RecorderStates] /\ RecorderInv'
    BY <1>0, <2>2, <2>3 DEF TypeInv, RecorderInv
  <2>5. status' \in [Tasks -> Statuses]
    BY <1>2, <2>1 DEF RecordResult, StatusAfter, Statuses, TypeInv, TypeOK
  <2>6. results' \in [Tasks -> Nat]
    <3>1. results \in [Tasks -> Nat]
      BY DEF TypeInv, TypeOK
    <3>2. results' = results
          \/ results' = [results EXCEPT ![recorder[r].task] = results[recorder[r].task] + 1]
      BY <1>2 DEF RecordResult
    <3>3. QED
      BY <2>1, <3>1, <3>2, Increment
  <2>7. nodeStatus' \in [Nodes -> {"online", "offline"}]
    BY <1>2 DEF RecordResult, TypeInv, TypeOK
  <2>8. QED
    BY <1>2, <2>4, <2>5, <2>6, <2>7 DEF RecordResult, TypeInv, TypeOK, memVars,
                                        workerVars, ghostVars
<1>3. CASE ResetFailures(r)
  <2>1. recorder' \in [Recorders -> RecorderStates] /\ RecorderInv'
    BY <1>0, <1>3 DEF ResetFailures, TypeInv, RecorderInv, Listening
  <2>2. failCount' \in [Nodes -> Nat]
    BY <1>3 DEF ResetFailures, TypeInv, TypeOK
  <2>3. QED
    BY <1>3, <2>1, <2>2 DEF ResetFailures, TypeInv, TypeOK, rowVars, nodeVars, workerVars,
                            ghostVars
<1>4. QED
  BY <1>1, <1>2, <1>3 DEF RecorderStep

LEMMA TypeMasterRestarts ==
  ASSUME TypeInv, MasterRestarts
  PROVE  TypeInv'
<1> USE DEF rowVars, nodeVars, workerVars
<1>1. thread' \in [Threads -> ThreadStates] /\ ThreadInv'
  BY RestingThread DEF MasterRestarts, ThreadInv, HandlingSteps, Resting
<1>2. recorder' \in [Recorders -> RecorderStates] /\ RecorderInv'
  BY RestingThread DEF MasterRestarts, RecorderInv, Listening
<1>3. posts' \in SUBSET Posts
  <2> DEFINE after(p) == IF p.orphan = 0 THEN [p EXCEPT !.orphan = faults + 1] ELSE p
             left == {q \in posts : q.orphan # 0 \/ q.at # "answered"}
  <2>1. \A p \in posts : after(p) \in Posts
    <3>1. SUFFICES ASSUME NEW p \in posts PROVE after(p) \in Posts
      OBVIOUS
    <3>2. p \in Posts /\ faults + 1 \in Nat
      BY DEF TypeInv, TypeOK
    <3>3. [p EXCEPT !.orphan = faults + 1] \in Posts
      BY <3>2 DEF Posts
    <3>4. QED
      BY <3>2, <3>3
  <2>2. posts' = {after(p) : p \in left}
    BY DEF MasterRestarts
  <2>3. \A p \in left : p \in posts
    OBVIOUS
  <2> HIDE DEF after, left
  <2>4. QED
    BY <2>1, <2>2, <2>3
<1>4. unnoted' \in [Tasks -> Nat]
  <2>1. \A t \in Tasks : NoteWriters(t) \in SUBSET Threads
    BY DEF NoteWriters
  <2>2. \A t \in Tasks : unnoted[t] + Cardinality(NoteWriters(t)) \in Nat
    <3>1. \A t \in Tasks : Cardinality(NoteWriters(t)) \in Nat
      BY <2>1, ThreadsFinite
    <3>2. \A t \in Tasks : unnoted[t] \in Nat
      BY DEF TypeInv, TypeOK
    <3>3. QED
      BY <3>1, <3>2
  <2>3. unnoted' = [t \in Tasks |-> unnoted[t] + Cardinality(NoteWriters(t))]
    BY DEF MasterRestarts
  <2>4. QED
    BY <2>2, <2>3
<1>5. failCount' \in [Nodes -> Nat] /\ faults' \in 0..MaxFaults
  BY DEF MasterRestarts, Fault, TypeInv, TypeOK
<1>6. QED
  BY <1>1, <1>2, <1>3, <1>4, <1>5 DEF MasterRestarts, TypeInv, TypeOK

LEMMA NextTypeInv == TypeInv /\ [Next]_vars => TypeInv'
<1> SUFFICES ASSUME TypeInv, [Next]_vars PROVE TypeInv'
  OBVIOUS
<1> USE DEF rowVars, nodeVars, memVars, workerVars, ghostVars
<1>1. CASE \E th \in Threads : SweepAction(th)
  <2>1. PICK th \in Threads : SweepAction(th)
    BY <1>1
  <2>2. StepOf(th)
    BY <2>1, SweepThreads
  <2>3. TypeOK' /\ ThreadInv'
    BY <2>1, <2>2, TypeSweep, ThreadInvMoves DEF StepOf
  <2>4. recorder' = recorder
    BY <2>1 DEF SweepAction, StartSweep, MarkOffline, ListDispatched, ReadRetryCount, Requeue,
                RequeueFails, WriteNote, EndSweep
  <2>5. QED
    BY <2>3, <2>4 DEF TypeInv, RecorderInv
<1>2. CASE \E d \in Dispatchers : DispatchAction(d)
  <2>1. PICK d \in Dispatchers : DispatchAction(d)
    BY <1>2
  <2>2. StepOf(d) /\ d \in Threads
    BY <2>1, DispatchThreads DEF Threads
  <2>3. TypeOK' /\ ThreadInv'
    BY <2>1, <2>2, TypeDispatch, ThreadInvMoves DEF StepOf
  <2>4. recorder' = recorder
    BY <2>1 DEF DispatchAction, FetchPlanned, NextInBatch, EndCycle, DispatchDirectly, Choose,
                Claim, ClaimFails, SendSucceeds, SendTimesOut, SendIsRefused, SendBreaks,
                Revert, CycleAborts, CountFailure, Quarantine, Release
  <2>5. QED
    BY <2>3, <2>4 DEF TypeInv, RecorderInv
<1>3. CASE \E n \in Nodes : NodeAction(n)
  <2>1. thread' = thread /\ recorder' = recorder
    BY <1>3 DEF NodeAction, NodeStep, CheckDuplicate, Enqueue, MarkAccepted, Dequeue,
                FinishWork, Heartbeat, QuarantineExpires, HeartbeatsStop, WorkerRestarts
  <2>2. QED
    BY <1>3, <2>1, TypeNode DEF TypeInv, ThreadInv, RecorderInv
<1>4. CASE \E r \in Recorders : RecorderStep(r)
  <2>1. thread' = thread
    BY <1>4 DEF RecorderStep, ReceiveReport, RecordResult, ResetFailures
  <2>2. QED
    BY <1>4, <2>1, TypeRecorder DEF TypeInv, ThreadInv
<1>5. CASE LoseReport
  BY <1>5 DEF LoseReport, Fault, TypeInv, TypeOK, ThreadInv, RecorderInv
<1>6. CASE MasterRestarts
  BY <1>6, TypeMasterRestarts
<1>7. CASE UNCHANGED vars
  BY <1>7 DEF vars, TypeInv, TypeOK, ThreadInv, RecorderInv
<1>8. QED
  BY <1>1, <1>2, <1>3, <1>4, <1>5, <1>6, <1>7, NextCases

\* Every reachable state is well typed, and a thread that handles a task knows
\* the task and the node it works on.
THEOREM TypeCorrect == Spec => []TypeOK
<1>1. TypeInv => TypeOK
  BY DEF TypeInv
<1>2. QED
  BY InitTypeInv, NextTypeInv, <1>1, PTL DEF Spec

-----------------------------------------------------------------------------
(***************************************************************************)
(* A sender owns its claim.  Most steps neither start to handle a task nor *)
(* give a row to a node; Take, Claim and Release are the others.           *)
(***************************************************************************)

\* No row is given to a node.
NoClaim == \A t \in Tasks : status'[t] = "dispatched_to_node" =>
              status[t] = "dispatched_to_node" /\ assigned'[t] = assigned[t]

Sending(d) == At(d, "send") \/ At(d, "revert")

\* The step of th takes it neither to a task nor to a node.
NoTake(th) ==
    \A t \in Tasks : Handling(th, t)' =>
        /\ Handling(th, t)
        /\ Sending(th)' => Sending(th) /\ thread'[th].node = thread[th].node

LEMMA OwnerKept ==
  ASSUME SenderOwnsClaim, NEW th \in Threads, Alone(th), NoTake(th), NoClaim,
         inFlight' = inFlight
  PROVE  SenderOwnsClaim'
<1> SUFFICES ASSUME NEW d \in Dispatchers, NEW t \in Tasks, Handling(d, t)'
             PROVE  /\ t \in inFlight'
                    /\ \A e \in Dispatchers : Handling(e, t)' => e = d
                    /\ Sending(d)' => (status'[t] = "dispatched_to_node" =>
                                          assigned'[t] = thread'[d].node)
  BY DEF SenderOwnsClaim, Sending, At
<1>1. \A e \in Dispatchers : Handling(e, t)' => Handling(e, t)
  BY DEF Alone, NoTake, Handling, Threads
<1>2. Sending(d)' => Sending(d) /\ thread'[d].node = thread[d].node
  BY DEF Alone, NoTake, Sending, At, Threads
<1>3. QED
  BY <1>1, <1>2 DEF SenderOwnsClaim, NoClaim, Sending

LEMMA OwnerKeptByRest ==
  ASSUME SenderOwnsClaim, thread' = thread, inFlight' = inFlight, NoClaim
  PROVE  SenderOwnsClaim'
  BY DEF SenderOwnsClaim, Handling, At, NoClaim

LEMMA SweepOwner ==
  ASSUME TypeInv, SenderOwnsClaim, NEW th \in Threads, SweepAction(th)
  PROVE  SenderOwnsClaim'
<1>1. Alone(th)
  BY SweepThreads DEF StepOf
<1>2. inFlight' = inFlight
  BY DEF SweepAction, StartSweep, MarkOffline, ListDispatched, ReadRetryCount, Requeue,
         RequeueFails, WriteNote, EndSweep, memVars
<1>3. NoClaim
  <2>1. CASE Requeue(th)
    BY <2>1 DEF Requeue, NoClaim, TypeInv, TypeOK
  <2>2. CASE ~Requeue(th)
    <3>1. status' = status /\ assigned' = assigned
      BY <2>2 DEF SweepAction, StartSweep, MarkOffline, ListDispatched, ReadRetryCount,
             RequeueFails, WriteNote, EndSweep, rowVars
    <3>2. QED
      BY <3>1 DEF NoClaim
  <2>3. QED
    BY <2>1, <2>2
<1>4. thread'[th].step \in {"list", "sweep", "requeue", "note", "idle"}
  BY SweepSteps
<1>5. NoTake(th)
  BY <1>4 DEF NoTake, Handling
<1>6. QED
  BY <1>1, <1>2, <1>3, <1>5, OwnerKept

LEMMA TakeOwner ==
  ASSUME TypeInv, SenderOwnsClaim, NEW d \in Dispatchers, NEW t \in Tasks, Take(d, t),
         thread[d].step \notin HandlingSteps, status' = status, assigned' = assigned
  PROVE  SenderOwnsClaim'
<1>1. Alone(d) /\ d \in Threads
  BY TakeThreads DEF StepOf, Threads
<1>2. CASE t \in inFlight
  <2>1. thread'[d].step = "batch" /\ inFlight' = inFlight
    BY <1>1, <1>2 DEF Take, TypeInv, TypeOK, ThreadStates
  <2>2. NoTake(d) /\ NoClaim
    BY <2>1 DEF NoTake, NoClaim, Handling
  <2>3. QED
    BY <1>1, <2>1, <2>2, OwnerKept
<1>3. CASE t \notin inFlight
  <2>1. /\ thread'[d].step = "choose" /\ thread'[d].task = t
        /\ inFlight' = inFlight \cup {t}
    BY <1>1, <1>3 DEF Take, TypeInv, TypeOK, ThreadStates
  <2>2. \A e \in Dispatchers : ~Handling(e, t)
    BY <1>3 DEF SenderOwnsClaim
  <2>3. \A e \in Dispatchers \ {d} : thread'[e] = thread[e]
    BY <1>1 DEF Alone, Threads
  <2>4. \A e \in Dispatchers, u \in Tasks :
           Handling(e, u)' => (e = d /\ u = t) \/ (e # d /\ u # t /\ Handling(e, u))
    <3>1. \A u \in Tasks : Handling(d, u)' => u = t
      BY <2>1 DEF Handling
    <3>2. \A e \in Dispatchers \ {d}, u \in Tasks : Handling(e, u)' => Handling(e, u)
      BY <2>3 DEF Handling
    <3>3. QED
      BY <2>2, <3>1, <3>2
  <2>5. SUFFICES ASSUME NEW e \in Dispatchers, NEW u \in Tasks, Handling(e, u)'
                 PROVE  /\ u \in inFlight'
                        /\ \A f \in Dispatchers : Handling(f, u)' => f = e
                        /\ Sending(e)' => (status'[u] = "dispatched_to_node" =>
                                              assigned'[u] = thread'[e].node)
    BY DEF SenderOwnsClaim, Sending, At
  <2>6. u \in inFlight'
    <3>1. u = t \/ Handling(e, u)
      BY <2>4, <2>5
    <3>2. QED
      BY <2>1, <3>1 DEF SenderOwnsClaim
  <2>7. \A f \in Dispatchers : Handling(f, u)' => f = e
    BY <2>4, <2>5 DEF SenderOwnsClaim
  <2>8. Sending(e)' => (status'[u] = "dispatched_to_node" => assigned'[u] = thread'[e].node)
    BY <2>1, <2>3, <2>4, <2>5 DEF SenderOwnsClaim, Sending, At
  <2>9. QED
    BY <2>6, <2>7, <2>8
<1>4. QED
  BY <1>2, <1>3

LEMMA ClaimOwner ==
  ASSUME TypeInv, SenderOwnsClaim, NEW d \in Dispatchers, Claim(d)
  PROVE  SenderOwnsClaim'
<1>1. d \in Threads /\ Alone(d) /\ inFlight' = inFlight
  BY DispatchThreads DEF DispatchAction, StepOf, Threads, Claim, memVars
<1> DEFINE t == thread[d].task
<1>2. thread[d].step = "claim" /\ t \in Tasks /\ Handling(d, t)
  BY <1>1 DEF Claim, At, TypeInv, ThreadInv, HandlingSteps, Handling
<1>3. CASE Claimable(t)
  <2>1. /\ thread'[d].step = "send" /\ thread'[d].task = t
        /\ thread'[d].node = thread[d].node
    BY <1>1, <1>2, <1>3 DEF Claim, TypeInv, TypeOK, ThreadStates
  <2>2. assigned'[t] = thread[d].node
    BY <1>2, <1>3 DEF Claim, TypeInv, TypeOK
  <2>3. \A u \in Tasks \ {t} : status'[u] = status[u] /\ assigned'[u] = assigned[u]
    BY <1>3 DEF Claim, TypeInv, TypeOK
  <2>4. \A e \in Dispatchers \ {d} : thread'[e] = thread[e]
    BY <1>1 DEF Alone, Threads
  <2>5. \A e \in Dispatchers, u \in Tasks : Handling(e, u)' =>
           Handling(e, u) /\ (e = d <=> u = t)
    BY <1>2, <2>1, <2>4 DEF Handling, SenderOwnsClaim
  <2> SUFFICES ASSUME NEW e \in Dispatchers, NEW u \in Tasks, Handling(e, u)'
               PROVE  /\ u \in inFlight'
                      /\ \A f \in Dispatchers : Handling(f, u)' => f = e
                      /\ Sending(e)' => (status'[u] = "dispatched_to_node" =>
                                            assigned'[u] = thread'[e].node)
    BY DEF SenderOwnsClaim, Sending, At
  <2>6. u \in inFlight' /\ \A f \in Dispatchers : Handling(f, u)' => f = e
    BY <1>1, <2>5 DEF SenderOwnsClaim
  <2>7. CASE e = d
    BY <2>1, <2>2, <2>5, <2>6, <2>7
  <2>8. CASE e # d
    BY <2>3, <2>4, <2>5, <2>6, <2>8 DEF SenderOwnsClaim, Sending, At
  <2>9. QED
    BY <2>7, <2>8
<1>4. CASE ~Claimable(t)
  <2>1. thread'[d].step = "release" /\ thread'[d].task = t
    BY <1>1, <1>2, <1>4 DEF Claim, Go, TypeInv, TypeOK, ThreadStates
  <2>2. NoTake(d) /\ NoClaim
    BY <1>2, <1>4, <2>1 DEF NoTake, NoClaim, Handling, Claim, Sending, At
  <2>3. QED
    BY <1>1, <2>2, OwnerKept
<1>5. QED
  BY <1>3, <1>4

LEMMA ReleaseOwner ==
  ASSUME TypeInv, SenderOwnsClaim, NEW d \in Dispatchers, Release(d)
  PROVE  SenderOwnsClaim'
<1>1. d \in Threads /\ Alone(d)
  BY DispatchThreads DEF DispatchAction, StepOf, Threads
<1> DEFINE t == thread[d].task
<1>2. thread[d].step = "release" /\ t \in Tasks /\ Handling(d, t)
  BY <1>1 DEF Release, At, TypeInv, ThreadInv, HandlingSteps, Handling
<1>3. thread'[d].step = "batch"
  BY <1>1 DEF Release, TypeInv, TypeOK, ThreadStates
<1>4. \A e \in Dispatchers \ {d} : thread'[e] = thread[e]
  BY <1>1 DEF Alone, Threads
<1>5. inFlight' = inFlight \ {t} /\ status' = status /\ assigned' = assigned
  BY DEF Release, StillInFlight, rowVars
<1>6. \A e \in Dispatchers, u \in Tasks : Handling(e, u)' =>
         Handling(e, u) /\ e # d /\ u # t
  BY <1>2, <1>3, <1>4 DEF Handling, SenderOwnsClaim
<1>7. QED
  BY <1>4, <1>5, <1>6 DEF SenderOwnsClaim, At

\* The thread of a dispatcher after a step that takes, claims or releases nothing.
LEMMA PlainDispatch ==
  ASSUME TypeInv, NEW d \in Dispatchers,
         \/ FetchPlanned(d) \/ EndCycle(d) \/ Choose(d) \/ SendSucceeds(d)
         \/ SendTimesOut(d) \/ SendIsRefused(d) \/ SendBreaks(d) \/ ClaimFails(d)
         \/ Revert(d) \/ CycleAborts(d) \/ CountFailure(d) \/ Quarantine(d)
  PROVE  NoTake(d)
<1>0. d \in Threads /\ thread \in [Threads -> ThreadStates] /\ thread[d] \in ThreadStates
  BY DEF TypeInv, TypeOK, Threads
<1> USE <1>0 DEF ThreadStates, NoTake, Handling, Sending, At, Go
<1>1. CASE FetchPlanned(d) \/ EndCycle(d)
  BY <1>1 DEF FetchPlanned, EndCycle
<1>2. CASE Choose(d)
  BY <1>2 DEF Choose
<1>3. CASE SendSucceeds(d)
  BY <1>3 DEF SendSucceeds
<1>4. CASE SendTimesOut(d) \/ SendBreaks(d)
  <2>1. thread[d].step = "send"
        /\ (thread' = [thread EXCEPT ![d].count = @ + 1] \/ Go(d, "revert"))
    BY <1>4 DEF SendTimesOut, SendBreaks, TryAgain
  <2>2. QED
    BY <2>1
<1>5. CASE Revert(d)
  BY <1>5 DEF Revert
<1>6. CASE CycleAborts(d) \/ SendIsRefused(d) \/ ClaimFails(d)
  BY <1>6 DEF CycleAborts, SendIsRefused, ClaimFails
<1>7. CASE CountFailure(d)
  <2>1. thread[d].step = "count" /\ (Go(d, "quarantine") \/ Go(d, "release"))
    BY <1>7 DEF CountFailure
  <2>2. QED
    BY <2>1
<1>8. CASE Quarantine(d)
  BY <1>8 DEF Quarantine
<1>9. QED
  BY <1>1, <1>2, <1>3, <1>4, <1>5, <1>6, <1>7, <1>8

LEMMA DispatchOwner ==
  ASSUME TypeInv, SenderOwnsClaim, NEW d \in Dispatchers, DispatchAction(d)
  PROVE  SenderOwnsClaim'
<1>1. CASE NextInBatch(d)
  <2>1. PICK t \in thread[d].todo : Take(d, t)
    BY <1>1 DEF NextInBatch
  <2>2. t \in Tasks
    BY <2>1 DEF TypeInv, TypeOK, ThreadStates, Threads
  <2>3. thread[d].step \notin HandlingSteps /\ status' = status /\ assigned' = assigned
    BY <1>1 DEF NextInBatch, HandlingSteps, At, rowVars
  <2>4. QED
    BY <2>1, <2>2, <2>3, TakeOwner
<1>2. CASE \E t \in Tasks : DispatchDirectly(d, t)
  <2>1. PICK t \in Tasks : DispatchDirectly(d, t)
    BY <1>2
  <2>2. /\ Take(d, t) /\ thread[d].step \notin HandlingSteps
        /\ status' = status /\ assigned' = assigned
    BY <2>1 DEF DispatchDirectly, HandlingSteps, At, rowVars
  <2>3. QED
    BY <2>2, TakeOwner
<1>3. CASE Claim(d)
  BY <1>3, ClaimOwner
<1>4. CASE Release(d)
  BY <1>4, ReleaseOwner
<1>5. CASE \/ FetchPlanned(d) \/ EndCycle(d) \/ Choose(d) \/ SendSucceeds(d)
           \/ SendTimesOut(d) \/ SendIsRefused(d) \/ SendBreaks(d) \/ ClaimFails(d)
           \/ Revert(d) \/ CycleAborts(d) \/ CountFailure(d) \/ Quarantine(d)
  <2>1. NoTake(d)
    BY <1>5, PlainDispatch
  <2>2. d \in Threads /\ Alone(d)
    BY DispatchThreads DEF StepOf, Threads
  <2>3. inFlight' = inFlight
    BY <1>5 DEF FetchPlanned, EndCycle, Choose, SendSucceeds, SendTimesOut, SendIsRefused,
                SendBreaks, ClaimFails, Revert, CycleAborts, CountFailure, Quarantine, memVars
  <2>4. CASE Revert(d)
    <3>1. NoClaim
      BY <2>4 DEF Revert, NoClaim, TypeInv, TypeOK
    <3>2. QED
      BY <2>1, <2>2, <2>3, <3>1, OwnerKept
  <2>5. CASE ~Revert(d)
    <3>1. NoClaim
      BY <1>5, <2>5 DEF FetchPlanned, EndCycle, Choose, SendSucceeds, SendTimesOut,
                        SendIsRefused, SendBreaks, ClaimFails, CycleAborts, CountFailure,
                        Quarantine, rowVars, NoClaim
    <3>2. QED
      BY <2>1, <2>2, <2>3, <3>1, OwnerKept
  <2>6. QED
    BY <2>4, <2>5
<1>6. QED
  BY <1>1, <1>2, <1>3, <1>4, <1>5 DEF DispatchAction

LEMMA RestOwner ==
  ASSUME TypeInv, SenderOwnsClaim,
         \/ \E n \in Nodes : NodeAction(n)
         \/ \E r \in Recorders : RecorderStep(r)
         \/ LoseReport
         \/ UNCHANGED vars
  PROVE  SenderOwnsClaim'
<1>1. thread' = thread /\ inFlight' = inFlight
  BY DEF NodeAction, NodeStep, CheckDuplicate, Enqueue, MarkAccepted, Dequeue, FinishWork,
         Heartbeat, QuarantineExpires, HeartbeatsStop, WorkerRestarts, RecorderStep,
         ReceiveReport, RecordResult, ResetFailures, LoseReport, vars, memVars
<1>2. CASE \E r \in Recorders : RecordResult(r)
  <2>1. PICK r \in Recorders : RecordResult(r)
    BY <1>2
  <2>2. recorder[r].outcome \in Outcomes
    BY <2>1 DEF RecordResult, TypeInv, RecorderInv
  <2>3. NoClaim
    BY <2>1, <2>2 DEF RecordResult, StatusAfter, NoClaim, TypeInv, TypeOK
  <2>4. QED
    BY <1>1, <2>3, OwnerKeptByRest
<1>3. CASE ~\E r \in Recorders : RecordResult(r)
  <2>1. status' = status /\ assigned' = assigned
    BY <1>3 DEF NodeAction, NodeStep, CheckDuplicate, Enqueue, MarkAccepted, Dequeue, FinishWork,
         Heartbeat, QuarantineExpires, HeartbeatsStop, WorkerRestarts, RecorderStep,
         ReceiveReport, ResetFailures, LoseReport, vars, rowVars
  <2>2. NoClaim
    BY <2>1 DEF NoClaim
  <2>3. QED
    BY <1>1, <2>2, OwnerKeptByRest
<1>4. QED
  BY <1>2, <1>3

\* The thread that sends a task is the only one of its process that handles it,
\* and no claim of another is under it: _revert_dispatch takes back its own.
THEOREM SenderOwnsItsClaim == Spec => []SenderOwnsClaim
<1>1. Init => SenderOwnsClaim
  BY DEF Init, SenderOwnsClaim, Handling, Resting, Threads
<1>2. TypeInv /\ SenderOwnsClaim /\ [Next]_vars => SenderOwnsClaim'
  <2> SUFFICES ASSUME TypeInv, SenderOwnsClaim, [Next]_vars PROVE SenderOwnsClaim'
    OBVIOUS
  <2>1. CASE \E th \in Threads : SweepAction(th)
    BY <2>1, SweepOwner
  <2>2. CASE \E d \in Dispatchers : DispatchAction(d)
    BY <2>2, DispatchOwner
  <2>3. CASE MasterRestarts
    <3>1. \A d \in Dispatchers : thread'[d].step = "idle"
      BY <2>3 DEF MasterRestarts, Resting, Threads
    <3>2. QED
      BY <3>1 DEF SenderOwnsClaim, Handling
  <2>4. QED
    BY <2>1, <2>2, <2>3, RestOwner, NextCases
<1>3. QED
  BY InitTypeInv, NextTypeInv, <1>1, <1>2, PTL DEF Spec

-----------------------------------------------------------------------------
(***************************************************************************)
(* The number of requeues.                                                 *)
(***************************************************************************)
LEMMA Counted ==
  ASSUME NEW S \in SUBSET Threads, NEW th \in Threads
  PROVE  /\ Cardinality(S) \in Nat /\ Cardinality(S) <= Cardinality(Threads)
         /\ th \notin S => Cardinality(S \cup {th}) = Cardinality(S) + 1
         /\ th \in S => Cardinality(S \ {th}) = Cardinality(S) - 1
<1>1. IsFiniteSet(S) /\ Cardinality(S) \in Nat
  BY ThreadsFinite
<1>2. Cardinality(S) <= Cardinality(Threads)
  BY ThreadsFinite, FS_Subset
<1>3. QED
  BY <1>1, <1>2, FS_AddElement, FS_RemoveElement

\* Two sets of threads with nothing in common and a further thread are threads.
LEMMA CountedTogether ==
  ASSUME NEW A \in SUBSET Threads, NEW B \in SUBSET Threads, A \cap B = {},
         NEW th \in Threads, th \notin A, th \notin B
  PROVE  Cardinality(A) + Cardinality(B) + 1 <= Cardinality(Threads)
<1>1. IsFiniteSet(A) /\ IsFiniteSet(B)
  BY ThreadsFinite
<1>2. Cardinality(A \cap B) = 0
  BY FS_EmptySet
<1>3. Cardinality(A \cup B) = Cardinality(A) + Cardinality(B) - Cardinality(A \cap B)
  BY <1>1, FS_Union
<1>4. Cardinality(A \cup B) = Cardinality(A) + Cardinality(B)
  BY <1>2, <1>3, ThreadsFinite
<1>5. (A \cup B) \cup {th} \in SUBSET Threads /\ th \notin A \cup B
  OBVIOUS
<1>6. Cardinality((A \cup B) \cup {th}) = Cardinality(A \cup B) + 1
  BY <1>5, Counted
<1>7. Cardinality((A \cup B) \cup {th}) <= Cardinality(Threads)
  BY <1>5, Counted
<1>8. QED
  BY <1>4, <1>6, <1>7, ThreadsFinite

LEMMA RequeueSets ==
  ASSUME NEW t \in Tasks
  PROVE  /\ NoteWriters(t) \in SUBSET Threads /\ Requeuers(t) \in SUBSET Threads
         /\ NoteWriters(t)' \in SUBSET Threads /\ Requeuers(t)' \in SUBSET Threads
         /\ NoteWriters(t) \cap Requeuers(t) = {}
         /\ Cardinality(NoteWriters(t)) \in Nat /\ Cardinality(Requeuers(t)) \in Nat
         /\ Cardinality(NoteWriters(t)') \in Nat /\ Cardinality(Requeuers(t)') \in Nat
         /\ Cardinality(Threads) \in Nat
<1>1. NoteWriters(t) \in SUBSET Threads /\ NoteWriters(t)' \in SUBSET Threads
  BY DEF NoteWriters
<1>2. Requeuers(t) \in SUBSET Threads /\ Requeuers(t)' \in SUBSET Threads
  BY DEF Requeuers
<1>3. NoteWriters(t) \cap Requeuers(t) = {}
  BY DEF NoteWriters, Requeuers, At
<1>4. QED
  BY <1>1, <1>2, <1>3, ThreadsFinite

\* The membership of the thread that moves decides on both sets.
LEMMA RequeueSetsMove ==
  ASSUME NEW th \in Threads, Alone(th), NEW t \in Tasks
  PROVE  /\ NoteWriters(t)' \ {th} = NoteWriters(t) \ {th}
         /\ Requeuers(t)' \ {th} = Requeuers(t) \ {th}
<1>1. \A x \in Threads \ {th} : x \in NoteWriters(t)' <=> x \in NoteWriters(t)
  BY DEF NoteWriters, At, Alone
<1>2. \A x \in Threads \ {th} : x \in Requeuers(t)' <=> x \in Requeuers(t)
  BY DEF Requeuers, At, Alone
<1>3. QED
  BY <1>1, <1>2, RequeueSets

\* Two sets that agree outside of x, which the first does not contain.
LEMMA SameButOne ==
  ASSUME NEW A, NEW B, NEW x, B \ {x} = A \ {x}, x \notin A
  PROVE  /\ B = A \/ B = A \cup {x}
         /\ x \notin B => B = A
  OBVIOUS

\* A step of a thread that neither is nor gets to a requeue or a note.
LEMMA RequeueKept ==
  ASSUME TypeInv, RequeueInv, NEW th \in Threads, Alone(th),
         thread[th].step \notin {"requeue", "note"}, thread'[th].step \notin {"requeue", "note"},
         requeued' = requeued, notes' = notes, unnoted' = unnoted
  PROVE  RequeueInv'
<1>1. ASSUME NEW t \in Tasks
      PROVE  NoteWriters(t)' = NoteWriters(t) /\ Requeuers(t)' = Requeuers(t)
  <2>1. th \notin NoteWriters(t) /\ th \notin NoteWriters(t)'
    BY DEF NoteWriters, At
  <2>2. th \notin Requeuers(t) /\ th \notin Requeuers(t)'
    BY DEF Requeuers, At
  <2>3. QED
    BY <2>1, <2>2, RequeueSetsMove
<1>2. QED
  BY <1>1 DEF RequeueInv

\* The effect on t of a step of th on its task.
LEMMA RequeueElsewhere ==
  ASSUME TypeInv, RequeueInv, NEW th \in Threads, Alone(th), NEW t \in Tasks,
         thread[th].step \in {"requeue", "note"} => thread[th].task # t,
         thread'[th].step \in {"requeue", "note"} => thread'[th].task # t,
         requeued'[t] = requeued[t], notes'[t] = notes[t], unnoted'[t] = unnoted[t]
  PROVE  /\ requeued'[t] <= notes'[t] + Cardinality(NoteWriters(t)') + unnoted'[t]
         /\ requeued'[t] + Cardinality(Requeuers(t)')
               <= MaxReassign - 1 + Cardinality(Threads) + unnoted'[t]
<1>1. th \notin NoteWriters(t) /\ th \notin NoteWriters(t)'
  BY DEF NoteWriters, At
<1>2. th \notin Requeuers(t) /\ th \notin Requeuers(t)'
  BY DEF Requeuers, At
<1>3. /\ NoteWriters(t)' \ {th} = NoteWriters(t) \ {th}
      /\ Requeuers(t)' \ {th} = Requeuers(t) \ {th}
  BY RequeueSetsMove
<1>4. NoteWriters(t)' = NoteWriters(t) /\ Requeuers(t)' = Requeuers(t)
  BY <1>1, <1>2, <1>3, SameButOne
<1>5. QED
  BY <1>4 DEF RequeueInv

LEMMA ReadRequeue ==
  ASSUME TypeInv, RequeueInv, NEW th \in Threads, NEW t \in Tasks, ReadRetryCount(th, t)
  PROVE  RequeueInv'
<1>0. Alone(th)
  BY SweepThreads DEF SweepAction, StepOf
<1>1. PICK seen \in {notes[t], 0} :
        /\ thread' = [thread EXCEPT ![th].step = "requeue", ![th].task = t,
                                    ![th].todo = @ \ {t}, ![th].count = seen]
        /\ \/ seen = notes[t] /\ unnoted' = unnoted
           \/ unnoted' = [unnoted EXCEPT ![t] = @ + 1]
  BY DEF ReadRetryCount
<1>2. /\ thread[th].step = "sweep" /\ thread'[th].step = "requeue"
      /\ thread'[th].task = t /\ thread'[th].count = seen
  BY <1>1 DEF ReadRetryCount, At, TypeInv, TypeOK, ThreadStates
<1>3. requeued' = requeued /\ notes' = notes
  BY DEF ReadRetryCount, rowVars
<1>4. requeued \in [Tasks -> Nat] /\ notes \in [Tasks -> Nat] /\ unnoted \in [Tasks -> Nat]
  BY DEF TypeInv, TypeOK
<1>5. SUFFICES ASSUME NEW u \in Tasks
               PROVE  /\ requeued'[u] <= notes'[u] + Cardinality(NoteWriters(u)') + unnoted'[u]
                      /\ requeued'[u] + Cardinality(Requeuers(u)')
                            <= MaxReassign - 1 + Cardinality(Threads) + unnoted'[u]
  BY DEF RequeueInv
<1>6. CASE u # t
  BY <1>0, <1>1, <1>2, <1>3, <1>4, <1>6, RequeueElsewhere
<1>7. CASE u = t
  <2>1. th \notin NoteWriters(t) /\ th \notin Requeuers(t) /\ th \notin NoteWriters(t)'
    BY <1>2 DEF NoteWriters, Requeuers, At
  <2>2. NoteWriters(t)' = NoteWriters(t)
    BY <1>0, <2>1, RequeueSetsMove
  <2>3. Requeuers(t)' = Requeuers(t) \/ Requeuers(t)' = Requeuers(t) \cup {th}
    BY <1>0, <2>1, RequeueSetsMove, SameButOne
  <2>4. Cardinality(Requeuers(t)') <= Cardinality(Requeuers(t)) + 1
    <3>1. Cardinality(Requeuers(t) \cup {th}) = Cardinality(Requeuers(t)) + 1
      BY <2>1, RequeueSets, Counted
    <3>2. Cardinality(Requeuers(t)) \in Nat
      BY RequeueSets
    <3>3. QED
      BY <2>3, <3>1, <3>2
  <2>5. /\ requeued[t] <= notes[t] + Cardinality(NoteWriters(t)) + unnoted[t]
        /\ requeued[t] + Cardinality(Requeuers(t))
              <= MaxReassign - 1 + Cardinality(Threads) + unnoted[t]
    BY DEF RequeueInv
  <2>6. CASE unnoted' = [unnoted EXCEPT ![t] = @ + 1]
    <3>1. unnoted'[t] = unnoted[t] + 1
      BY <1>4, <2>6
    <3>2. QED
      BY <1>3, <1>4, <1>7, <2>2, <2>4, <2>5, <3>1, RequeueSets
  <2>7. CASE seen = notes[t] /\ unnoted' = unnoted
    <3>1. CASE ReassignmentsUsedUp(seen)
      <4>1. th \notin Requeuers(t)'
        BY <1>2, <3>1 DEF Requeuers
      <4>2. Requeuers(t)' = Requeuers(t)
        BY <1>0, <2>1, <4>1, RequeueSetsMove
      <4>3. QED
        BY <1>3, <1>7, <2>2, <2>5, <2>7, <4>2
    <3>2. CASE ~ReassignmentsUsedUp(seen)
      <4>1. notes[t] <= MaxReassign - 1
        BY <1>4, <2>7, <3>2 DEF ReassignmentsUsedUp
      <4>2. Cardinality(NoteWriters(t)) + Cardinality(Requeuers(t)) + 1 <= Cardinality(Threads)
        BY <2>1, RequeueSets, CountedTogether
      <4>3. QED
        BY <1>3, <1>4, <1>7, <2>2, <2>4, <2>5, <2>7, <4>1, <4>2, RequeueSets
    <3>3. QED
      BY <3>1, <3>2
  <2>8. QED
    BY <1>1, <2>6, <2>7
<1>8. QED
  BY <1>6, <1>7

LEMMA RequeueRequeue ==
  ASSUME TypeInv, RequeueInv, NEW th \in Threads, Requeue(th)
  PROVE  RequeueInv'
<1>0. Alone(th)
  BY SweepThreads DEF SweepAction, StepOf
<1>t. PICK t \in Tasks : t = thread[th].task
  BY DEF Requeue, At, TypeInv, ThreadInv
<1>1. /\ thread[th].step = "requeue" /\ thread'[th].step = "note"
      /\ thread[th].task = t /\ thread'[th].task = t
  BY <1>t DEF Requeue, At, Go, TypeInv, TypeOK, ThreadStates
<1>2. notes' = notes /\ unnoted' = unnoted
  BY DEF Requeue
<1>3. \/ ReassignmentsUsedUp(thread[th].count) /\ requeued' = requeued
      \/ ~ReassignmentsUsedUp(thread[th].count)
         /\ requeued' = [requeued EXCEPT ![t] = @ + 1]
  BY <1>t DEF Requeue
<1>4. requeued \in [Tasks -> Nat] /\ notes \in [Tasks -> Nat] /\ unnoted \in [Tasks -> Nat]
  BY DEF TypeInv, TypeOK
<1>5. SUFFICES ASSUME NEW u \in Tasks
               PROVE  /\ requeued'[u] <= notes'[u] + Cardinality(NoteWriters(u)') + unnoted'[u]
                      /\ requeued'[u] + Cardinality(Requeuers(u)')
                            <= MaxReassign - 1 + Cardinality(Threads) + unnoted'[u]
  BY DEF RequeueInv
<1>6. CASE u # t
  <2>1. requeued'[u] = requeued[u]
    BY <1>3, <1>4, <1>6
  <2>2. QED
    BY <1>0, <1>1, <1>2, <1>6, <2>1, RequeueElsewhere
<1>7. CASE u = t
  <2>1. th \notin NoteWriters(t) /\ th \in NoteWriters(t)'
    BY <1>1 DEF NoteWriters, At
  <2>2. NoteWriters(t)' = NoteWriters(t) \cup {th}
    BY <1>0, <1>1, <2>1, RequeueSetsMove
  <2>3. Cardinality(NoteWriters(t)') = Cardinality(NoteWriters(t)) + 1
    BY <1>1, <2>1, <2>2, RequeueSets, Counted
  <2>4. th \notin Requeuers(t)'
    BY <1>1 DEF Requeuers, At
  <2>5. /\ requeued[t] <= notes[t] + Cardinality(NoteWriters(t)) + unnoted[t]
        /\ requeued[t] + Cardinality(Requeuers(t))
              <= MaxReassign - 1 + Cardinality(Threads) + unnoted[t]
    BY <1>1 DEF RequeueInv
  <2>6. CASE ReassignmentsUsedUp(thread[th].count) /\ requeued' = requeued
    <3>1. th \notin Requeuers(t)
      BY <2>6 DEF Requeuers
    <3>2. Requeuers(t)' = Requeuers(t)
      BY <1>0, <1>1, <2>4, <3>1, RequeueSetsMove
    <3>3. QED
      BY <1>1, <1>2, <1>4, <1>7, <2>3, <2>5, <2>6, <3>2, RequeueSets
  <2>7. CASE ~ReassignmentsUsedUp(thread[th].count)
             /\ requeued' = [requeued EXCEPT ![t] = @ + 1]
    <3>1. th \in Requeuers(t)
      BY <1>1, <2>7 DEF Requeuers, At
    <3>2. Requeuers(t)' = Requeuers(t) \ {th}
      BY <1>0, <1>1, <2>4, <3>1, RequeueSetsMove
    <3>3. Cardinality(Requeuers(t)') = Cardinality(Requeuers(t)) - 1
      BY <1>1, <3>1, <3>2, RequeueSets, Counted
    <3>4. requeued'[t] = requeued[t] + 1
      BY <1>1, <1>4, <2>7
    <3>5. QED
      BY <1>1, <1>2, <1>4, <1>7, <2>3, <2>5, <3>3, <3>4, RequeueSets
  <2>8. QED
    BY <1>3, <2>6, <2>7
<1>8. QED
  BY <1>6, <1>7

LEMMA RequeueRequeueFails ==
  ASSUME TypeInv, RequeueInv, NEW th \in Threads, RequeueFails(th)
  PROVE  RequeueInv'
<1>0. Alone(th)
  BY SweepThreads DEF SweepAction, StepOf
<1>1. /\ thread[th].step = "requeue" /\ thread'[th].step = "sweep"
      /\ requeued' = requeued /\ notes' = notes /\ unnoted' = unnoted
  BY DEF RequeueFails, At, TypeInv, TypeOK, ThreadStates, rowVars, ghostVars
<1>2. requeued \in [Tasks -> Nat] /\ notes \in [Tasks -> Nat] /\ unnoted \in [Tasks -> Nat]
  BY DEF TypeInv, TypeOK
<1>3. ASSUME NEW t \in Tasks
      PROVE  /\ requeued[t] <= notes[t] + Cardinality(NoteWriters(t)') + unnoted[t]
             /\ requeued[t] + Cardinality(Requeuers(t)')
                   <= MaxReassign - 1 + Cardinality(Threads) + unnoted[t]
  <2>1. th \notin NoteWriters(t) /\ th \notin NoteWriters(t)' /\ th \notin Requeuers(t)'
    BY <1>1 DEF NoteWriters, Requeuers, At
  <2>2. /\ NoteWriters(t)' \ {th} = NoteWriters(t) \ {th}
        /\ Requeuers(t)' \ {th} = Requeuers(t) \ {th}
    BY <1>0, RequeueSetsMove
  <2>3. NoteWriters(t)' = NoteWriters(t) /\ Requeuers(t)' = Requeuers(t) \ {th}
    BY <2>1, <2>2
  <2>4. Cardinality(Requeuers(t) \ {th}) <= Cardinality(Requeuers(t))
    <3>1. CASE th \in Requeuers(t)
      <4>1. Cardinality(Requeuers(t) \ {th}) = Cardinality(Requeuers(t)) - 1
        BY <3>1, RequeueSets, Counted
      <4>2. QED
        BY <4>1, RequeueSets
    <3>2. CASE th \notin Requeuers(t)
      <4>1. Requeuers(t) \ {th} = Requeuers(t)
        BY <3>2
      <4>2. QED
        BY <4>1, RequeueSets
    <3>3. QED
      BY <3>1, <3>2
  <2>5. /\ requeued[t] <= notes[t] + Cardinality(NoteWriters(t)) + unnoted[t]
        /\ requeued[t] + Cardinality(Requeuers(t))
              <= MaxReassign - 1 + Cardinality(Threads) + unnoted[t]
    BY DEF RequeueInv
  <2>6. /\ Cardinality(Requeuers(t)) \in Nat /\ Cardinality(Threads) \in Nat
        /\ Cardinality(Requeuers(t)') \in Nat
    BY RequeueSets
  <2>7. QED
    BY <1>2, <2>3, <2>4, <2>5, <2>6
<1>4. QED
  BY <1>1, <1>3 DEF RequeueInv

LEMMA RequeueWriteNote ==
  ASSUME TypeInv, RequeueInv, NEW th \in Threads, WriteNote(th)
  PROVE  RequeueInv'
<1>0. Alone(th)
  BY SweepThreads DEF SweepAction, StepOf
<1>t. PICK t \in Tasks : t = thread[th].task
  BY DEF WriteNote, At, TypeInv, ThreadInv
<1>1. /\ thread[th].step = "note" /\ thread'[th].step = "sweep"
      /\ thread[th].task = t /\ requeued' = requeued
  BY <1>t DEF WriteNote, At, TypeInv, TypeOK, ThreadStates
<1>2. \/ notes' = [notes EXCEPT ![t] = @ + 1] /\ unnoted' = unnoted
      \/ notes' = notes /\ unnoted' = [unnoted EXCEPT ![t] = @ + 1]
  BY <1>t DEF WriteNote
<1>3. requeued \in [Tasks -> Nat] /\ notes \in [Tasks -> Nat] /\ unnoted \in [Tasks -> Nat]
  BY DEF TypeInv, TypeOK
<1>4. SUFFICES ASSUME NEW u \in Tasks
               PROVE  /\ requeued'[u] <= notes'[u] + Cardinality(NoteWriters(u)') + unnoted'[u]
                      /\ requeued'[u] + Cardinality(Requeuers(u)')
                            <= MaxReassign - 1 + Cardinality(Threads) + unnoted'[u]
  BY DEF RequeueInv
<1>5. CASE u # t
  <2>1. notes'[u] = notes[u] /\ unnoted'[u] = unnoted[u]
    BY <1>2, <1>3, <1>5
  <2>2. QED
    BY <1>0, <1>1, <1>5, <2>1, RequeueElsewhere
<1>6. CASE u = t
  <2>1. /\ th \in NoteWriters(t) /\ th \notin NoteWriters(t)'
        /\ th \notin Requeuers(t) /\ th \notin Requeuers(t)'
    BY <1>1 DEF NoteWriters, Requeuers, At
  <2>2. /\ NoteWriters(t)' \ {th} = NoteWriters(t) \ {th}
        /\ Requeuers(t)' \ {th} = Requeuers(t) \ {th}
    BY <1>0, RequeueSetsMove
  <2>3. NoteWriters(t)' = NoteWriters(t) \ {th} /\ Requeuers(t)' = Requeuers(t)
    BY <2>1, <2>2
  <2>4. Cardinality(NoteWriters(t)') = Cardinality(NoteWriters(t)) - 1
    BY <2>1, <2>3, RequeueSets, Counted
  <2>5. notes'[t] + unnoted'[t] = notes[t] + unnoted[t] + 1 /\ unnoted'[t] >= unnoted[t]
        /\ notes'[t] \in Nat /\ unnoted'[t] \in Nat
    BY <1>2, <1>3
  <2>6. /\ requeued[t] <= notes[t] + Cardinality(NoteWriters(t)) + unnoted[t]
        /\ requeued[t] + Cardinality(Requeuers(t))
              <= MaxReassign - 1 + Cardinality(Threads) + unnoted[t]
    BY DEF RequeueInv
  <2>7. QED
    BY <1>1, <1>3, <1>6, <2>3, <2>4, <2>5, <2>6, RequeueSets
<1>7. QED
  BY <1>5, <1>6

LEMMA RequeueMasterRestarts ==
  ASSUME TypeInv, RequeueInv, MasterRestarts
  PROVE  RequeueInv'
<1>1. \A th \in Threads : thread'[th].step = "idle"
  BY DEF MasterRestarts, Resting
<1>2. /\ requeued' = requeued /\ notes' = notes
      /\ \A t \in Tasks : unnoted'[t] = unnoted[t] + Cardinality(NoteWriters(t))
  BY DEF MasterRestarts, rowVars
<1>3. requeued \in [Tasks -> Nat] /\ notes \in [Tasks -> Nat] /\ unnoted \in [Tasks -> Nat]
  BY DEF TypeInv, TypeOK
<1>4. ASSUME NEW t \in Tasks
      PROVE  /\ requeued'[t] <= notes'[t] + Cardinality(NoteWriters(t)') + unnoted'[t]
             /\ requeued'[t] + Cardinality(Requeuers(t)')
                   <= MaxReassign - 1 + Cardinality(Threads) + unnoted'[t]
  <2>1. NoteWriters(t)' = {} /\ Requeuers(t)' = {}
    BY <1>1 DEF NoteWriters, Requeuers, At
  <2>2. Cardinality(NoteWriters(t)') = 0 /\ Cardinality(Requeuers(t)') = 0
    BY <2>1, FS_EmptySet
  <2>3. QED
    BY <1>2, <1>3, <2>2, RequeueSets DEF RequeueInv
<1>5. QED
  BY <1>4 DEF RequeueInv

LEMMA RequeueRest ==
  ASSUME TypeInv, RequeueInv,
         \/ \E n \in Nodes : NodeAction(n)
         \/ \E r \in Recorders : RecorderStep(r)
         \/ LoseReport
         \/ UNCHANGED vars
  PROVE  RequeueInv'
<1>1. thread' = thread /\ requeued' = requeued /\ notes' = notes /\ unnoted' = unnoted
  BY DEF NodeAction, NodeStep, CheckDuplicate, Enqueue, MarkAccepted, Dequeue, FinishWork,
         Heartbeat, QuarantineExpires, HeartbeatsStop, WorkerRestarts, RecorderStep,
         ReceiveReport, RecordResult, ResetFailures, LoseReport, vars, rowVars, ghostVars
<1>2. \A t \in Tasks : NoteWriters(t)' = NoteWriters(t) /\ Requeuers(t)' = Requeuers(t)
  BY <1>1 DEF NoteWriters, Requeuers, At
<1>3. QED
  BY <1>1, <1>2 DEF RequeueInv

LEMMA DispatchRequeue ==
  ASSUME TypeInv, RequeueInv, NEW d \in Dispatchers, DispatchAction(d)
  PROVE  RequeueInv'
<1>1. d \in Threads /\ Alone(d)
  BY DispatchThreads DEF StepOf, Threads
<1>2. thread[d].step \notin {"requeue", "note"} /\ thread'[d].step \notin {"requeue", "note"}
  BY DispatchSteps
<1>3. requeued' = requeued /\ notes' = notes /\ unnoted' = unnoted
  BY DEF DispatchAction, FetchPlanned, NextInBatch, EndCycle, DispatchDirectly, Choose, Claim,
         ClaimFails, SendSucceeds, SendTimesOut, SendIsRefused, SendBreaks, Revert, CycleAborts,
         CountFailure, Quarantine, Release, rowVars, ghostVars
<1>4. QED
  BY <1>1, <1>2, <1>3, RequeueKept

LEMMA SweepRequeue ==
  ASSUME TypeInv, RequeueInv, NEW th \in Threads, SweepAction(th)
  PROVE  RequeueInv'
<1>1. CASE \/ \E S \in SUBSET Tasks : StartSweep(th, S)
           \/ \E n \in Nodes : MarkOffline(th, n)
           \/ ListDispatched(th) \/ EndSweep(th)
  <2>1. Alone(th)
    BY SweepThreads DEF StepOf
  <2>2. thread[th].step \in {"idle", "list", "sweep"}
    BY <1>1 DEF StartSweep, MarkOffline, ListDispatched, EndSweep, At
  <2>3. thread'[th].step \in {"idle", "list", "sweep"}
    <3>0. thread \in [Threads -> ThreadStates] /\ thread[th] \in ThreadStates
      BY DEF TypeInv, TypeOK
    <3>1. CASE \E S \in SUBSET Tasks : StartSweep(th, S)
      BY <3>0, <3>1 DEF StartSweep, ThreadStates
    <3>2. CASE \E n \in Nodes : MarkOffline(th, n)
      BY <3>0, <3>2 DEF MarkOffline, ThreadStates
    <3>3. CASE ListDispatched(th)
      BY <3>0, <3>3 DEF ListDispatched, ThreadStates
    <3>4. CASE EndSweep(th)
      BY <3>0, <3>4 DEF EndSweep, Go, ThreadStates
    <3>5. QED
      BY <1>1, <3>1, <3>2, <3>3, <3>4
  <2>4. requeued' = requeued /\ notes' = notes /\ unnoted' = unnoted
    BY <1>1 DEF StartSweep, MarkOffline, ListDispatched, EndSweep, rowVars, ghostVars
  <2>5. QED
    BY <2>1, <2>2, <2>3, <2>4, RequeueKept
<1>2. QED
  BY <1>1, ReadRequeue, RequeueRequeue, RequeueRequeueFails, RequeueWriteNote DEF SweepAction

\* The bound on the requeues with what it rests on: a requeue is followed by a
\* note or counted as unnoted, and whoever may still requeue read few notes.
THEOREM RequeuesAreNoted == Spec => []RequeueInv
<1>1. Init => RequeueInv
  <2> SUFFICES ASSUME Init PROVE RequeueInv
    OBVIOUS
  <2>1. ASSUME NEW t \in Tasks PROVE NoteWriters(t) = {} /\ Requeuers(t) = {}
    BY DEF Init, Resting, NoteWriters, Requeuers, At
  <2>2. ASSUME NEW t \in Tasks
        PROVE  Cardinality(NoteWriters(t)) = 0 /\ Cardinality(Requeuers(t)) = 0
    BY <2>1, FS_EmptySet
  <2>3. QED
    BY <2>2, ThreadsFinite DEF Init, RequeueInv
<1>2. TypeInv /\ RequeueInv /\ [Next]_vars => RequeueInv'
  <2> SUFFICES ASSUME TypeInv, RequeueInv, [Next]_vars PROVE RequeueInv'
    OBVIOUS
  <2>1. CASE \E th \in Threads : SweepAction(th)
    BY <2>1, SweepRequeue
  <2>2. CASE \E d \in Dispatchers : DispatchAction(d)
    BY <2>2, DispatchRequeue
  <2>3. CASE MasterRestarts
    BY <2>3, RequeueMasterRestarts
  <2>4. QED
    BY <2>1, <2>2, <2>3, RequeueRest, NextCases
<1>3. QED
  BY InitTypeInv, NextTypeInv, <1>1, <1>2, PTL DEF Spec

\* reassign_task resets a task at most MaxReassign - 1 times and once more for
\* every thread and for every note lost or not seen.
THEOREM RequeuesBounded == Spec => []RequeuesAreBounded
<1>1. TypeInv /\ RequeueInv => RequeuesAreBounded
  <2> SUFFICES ASSUME TypeInv, RequeueInv, NEW t \in Tasks
               PROVE  requeued[t] <= MaxReassign - 1 + Cardinality(Threads) + unnoted[t]
    BY DEF RequeuesAreBounded
  <2>1. Cardinality(Requeuers(t)) \in Nat /\ Cardinality(Threads) \in Nat
    BY RequeueSets
  <2>2. requeued[t] \in Nat /\ unnoted[t] \in Nat
    BY DEF TypeInv, TypeOK
  <2>3. QED
    BY <2>1, <2>2 DEF RequeueInv
<1>2. Spec => []TypeInv
  BY InitTypeInv, NextTypeInv, PTL DEF Spec
<1>3. QED
  BY <1>1, <1>2, RequeuesAreNoted, PTL

-----------------------------------------------------------------------------
(***************************************************************************)
(* What the master records.  A report is made once, under a number of its  *)
(* own; from then on it is on its way, or in the hands of a handler, or    *)
(* recorded.  So an outcome stands for a report, and a result record for a *)
(* report that says "completed" or for one that was sent once more.        *)
(***************************************************************************)

\* The reports of t's completion that are on their way, the handlers about to
\* record one, and those that were ever made.
Owed(t) == {rep \in reports : rep.task = t /\ rep.outcome = "completed"}

Writers(t) == {r \in Recorders : /\ recorder[r].step = "write"
                                 /\ recorder[r].task = t
                                 /\ recorder[r].outcome = "completed"}

Completions(t) == {rep \in produced[t] : rep.outcome = "completed"}

Reported(t, o) == \E rep \in produced[t] : rep.outcome = o

ProducedInv ==
    /\ \A rep \in reports : rep \in produced[rep.task]
    /\ \A t \in Tasks : /\ IsFiniteSet(produced[t])
                        /\ \A rep \in produced[t] : rep.id < runs[t]

BackedInv ==
    /\ \A r \in Recorders : recorder[r].step = "write" =>
                                Reported(recorder[r].task, recorder[r].outcome)
    /\ \A t \in Tasks : status[t] \in Outcomes => Reported(t, status[t])

CountInv ==
    \A t \in Tasks :
        /\ IsFiniteSet(Writers(t))
        /\ results[t] + Cardinality(Writers(t)) + Cardinality(Owed(t))
              <= Cardinality(Completions(t)) + repeated[t]

RecordInv == ProducedInv /\ BackedInv /\ CountInv

LEMMA NoMore ==
  ASSUME NEW S, IsFiniteSet(S), NEW T \in SUBSET S
  PROVE  /\ IsFiniteSet(T) /\ Cardinality(T) \in Nat /\ Cardinality(S) \in Nat
         /\ Cardinality(T) <= Cardinality(S)
  BY FS_Subset, FS_CardinalityType

LEMMA OneMore ==
  ASSUME NEW S, IsFiniteSet(S), NEW x, NEW T \in SUBSET (S \cup {x})
  PROVE  /\ IsFiniteSet(T) /\ Cardinality(T) \in Nat /\ Cardinality(S) \in Nat
         /\ Cardinality(T) <= Cardinality(S) + 1
<1>0. Cardinality(S) \in Nat
  BY FS_CardinalityType
<1>1. /\ IsFiniteSet(S \cup {x})
      /\ Cardinality(S \cup {x}) = IF x \in S THEN Cardinality(S) ELSE Cardinality(S) + 1
  BY FS_AddElement
<1>2. Cardinality(S \cup {x}) <= Cardinality(S) + 1
  BY <1>0, <1>1
<1>3. QED
  BY <1>0, <1>1, <1>2, NoMore

LEMMA OneAdded ==
  ASSUME NEW S, IsFiniteSet(S), NEW x, x \notin S
  PROVE  Cardinality(S \cup {x}) = Cardinality(S) + 1
  BY FS_AddElement

LEMMA OneFewer ==
  ASSUME NEW S, IsFiniteSet(S), NEW x \in S, NEW T \in SUBSET (S \ {x})
  PROVE  /\ IsFiniteSet(T) /\ Cardinality(T) \in Nat /\ Cardinality(S) \in Nat
         /\ Cardinality(T) <= Cardinality(S) - 1
<1>1. IsFiniteSet(S \ {x}) /\ Cardinality(S) \in Nat
      /\ Cardinality(S \ {x}) = Cardinality(S) - 1
  BY FS_RemoveElement, FS_CardinalityType
<1>2. QED
  BY <1>1, NoMore

\* What is on its way was made, and there are finitely many of both.
LEMMA ReportSets ==
  ASSUME TypeInv, ProducedInv, NEW t \in Tasks
  PROVE  /\ Owed(t) \subseteq Completions(t)
         /\ IsFiniteSet(Owed(t)) /\ Cardinality(Owed(t)) \in Nat
         /\ IsFiniteSet(Completions(t)) /\ Cardinality(Completions(t)) \in Nat
         /\ results[t] \in Nat /\ repeated[t] \in Nat
<1>1. IsFiniteSet(produced[t]) /\ Completions(t) \in SUBSET produced[t]
  BY DEF ProducedInv, Completions
<1>2. Owed(t) \in SUBSET Completions(t)
  BY DEF ProducedInv, Owed, Completions
<1>3. QED
  BY <1>1, <1>2, NoMore DEF TypeInv, TypeOK

\* A step that makes, delivers and records nothing.
LEMMA NothingRecorded ==
  ASSUME TypeInv, RecordInv,
         results' = results, produced' = produced, runs' = runs,
         recorder' = recorder, reports' = reports,
         repeated' = repeated,
         \A t \in Tasks : status'[t] \in Outcomes => status'[t] = status[t]
  PROVE  RecordInv'
<1>1. ProducedInv'
  BY DEF RecordInv, ProducedInv
<1>2. BackedInv'
  BY DEF RecordInv, BackedInv, Reported
<1>3. ASSUME NEW t \in Tasks
      PROVE  /\ IsFiniteSet(Writers(t)')
             /\ results'[t] + Cardinality(Writers(t)') + Cardinality(Owed(t)')
                   <= Cardinality(Completions(t)') + repeated'[t]
  <2>1. Writers(t)' = Writers(t) /\ Owed(t)' = Owed(t) /\ Completions(t)' = Completions(t)
    BY DEF Writers, Owed, Completions
  <2>2. IsFiniteSet(Writers(t)) /\ Cardinality(Writers(t)) \in Nat
    BY FS_CardinalityType DEF RecordInv, CountInv
  <2>3. /\ Cardinality(Owed(t)) \in Nat /\ Cardinality(Completions(t)) \in Nat
        /\ results[t] \in Nat /\ repeated[t] \in Nat
    BY ReportSets DEF RecordInv
  <2>4. 0 \in Int /\ 0 + 0 + 0 <= 0 + 0
    OBVIOUS
  <2>5. QED
    BY <2>1, <2>2, <2>3 DEF RecordInv, CountInv
<1>4. QED
  BY <1>1, <1>2, <1>3 DEF RecordInv, CountInv

\* A node's report is new: its number is the count of the task's runs.
LEMMA FinishRecords ==
  ASSUME TypeInv, RecordInv, NEW n \in Nodes, FinishWork(n)
  PROVE  RecordInv'
<1> DEFINE report(o) == [task |-> work[n], node |-> n, outcome |-> o, id |-> runs[work[n]]]
<1>1. PICK o \in Outcomes : /\ reports' = reports \cup {report(o)}
                            /\ produced' = [produced EXCEPT ![work[n]] = @ \cup {report(o)}]
  BY DEF FinishWork
<1>2. PICK u \in Tasks : u = work[n]
  BY DEF FinishWork, TypeInv, TypeOK
<1>3. PICK rep : rep = [task |-> u, node |-> n, outcome |-> o, id |-> runs[u]]
  OBVIOUS
<1>4. /\ reports' = reports \cup {rep}
      /\ produced' = [produced EXCEPT ![u] = @ \cup {rep}]
      /\ runs' = [runs EXCEPT ![u] = @ + 1]
      /\ rep.task = u /\ rep.outcome = o /\ rep.id = runs[u]
  BY <1>1, <1>2, <1>3 DEF FinishWork
<1>5. /\ recorder' = recorder /\ status' = status /\ results' = results /\ repeated' = repeated
  BY DEF FinishWork, rowVars
<1> HIDE DEF report
<1>6. /\ produced \in [Tasks -> SUBSET Reports] /\ runs \in [Tasks -> Nat]
      /\ reports \in SUBSET Reports /\ \A q \in Reports : q.task \in Tasks /\ q.id \in Nat
  BY DEF TypeInv, TypeOK, Reports
<1>7. /\ produced'[u] = produced[u] \cup {rep} /\ runs'[u] = runs[u] + 1
      /\ \A t \in Tasks \ {u} : produced'[t] = produced[t] /\ runs'[t] = runs[t]
  BY <1>4, <1>6
<1>8. ProducedInv'
  <2>1. ASSUME NEW q \in reports' PROVE q \in produced'[q.task]
    BY <1>4, <1>6, <1>7 DEF RecordInv, ProducedInv
  <2>2. ASSUME NEW t \in Tasks
        PROVE  IsFiniteSet(produced'[t]) /\ \A q \in produced'[t] : q.id < runs'[t]
    <3>1. IsFiniteSet(produced[t]) /\ \A q \in produced[t] : q \in Reports /\ q.id < runs[t]
      BY <1>6 DEF RecordInv, ProducedInv
    <3>2. CASE t = u
      <4>1. IsFiniteSet(produced[t] \cup {rep})
        BY <3>1, FS_AddElement
      <4>2. ASSUME NEW q \in produced'[t] PROVE q.id < runs'[t]
        BY <1>4, <1>6, <1>7, <3>1, <3>2
      <4>3. QED
        BY <1>7, <3>2, <4>1, <4>2
    <3>3. CASE t # u
      BY <1>7, <3>1, <3>3
    <3>4. QED
      BY <3>2, <3>3
  <2>3. QED
    BY <2>1, <2>2 DEF ProducedInv
<1>9. BackedInv'
  <2>1. \A t \in Tasks : produced[t] \subseteq produced'[t]
    BY <1>7
  <2>2. \A r \in Recorders : recorder[r].step = "write" => recorder[r].task \in Tasks
    BY DEF TypeInv, RecorderInv
  <2>3. QED
    BY <1>5, <2>1, <2>2 DEF RecordInv, BackedInv, Reported
<1>10. ASSUME NEW t \in Tasks
       PROVE  /\ IsFiniteSet(Writers(t)')
              /\ results'[t] + Cardinality(Writers(t)') + Cardinality(Owed(t)')
                    <= Cardinality(Completions(t)') + repeated'[t]
  <2>1. Writers(t)' = Writers(t)
    BY <1>5 DEF Writers
  <2>2. IsFiniteSet(Writers(t)) /\ Cardinality(Writers(t)) \in Nat
    BY FS_CardinalityType DEF RecordInv, CountInv
  <2>3. /\ IsFiniteSet(Owed(t)) /\ Cardinality(Owed(t)) \in Nat
        /\ IsFiniteSet(Completions(t)) /\ Cardinality(Completions(t)) \in Nat
        /\ Owed(t) \subseteq Completions(t)
        /\ results[t] \in Nat /\ repeated[t] \in Nat
    BY ReportSets DEF RecordInv
  <2>4. CASE t = u /\ o = "completed"
    <3>1. Owed(t)' = Owed(t) \cup {rep} /\ Completions(t)' = Completions(t) \cup {rep}
      BY <1>4, <1>7, <2>4 DEF Owed, Completions
    <3>2. rep \notin Completions(t) /\ rep \notin Owed(t)
      BY <1>4, <1>6, <2>3, <2>4 DEF RecordInv, ProducedInv, Completions
    <3>3. /\ Cardinality(Owed(t) \cup {rep}) = Cardinality(Owed(t)) + 1
          /\ Cardinality(Completions(t) \cup {rep}) = Cardinality(Completions(t)) + 1
      BY <2>3, <3>2, OneAdded
    <3>4. QED
      BY <1>5, <2>1, <2>2, <2>3, <3>1, <3>3 DEF RecordInv, CountInv
  <2>5. CASE ~(t = u /\ o = "completed")
    <3>1. Owed(t)' = Owed(t) /\ Completions(t)' = Completions(t)
      BY <1>4, <1>7, <2>5 DEF Owed, Completions
    <3>2. QED
      BY <1>5, <2>1, <2>2, <2>3, <3>1 DEF RecordInv, CountInv
  <2>6. QED
    BY <2>4, <2>5
<1>11. QED
  BY <1>8, <1>9, <1>10 DEF RecordInv, CountInv

\* A report is taken, or taken and sent again, or dropped: a handler that is to
\* record it has it instead of the wire, or a fault has been counted.
LEMMA ReceiveRecords ==
  ASSUME TypeInv, RecordInv, NEW r \in Recorders, NEW report \in reports,
         ReceiveReport(r, report)
  PROVE  RecordInv'
<1>1. /\ status' = status /\ results' = results /\ produced' = produced /\ runs' = runs
      /\ recorder[r] = Listening
      /\ \/ reports' = reports \ {report} /\ repeated' = repeated
         \/ reports' = reports /\ SentAgain(report)
  BY DEF ReceiveReport, rowVars
<1>2. PICK c : c = [step |-> "write", task |-> report.task, node |-> report.node,
                    outcome |-> report.outcome]
  OBVIOUS
<1>3. recorder' = [recorder EXCEPT ![r] = c] \/ recorder' = recorder
  BY <1>2 DEF ReceiveReport
<1>4. /\ recorder \in [Recorders -> RecorderStates]
      /\ c.step = "write" /\ c.task = report.task /\ c.outcome = report.outcome
      /\ recorder[r].step = "idle"
      /\ report \in produced[report.task] /\ report.task \in Tasks
  BY <1>1, <1>2 DEF TypeInv, TypeOK, Listening, RecordInv, ProducedInv, Reports
<1>5. /\ recorder'[r] = c \/ recorder'[r] = recorder[r]
      /\ \A x \in Recorders \ {r} : recorder'[x] = recorder[x]
  BY <1>3, <1>4
<1>r. repeated \in [Tasks -> Nat] /\ report.task \in Tasks
  BY <1>4 DEF TypeInv, TypeOK
<1>6. ProducedInv'
  BY <1>1 DEF RecordInv, ProducedInv
<1>7. BackedInv'
  BY <1>1, <1>4, <1>5 DEF RecordInv, BackedInv, Reported
<1>8. ASSUME NEW t \in Tasks
      PROVE  /\ IsFiniteSet(Writers(t)')
             /\ results'[t] + Cardinality(Writers(t)') + Cardinality(Owed(t)')
                   <= Cardinality(Completions(t)') + repeated'[t]
  <2>1. /\ IsFiniteSet(Writers(t)) /\ Cardinality(Writers(t)) \in Nat
        /\ results[t] + Cardinality(Writers(t)) + Cardinality(Owed(t))
              <= Cardinality(Completions(t)) + repeated[t]
    BY FS_CardinalityType DEF RecordInv, CountInv
  <2>2. /\ IsFiniteSet(Owed(t)) /\ Cardinality(Owed(t)) \in Nat
        /\ Cardinality(Completions(t)) \in Nat
        /\ results[t] \in Nat /\ repeated[t] \in Nat
    BY ReportSets DEF RecordInv
  <2>3. Completions(t)' = Completions(t)
    BY <1>1 DEF Completions
  <2>4. Owed(t)' \in SUBSET Owed(t)
    BY <1>1 DEF Owed
  <2>5. Cardinality(Owed(t)') \in Nat /\ Cardinality(Owed(t)') <= Cardinality(Owed(t))
    BY <2>2, <2>4, NoMore
  <2>6. CASE report.task = t /\ report.outcome = "completed"
    <3>1. Writers(t)' \in SUBSET (Writers(t) \cup {r})
      BY <1>5 DEF Writers
    <3>2. /\ IsFiniteSet(Writers(t)') /\ Cardinality(Writers(t)') \in Nat
          /\ Cardinality(Writers(t)') <= Cardinality(Writers(t)) + 1
      BY <2>1, <3>1, OneMore
    <3>3. CASE reports' = reports \ {report} /\ repeated' = repeated
      <4>1. report \in Owed(t) /\ Owed(t)' \in SUBSET (Owed(t) \ {report})
        BY <2>6, <3>3 DEF Owed
      <4>2. Cardinality(Owed(t)') <= Cardinality(Owed(t)) - 1
        BY <2>2, <4>1, OneFewer
      <4>3. QED
        BY <1>1, <2>1, <2>2, <2>3, <2>5, <3>2, <3>3, <4>2
    <3>4. CASE SentAgain(report)
      <4>1. repeated'[t] = repeated[t] + 1
        BY <1>r, <2>6, <3>4 DEF SentAgain
      <4>2. QED
        BY <1>1, <2>1, <2>2, <2>3, <2>5, <3>2, <4>1
    <3>5. QED
      BY <1>1, <3>3, <3>4
  <2>7. CASE ~(report.task = t /\ report.outcome = "completed")
    <3>1. Writers(t)' \in SUBSET Writers(t)
      BY <1>4, <1>5, <2>7 DEF Writers
    <3>2. /\ IsFiniteSet(Writers(t)') /\ Cardinality(Writers(t)') \in Nat
          /\ Cardinality(Writers(t)') <= Cardinality(Writers(t))
      BY <2>1, <3>1, NoMore
    <3>3. repeated'[t] = repeated[t]
      <4>1. CASE repeated' = repeated
        BY <4>1
      <4>2. CASE SentAgain(report)
        BY <1>r, <2>7, <4>2 DEF SentAgain
      <4>3. QED
        BY <1>1, <4>1, <4>2
    <3>4. QED
      BY <1>1, <2>1, <2>2, <2>3, <2>5, <3>2, <3>3
  <2>8. QED
    BY <2>6, <2>7
<1>9. QED
  BY <1>6, <1>7, <1>8 DEF RecordInv, CountInv

\* A handler writes the outcome it was told, and is one writer fewer when the
\* result record is one more.
LEMMA WriteRecords ==
  ASSUME TypeInv, RecordInv, NEW r \in Recorders, RecordResult(r)
  PROVE  RecordInv'
<1>1. PICK c : c = recorder[r]
  OBVIOUS
<1>2. /\ c.step = "write"
      /\ status' = [status EXCEPT ![c.task] = c.outcome]
      /\ results' = IF c.outcome = "completed"
                    THEN [results EXCEPT ![c.task] = @ + 1] ELSE results
      /\ recorder' = [recorder EXCEPT ![r] = IF c.outcome = "completed"
                                             THEN [c EXCEPT !.step = "reset"] ELSE Listening]
      /\ produced' = produced /\ runs' = runs /\ reports' = reports /\ repeated' = repeated
  BY <1>1 DEF RecordResult, StatusAfter, ghostVars
<1>3. /\ recorder \in [Recorders -> RecorderStates] /\ c \in RecorderStates
      /\ c.outcome \in Outcomes /\ c.task \in Tasks
      /\ status \in [Tasks -> Statuses] /\ results \in [Tasks -> Nat]
  BY <1>1, <1>2 DEF TypeInv, TypeOK, RecorderInv
<1>4. /\ recorder'[r].step # "write"
      /\ \A x \in Recorders \ {r} : recorder'[x] = recorder[x]
  BY <1>2, <1>3 DEF Listening, RecorderStates
<1>5. ProducedInv'
  BY <1>2 DEF RecordInv, ProducedInv
<1>6. BackedInv'
  <2>1. Reported(c.task, c.outcome)
    BY <1>1, <1>2 DEF RecordInv, BackedInv
  <2>2. ASSUME NEW t \in Tasks, status'[t] \in Outcomes PROVE Reported(t, status'[t])
    BY <1>2, <1>3, <2>1, <2>2 DEF RecordInv, BackedInv
  <2>3. ASSUME NEW x \in Recorders, recorder'[x].step = "write"
        PROVE  Reported(recorder'[x].task, recorder'[x].outcome)
    BY <1>4, <2>3 DEF RecordInv, BackedInv
  <2>4. QED
    BY <1>2, <2>2, <2>3 DEF BackedInv, Reported
<1>7. ASSUME NEW t \in Tasks
      PROVE  /\ IsFiniteSet(Writers(t)')
             /\ results'[t] + Cardinality(Writers(t)') + Cardinality(Owed(t)')
                   <= Cardinality(Completions(t)') + repeated'[t]
  <2>1. /\ IsFiniteSet(Writers(t)) /\ Cardinality(Writers(t)) \in Nat
        /\ results[t] + Cardinality(Writers(t)) + Cardinality(Owed(t))
              <= Cardinality(Completions(t)) + repeated[t]
    BY FS_CardinalityType DEF RecordInv, CountInv
  <2>2. /\ Cardinality(Owed(t)) \in Nat /\ Cardinality(Completions(t)) \in Nat
        /\ results[t] \in Nat /\ repeated[t] \in Nat
    BY ReportSets DEF RecordInv
  <2>3. Completions(t)' = Completions(t) /\ Owed(t)' = Owed(t)
    BY <1>2 DEF Completions, Owed
  <2>4. CASE c.task = t /\ c.outcome = "completed"
    <3>1. r \in Writers(t) /\ Writers(t)' \in SUBSET (Writers(t) \ {r})
      BY <1>1, <1>2, <1>4, <2>4 DEF Writers
    <3>2. /\ IsFiniteSet(Writers(t)') /\ Cardinality(Writers(t)') \in Nat
          /\ Cardinality(Writers(t)') <= Cardinality(Writers(t)) - 1
      BY <2>1, <3>1, OneFewer
    <3>3. results'[t] = results[t] + 1
      BY <1>2, <1>3, <2>4
    <3>4. QED
      BY <1>2, <2>1, <2>2, <2>3, <3>2, <3>3
  <2>5. CASE ~(c.task = t /\ c.outcome = "completed")
    <3>1. Writers(t)' \in SUBSET Writers(t)
      BY <1>4 DEF Writers
    <3>2. /\ IsFiniteSet(Writers(t)') /\ Cardinality(Writers(t)') \in Nat
          /\ Cardinality(Writers(t)') <= Cardinality(Writers(t))
      BY <2>1, <3>1, NoMore
    <3>3. results'[t] = results[t]
      BY <1>2, <1>3, <2>5
    <3>4. QED
      BY <1>2, <2>1, <2>2, <2>3, <3>2, <3>3
  <2>6. QED
    BY <2>4, <2>5
<1>8. QED
  BY <1>5, <1>6, <1>7 DEF RecordInv, CountInv

\* Reports and handlers that disappear record nothing any more.
LEMMA LossRecords ==
  ASSUME TypeInv, RecordInv,
         status' = status, results' = results, produced' = produced, runs' = runs,
         repeated' = repeated,
         reports' \subseteq reports,
         \A r \in Recorders : recorder'[r] = recorder[r] \/ recorder'[r] = Listening
  PROVE  RecordInv'
<1>1. Listening.step = "idle"
  BY DEF Listening
<1>2. ProducedInv'
  BY DEF RecordInv, ProducedInv
<1>3. BackedInv'
  BY <1>1 DEF RecordInv, BackedInv, Reported
<1>4. ASSUME NEW t \in Tasks
      PROVE  /\ IsFiniteSet(Writers(t)')
             /\ results'[t] + Cardinality(Writers(t)') + Cardinality(Owed(t)')
                   <= Cardinality(Completions(t)') + repeated'[t]
  <2>1. /\ IsFiniteSet(Writers(t)) /\ Cardinality(Writers(t)) \in Nat
        /\ results[t] + Cardinality(Writers(t)) + Cardinality(Owed(t))
              <= Cardinality(Completions(t)) + repeated[t]
    BY FS_CardinalityType DEF RecordInv, CountInv
  <2>2. /\ IsFiniteSet(Owed(t)) /\ Cardinality(Owed(t)) \in Nat
        /\ Cardinality(Completions(t)) \in Nat
        /\ results[t] \in Nat /\ repeated[t] \in Nat
    BY ReportSets DEF RecordInv
  <2>3. Completions(t)' = Completions(t)
    BY DEF Completions
  <2>4. Owed(t)' \in SUBSET Owed(t) /\ Writers(t)' \in SUBSET Writers(t)
    BY <1>1 DEF Owed, Writers
  <2>5. /\ IsFiniteSet(Writers(t)') /\ Cardinality(Writers(t)') \in Nat
        /\ Cardinality(Writers(t)') <= Cardinality(Writers(t))
    BY <2>1, <2>4, NoMore
  <2>6. Cardinality(Owed(t)') \in Nat /\ Cardinality(Owed(t)') <= Cardinality(Owed(t))
    BY <2>2, <2>4, NoMore
  <2>7. QED
    BY <2>1, <2>2, <2>3, <2>5, <2>6
<1>5. QED
  BY <1>2, <1>3, <1>4 DEF RecordInv, CountInv

\* The statuses that the dispatcher and the sweeps write are no outcomes.
LEMMA ThreadsRecord ==
  ASSUME TypeInv,
         \/ \E th \in Threads : SweepAction(th)
         \/ \E d \in Dispatchers : DispatchAction(d)
  PROVE  /\ results' = results /\ produced' = produced /\ runs' = runs
         /\ recorder' = recorder /\ reports' = reports
         /\ repeated' = repeated
         /\ \A t \in Tasks : status'[t] \in Outcomes => status'[t] = status[t]
<1> USE DEF rowVars, ghostVars
<1>0. status \in [Tasks -> Statuses]
  BY DEF TypeInv, TypeOK
<1>1. ASSUME NEW u, NEW s \in {"planned", "abandoned", "dispatched_to_node"},
             status' = [status EXCEPT ![u] = s]
      PROVE  \A t \in Tasks : status'[t] \in Outcomes => status'[t] = status[t]
  BY <1>0, <1>1
<1>2. CASE \E th \in Threads : SweepAction(th)
  <2>1. PICK th \in Threads : SweepAction(th)
    BY <1>2
  <2>2. CASE Requeue(th)
    <3>1. \E u : \/ status' = [status EXCEPT ![u] = "abandoned"]
                \/ status' = [status EXCEPT ![u] = "planned"]
      BY <2>2 DEF Requeue
    <3>2. QED
      BY <1>1, <2>2, <3>1 DEF Requeue
  <2>3. CASE \E t \in Tasks : ReadRetryCount(th, t)
    BY <2>3 DEF ReadRetryCount
  <2>4. CASE RequeueFails(th) \/ WriteNote(th)
    BY <2>4 DEF RequeueFails, WriteNote
  <2>5. CASE \/ \E S \in SUBSET Tasks : StartSweep(th, S)
             \/ \E n \in Nodes : MarkOffline(th, n)
             \/ ListDispatched(th) \/ EndSweep(th)
    BY <2>5 DEF StartSweep, MarkOffline, ListDispatched, EndSweep
  <2>6. QED
    BY <2>1, <2>2, <2>3, <2>4, <2>5 DEF SweepAction
<1>3. CASE \E d \in Dispatchers : DispatchAction(d)
  <2>1. PICK d \in Dispatchers : DispatchAction(d)
    BY <1>3
  <2>2. CASE Claim(d)
    <3>1. \/ status' = status
          \/ \E u : status' = [status EXCEPT ![u] = "dispatched_to_node"]
      BY <2>2 DEF Claim
    <3>2. QED
      BY <1>1, <2>2, <3>1 DEF Claim
  <2>3. CASE Revert(d)
    <3>1. \E u : status' = [status EXCEPT ![u] = "planned"]
      BY <2>3 DEF Revert
    <3>2. QED
      BY <1>1, <2>3, <3>1 DEF Revert
  <2>4. CASE SendTimesOut(d) \/ SendIsRefused(d) \/ ClaimFails(d) \/ CycleAborts(d)
    BY <2>4 DEF SendTimesOut, SendIsRefused, ClaimFails, CycleAborts
  <2>5. CASE SendSucceeds(d) \/ SendBreaks(d) \/ CountFailure(d) \/ Quarantine(d) \/ Release(d)
    BY <2>5 DEF SendSucceeds, SendBreaks, CountFailure, Quarantine, Release
  <2>6. CASE \/ FetchPlanned(d) \/ NextInBatch(d) \/ EndCycle(d) \/ Choose(d)
             \/ \E t \in Tasks : DispatchDirectly(d, t)
    BY <2>6 DEF FetchPlanned, NextInBatch, EndCycle, Choose, DispatchDirectly
  <2>7. QED
    BY <2>1, <2>2, <2>3, <2>4, <2>5, <2>6 DEF DispatchAction
<1>4. QED
  BY <1>2, <1>3

LEMMA NodesRecord ==
  ASSUME TypeInv, RecordInv, NEW n \in Nodes, NodeAction(n)
  PROVE  RecordInv'
<1>1. CASE FinishWork(n)
  BY <1>1, FinishRecords
<1>2. CASE ~FinishWork(n)
  <2>1. /\ results' = results /\ produced' = produced /\ runs' = runs
        /\ recorder' = recorder /\ reports' = reports /\ status' = status
        /\ repeated' = repeated
    BY <1>2 DEF NodeAction, NodeStep, CheckDuplicate, Enqueue, MarkAccepted, Dequeue,
                Heartbeat, QuarantineExpires, HeartbeatsStop, WorkerRestarts,
                rowVars, ghostVars
  <2>2. QED
    BY <2>1, NothingRecorded
<1>3. QED
  BY <1>1, <1>2

LEMMA RecordersRecord ==
  ASSUME TypeInv, RecordInv, NEW r \in Recorders, RecorderStep(r)
  PROVE  RecordInv'
<1>0. recorder \in [Recorders -> RecorderStates]
  BY DEF TypeInv, TypeOK
<1>1. CASE \E report \in reports : ReceiveReport(r, report)
  BY <1>1, ReceiveRecords
<1>2. CASE RecordResult(r)
  BY <1>2, WriteRecords
<1>3. CASE ResetFailures(r)
  <2>1. /\ status' = status /\ results' = results /\ produced' = produced /\ runs' = runs
        /\ repeated' = repeated /\ reports' = reports
        /\ recorder' = [recorder EXCEPT ![r] = Listening]
    BY <1>3 DEF ResetFailures, rowVars, ghostVars
  <2>2. \A x \in Recorders : recorder'[x] = recorder[x] \/ recorder'[x] = Listening
    BY <1>0, <2>1
  <2>3. QED
    BY <2>1, <2>2, LossRecords
<1>4. QED
  BY <1>1, <1>2, <1>3 DEF RecorderStep

LEMMA LossesRecord ==
  ASSUME TypeInv, RecordInv, LoseReport \/ MasterRestarts
  PROVE  RecordInv'
<1>1. /\ status' = status /\ results' = results /\ produced' = produced /\ runs' = runs
      /\ repeated' = repeated /\ reports' \subseteq reports
  BY DEF LoseReport, MasterRestarts, rowVars, ghostVars
<1>2. \A r \in Recorders : recorder'[r] = recorder[r] \/ recorder'[r] = Listening
  BY DEF LoseReport, MasterRestarts
<1>3. QED
  BY <1>1, <1>2, LossRecords

LEMMA RecordStep == TypeInv /\ RecordInv /\ [Next]_vars => RecordInv'
<1> SUFFICES ASSUME TypeInv, RecordInv, [Next]_vars PROVE RecordInv'
  OBVIOUS
<1>2. CASE \/ \E th \in Threads : SweepAction(th)
           \/ \E d \in Dispatchers : DispatchAction(d)
  BY <1>2, ThreadsRecord, NothingRecorded
<1>3. CASE \E n \in Nodes : NodeAction(n)
  BY <1>3, NodesRecord
<1>4. CASE \E r \in Recorders : RecorderStep(r)
  BY <1>4, RecordersRecord
<1>5. CASE LoseReport \/ MasterRestarts
  BY <1>5, LossesRecord
<1>6. CASE UNCHANGED vars
  <2>1. /\ results' = results /\ produced' = produced /\ runs' = runs /\ status' = status
        /\ recorder' = recorder /\ reports' = reports /\ repeated' = repeated
    BY <1>6 DEF vars
  <2>2. QED
    BY <2>1, NothingRecorded
<1>7. QED
  BY <1>2, <1>3, <1>4, <1>5, <1>6, NextCases

\* Every report is made once and is then on its way, in a handler's hands or
\* recorded, and what a handler is about to write a node has reported.
THEOREM RecordsFollowReports == Spec => []RecordInv
<1>1. Init => RecordInv
  <2> SUFFICES ASSUME Init PROVE RecordInv
    OBVIOUS
  <2>1. ProducedInv
    BY FS_EmptySet DEF Init, ProducedInv
  <2>2. BackedInv
    BY DEF Init, BackedInv, Listening
  <2>3. ASSUME NEW t \in Tasks
        PROVE  Writers(t) = {} /\ Owed(t) = {} /\ Completions(t) = {}
               /\ results[t] = 0 /\ repeated[t] = 0
    BY DEF Init, Writers, Owed, Completions, Listening
  <2>4. CountInv
    BY <2>3, FS_EmptySet DEF CountInv
  <2>5. QED
    BY <2>1, <2>2, <2>4 DEF RecordInv
<1>2. QED
  BY InitTypeInv, NextTypeInv, RecordStep, <1>1, PTL DEF Spec

\* record_result (dispatcher.py) leaves a task only with an outcome that a node has
\* reported on it, and writes no more result records than executions that
\* completed and "completed" reports that were sent once more, whatever else is
\* lost or restarted.
THEOREM RecordsReported == Spec => []RecordsAreReported
<1>1. TypeInv /\ RecordInv => RecordsAreReported
  <2> SUFFICES ASSUME TypeInv, RecordInv, NEW t \in Tasks
               PROVE  /\ status[t] \in Outcomes => \E r \in produced[t] : r.outcome = status[t]
                      /\ results[t] <= Cardinality(Completions(t)) + repeated[t]
    BY DEF RecordsAreReported, Completions
  <2>1. IsFiniteSet(Writers(t)) /\ Cardinality(Writers(t)) \in Nat
    BY FS_CardinalityType DEF RecordInv, CountInv
  <2>2. /\ Cardinality(Owed(t)) \in Nat /\ Cardinality(Completions(t)) \in Nat
        /\ results[t] \in Nat /\ repeated[t] \in Nat
    BY ReportSets DEF RecordInv
  <2>3. QED
    BY <2>1, <2>2 DEF RecordInv, CountInv, BackedInv, Reported
<1>2. Spec => []TypeInv
  BY InitTypeInv, NextTypeInv, PTL DEF Spec
<1>3. QED
  BY <1>1, <1>2, RecordsFollowReports, PTL

-----------------------------------------------------------------------------
(***************************************************************************)
(* Errands.  Without slow tasks and without faults a task that was given   *)
(* away is at one place at most: in a request that is not queued yet, in a *)
(* queue, in a node's hands, in a report or in a handler's hands.  It has  *)
(* run when it is in one of the last two, and not before.                  *)
(***************************************************************************)
Waiting(t) == {p \in posts : p.task = t /\ p.at \in {"arriving", "queueing"}}

Queues(t) == {n \in Nodes : \E i \in 1..Len(queue[n]) : queue[n][i] = t}

Workers(t) == {n \in Nodes : work[n] = t}

Arriving(t) == {rep \in reports : rep.task = t}

Recording(t) == {r \in Recorders : recorder[r].step = "write" /\ recorder[r].task = t}

Placed(W, Q, K, A, R) ==
    ({"post"} \X W) \cup ({"queue"} \X Q) \cup ({"work"} \X K)
        \cup ({"report"} \X A) \cup ({"record"} \X R)

Places(t) == Placed(Waiting(t), Queues(t), Workers(t), Arriving(t), Recording(t))

Sole(S) == \A x, y \in S : x = y

Unrun(t) == Waiting(t) \cup Queues(t) \cup Workers(t)

HasRun(t) == Arriving(t) \cup Recording(t)

Stage(t) ==
    /\ Unrun(t) # {} => status[t] = "dispatched_to_node" /\ runs[t] = 0
    /\ HasRun(t) # {} => status[t] = "dispatched_to_node" /\ runs[t] = 1
    /\ status[t] = "planned" => runs[t] = 0
    /\ status[t] \notin Outcomes => results[t] = 0

Distinct(s) == \A i, j \in 1..Len(s) : s[i] = s[j] => i = j

NoRepeats == \A n \in Nodes : Distinct(queue[n])

\* Nothing times out, so no thread takes a task back.
Calm == Slow = {} /\ MaxFaults = 0 /\ fresh = Nodes

CalmThread(th) ==
    /\ thread[th].step \in {"idle", "sweep", "batch", "choose", "claim", "send", "release"}
    /\ At(th, "sweep") => thread[th].todo = {}
    /\ At(th, "send") => Pending(th) # {}

CalmThreads == \A th \in Threads : CalmThread(th)

PlaceInv == \A t \in Tasks : Sole(Places(t)) /\ Stage(t)

ErrandInv == Calm /\ CalmThreads /\ PlaceInv /\ NoRepeats

LEMMA NoFault == TypeInv /\ Calm => ~Fault
  BY DEF TypeInv, TypeOK, Calm, Fault

\* Five sets of places of which one at most has an element, and that a single one.
LEMMA SolePlaced ==
  ASSUME NEW W, NEW Q, NEW K, NEW A, NEW R, NEW x,
         \/ W \subseteq {x} /\ Q = {} /\ K = {} /\ A = {} /\ R = {}
         \/ W = {} /\ Q \subseteq {x} /\ K = {} /\ A = {} /\ R = {}
         \/ W = {} /\ Q = {} /\ K \subseteq {x} /\ A = {} /\ R = {}
         \/ W = {} /\ Q = {} /\ K = {} /\ A \subseteq {x} /\ R = {}
         \/ W = {} /\ Q = {} /\ K = {} /\ A = {} /\ R \subseteq {x}
  PROVE  Sole(Placed(W, Q, K, A, R))
  BY DEF Sole, Placed

LEMMA FewerPlaced ==
  ASSUME NEW W, NEW Q, NEW K, NEW A, NEW R, Sole(Placed(W, Q, K, A, R)),
         NEW W1 \in SUBSET W, NEW Q1 \in SUBSET Q, NEW K1 \in SUBSET K,
         NEW A1 \in SUBSET A, NEW R1 \in SUBSET R
  PROVE  Sole(Placed(W1, Q1, K1, A1, R1))
<1>1. Placed(W1, Q1, K1, A1, R1) \subseteq Placed(W, Q, K, A, R)
  BY DEF Placed
<1>2. QED
  BY <1>1 DEF Sole

LEMMA OnlyPlaced ==
  ASSUME NEW W, NEW Q, NEW K, NEW A, NEW R, Sole(Placed(W, Q, K, A, R)), NEW x
  PROVE  /\ x \in W => W = {x} /\ Q = {} /\ K = {} /\ A = {} /\ R = {}
         /\ x \in Q => W = {} /\ Q = {x} /\ K = {} /\ A = {} /\ R = {}
         /\ x \in K => W = {} /\ Q = {} /\ K = {x} /\ A = {} /\ R = {}
         /\ x \in A => W = {} /\ Q = {} /\ K = {} /\ A = {x} /\ R = {}
         /\ x \in R => W = {} /\ Q = {} /\ K = {} /\ A = {} /\ R = {x}
<1>1. \A v, w \in Placed(W, Q, K, A, R) : v = w
  BY DEF Sole
<1> DEFINE In(s, z) == <<s, z>> \in Placed(W, Q, K, A, R)
<1>2. /\ \A z \in W : In("post", z)
      /\ \A z \in Q : In("queue", z)
      /\ \A z \in K : In("work", z)
      /\ \A z \in A : In("report", z)
      /\ \A z \in R : In("record", z)
  BY DEF Placed
<1>3. ASSUME NEW s1, NEW s2, NEW z1, NEW z2, In(s1, z1), In(s2, z2)
      PROVE  s1 = s2 /\ z1 = z2
  <2>1. <<s1, z1>> = <<s2, z2>>
    BY <1>1, <1>3
  <2>2. QED
    BY <2>1
<1> HIDE DEF In
<1>4. /\ \A a, b \in W : a = b
      /\ \A a, b \in Q : a = b
      /\ \A a, b \in K : a = b
      /\ \A a, b \in A : a = b
      /\ \A a, b \in R : a = b
  BY <1>2, <1>3
<1>5. /\ \A a \in W, b \in Q : FALSE
      /\ \A a \in W, b \in K : FALSE
      /\ \A a \in W, b \in A : FALSE
      /\ \A a \in W, b \in R : FALSE
      /\ \A a \in Q, b \in K : FALSE
      /\ \A a \in Q, b \in A : FALSE
      /\ \A a \in Q, b \in R : FALSE
      /\ \A a \in K, b \in A : FALSE
      /\ \A a \in K, b \in R : FALSE
      /\ \A a \in A, b \in R : FALSE
  <2>1. \A a \in W, b \in Q : FALSE
    BY <1>2, <1>3
  <2>2. \A a \in W, b \in K : FALSE
    BY <1>2, <1>3
  <2>3. \A a \in W, b \in A : FALSE
    BY <1>2, <1>3
  <2>4. \A a \in W, b \in R : FALSE
    BY <1>2, <1>3
  <2>5. \A a \in Q, b \in K : FALSE
    BY <1>2, <1>3
  <2>6. \A a \in Q, b \in A : FALSE
    BY <1>2, <1>3
  <2>7. \A a \in Q, b \in R : FALSE
    BY <1>2, <1>3
  <2>8. \A a \in K, b \in A : FALSE
    BY <1>2, <1>3
  <2>9. \A a \in K, b \in R : FALSE
    BY <1>2, <1>3
  <2>10. \A a \in A, b \in R : FALSE
    BY <1>2, <1>3
  <2> QED
    BY <2>1, <2>2, <2>3, <2>4, <2>5, <2>6, <2>7, <2>8, <2>9, <2>10
<1>6. QED
  BY <1>4, <1>5

\* What a task's places tell of each other.
LEMMA OnlyPlace ==
  ASSUME PlaceInv, NEW t \in Tasks, NEW x
  PROVE  /\ x \in Waiting(t) => /\ Waiting(t) = {x} /\ Queues(t) = {} /\ Workers(t) = {}
                               /\ Arriving(t) = {} /\ Recording(t) = {}
                               /\ status[t] = "dispatched_to_node" /\ runs[t] = 0
         /\ x \in Queues(t) => /\ Waiting(t) = {} /\ Queues(t) = {x} /\ Workers(t) = {}
                              /\ Arriving(t) = {} /\ Recording(t) = {}
                              /\ status[t] = "dispatched_to_node" /\ runs[t] = 0
         /\ x \in Workers(t) => /\ Waiting(t) = {} /\ Queues(t) = {} /\ Workers(t) = {x}
                               /\ Arriving(t) = {} /\ Recording(t) = {}
                               /\ status[t] = "dispatched_to_node" /\ runs[t] = 0
         /\ x \in Arriving(t) => /\ Waiting(t) = {} /\ Queues(t) = {} /\ Workers(t) = {}
                                /\ Arriving(t) = {x} /\ Recording(t) = {}
                                /\ status[t] = "dispatched_to_node" /\ runs[t] = 1
         /\ x \in Recording(t) => /\ Waiting(t) = {} /\ Queues(t) = {} /\ Workers(t) = {}
                                 /\ Arriving(t) = {} /\ Recording(t) = {x}
                                 /\ status[t] = "dispatched_to_node" /\ runs[t] = 1
<1>1. Sole(Placed(Waiting(t), Queues(t), Workers(t), Arriving(t), Recording(t)))
  BY DEF PlaceInv, Places
<1>2. Stage(t)
  BY DEF PlaceInv
<1>3. QED
  BY <1>1, <1>2, OnlyPlaced DEF Stage, Unrun, HasRun

\* The task neither comes to a place nor to another stage.
Fewer(t) ==
    /\ Waiting(t)' \subseteq Waiting(t) /\ Queues(t)' \subseteq Queues(t)
    /\ Workers(t)' \subseteq Workers(t) /\ Arriving(t)' \subseteq Arriving(t)
    /\ Recording(t)' \subseteq Recording(t)
    /\ status'[t] = status[t] /\ runs'[t] = runs[t] /\ results'[t] = results[t]

LEMMA FewerKept ==
  ASSUME PlaceInv, NEW t \in Tasks, Fewer(t)
  PROVE  Sole(Places(t)') /\ Stage(t)'
<1>1. Sole(Placed(Waiting(t), Queues(t), Workers(t), Arriving(t), Recording(t)))
  BY DEF PlaceInv, Places
<1>2. Sole(Placed(Waiting(t)', Queues(t)', Workers(t)', Arriving(t)', Recording(t)'))
  BY <1>1, FewerPlaced DEF Fewer
<1>3. Sole(Places(t)')
  BY <1>2 DEF Places
<1>4. Stage(t)'
  BY DEF PlaceInv, Fewer, Stage, Unrun, HasRun
<1>5. QED
  BY <1>3, <1>4

\* The task of a step is at one place at most afterwards, and at no other kind.
LEMMA PlaceMoves ==
  ASSUME NEW t, NEW x,
         \/ /\ Waiting(t)' \subseteq {x} /\ Queues(t)' = {} /\ Workers(t)' = {}
            /\ Arriving(t)' = {} /\ Recording(t)' = {}
         \/ /\ Waiting(t)' = {} /\ Queues(t)' \subseteq {x} /\ Workers(t)' = {}
            /\ Arriving(t)' = {} /\ Recording(t)' = {}
         \/ /\ Waiting(t)' = {} /\ Queues(t)' = {} /\ Workers(t)' \subseteq {x}
            /\ Arriving(t)' = {} /\ Recording(t)' = {}
         \/ /\ Waiting(t)' = {} /\ Queues(t)' = {} /\ Workers(t)' = {}
            /\ Arriving(t)' \subseteq {x} /\ Recording(t)' = {}
         \/ /\ Waiting(t)' = {} /\ Queues(t)' = {} /\ Workers(t)' = {}
            /\ Arriving(t)' = {} /\ Recording(t)' \subseteq {x}
  PROVE  Sole(Places(t)')
<1>1. Sole(Placed(Waiting(t)', Queues(t)', Workers(t)', Arriving(t)', Recording(t)'))
  BY SolePlaced
<1>2. QED
  BY <1>1 DEF Places

\* The steps of the abstract specification.
ErrandStep == [Errand!Next]_(Errand!vars)

LEMMA ErrandStutters ==
  ASSUME status' = status, results' = results, runs' = runs PROVE ErrandStep
  BY DEF ErrandStep, Errand!vars

\* The steps that leave all places but the requests alone.
Elsewhere == UNCHANGED <<status, results, runs, queue, work, reports, recorder>>

LEMMA ElsewhereKeeps ==
  ASSUME PlaceInv, NoRepeats, Elsewhere,
         \A t \in Tasks : Waiting(t)' \subseteq Waiting(t)
  PROVE  PlaceInv' /\ NoRepeats' /\ ErrandStep
<1>1. ErrandStep
  BY ErrandStutters DEF Elsewhere
<1>2. NoRepeats'
  BY DEF NoRepeats, Elsewhere
<1>3. ASSUME NEW t \in Tasks PROVE Fewer(t)
  BY <1>3 DEF Fewer, Elsewhere, Queues, Workers, Arriving, Recording
<1>4. PlaceInv'
  BY <1>3, FewerKept DEF PlaceInv
<1>5. QED
  BY <1>1, <1>2, <1>4

\* The thread that moves stays calm, and the other senders' requests are there.
LEMMA CalmMoves ==
  ASSUME CalmThreads, NEW th \in Threads, Alone(th), CalmThread(th)',
         \A x \in Threads \ {th} : At(x, "send") => Pending(x)' # {}
  PROVE  CalmThreads'
<1>1. ASSUME NEW x \in Threads \ {th} PROVE CalmThread(x)'
  <2>1. thread'[x] = thread[x]
    BY DEF Alone
  <2>2. CalmThread(x)
    BY DEF CalmThreads
  <2>3. QED
    BY <2>1, <2>2 DEF CalmThread, At
<1>2. QED
  BY <1>1 DEF CalmThreads

LEMMA PendingKept ==
  ASSUME NEW th \in Threads, Alone(th), posts' = posts, CalmThreads
  PROVE  \A x \in Threads \ {th} : At(x, "send") => Pending(x)' # {}
<1>1. ASSUME NEW x \in Threads \ {th}, At(x, "send") PROVE Pending(x)' # {}
  <2>1. thread'[x] = thread[x] /\ Pending(x) # {}
    BY <1>1 DEF Alone, CalmThreads, CalmThread
  <2>2. Pending(x)' = Pending(x)
    BY <2>1 DEF Pending
  <2>3. QED
    BY <2>1, <2>2
<1>2. QED
  BY <1>1

LEMMA CalmSweep ==
  ASSUME TypeInv, ErrandInv, NEW th \in Threads, SweepAction(th)
  PROVE  ErrandInv' /\ ErrandStep
<1>0. /\ thread \in [Threads -> ThreadStates] /\ thread[th] \in ThreadStates
      /\ thread[th].step \notin {"list", "requeue", "note"}
      /\ thread[th].step = "sweep" => thread[th].todo = {}
      /\ Alone(th)
  BY SweepThreads DEF TypeInv, TypeOK, ErrandInv, CalmThreads, CalmThread, At, StepOf
<1>1. CASE \E S \in SUBSET Tasks : StartSweep(th, S)
  <2>1. PICK S \in SUBSET Tasks : StartSweep(th, S)
    BY <1>1
  <2>2. S = {}
    BY <2>1 DEF StartSweep, TimedOut, ErrandInv, Calm
  <2>3. /\ thread' = [thread EXCEPT ![th].step = "sweep", ![th].todo = S]
        /\ posts' = posts /\ fresh' = fresh /\ Elsewhere
    BY <2>1 DEF StartSweep, rowVars, nodeVars, workerVars, ghostVars, Elsewhere
  <2>4. thread'[th].step = "sweep" /\ thread'[th].todo = {}
    BY <1>0, <2>2, <2>3 DEF ThreadStates
  <2>5. CalmThread(th)'
    BY <2>4 DEF CalmThread, At
  <2>6. CalmThreads'
    BY <1>0, <2>3, <2>5, CalmMoves, PendingKept DEF ErrandInv
  <2>7. \A t \in Tasks : Waiting(t)' \subseteq Waiting(t)
    BY <2>3 DEF Waiting
  <2>8. QED
    BY <2>3, <2>6, <2>7, ElsewhereKeeps DEF ErrandInv, Calm
<1>2. CASE EndSweep(th)
  <2>1. /\ thread' = [thread EXCEPT ![th].step = "idle"]
        /\ posts' = posts /\ fresh' = fresh /\ Elsewhere
    BY <1>2 DEF EndSweep, Go, rowVars, nodeVars, workerVars, ghostVars, Elsewhere
  <2>2. thread'[th].step = "idle"
    BY <1>0, <2>1 DEF ThreadStates
  <2>3. CalmThread(th)'
    BY <2>2 DEF CalmThread, At
  <2>4. CalmThreads'
    BY <1>0, <2>1, <2>3, CalmMoves, PendingKept DEF ErrandInv
  <2>5. \A t \in Tasks : Waiting(t)' \subseteq Waiting(t)
    BY <2>1 DEF Waiting
  <2>6. QED
    BY <2>1, <2>4, <2>5, ElsewhereKeeps DEF ErrandInv, Calm
<1>3. ~\E n \in Nodes : MarkOffline(th, n)
  BY DEF MarkOffline, ErrandInv, Calm
<1>4. /\ ~ListDispatched(th) /\ ~\E t \in Tasks : ReadRetryCount(th, t)
      /\ ~Requeue(th) /\ ~RequeueFails(th) /\ ~WriteNote(th)
  BY <1>0 DEF ListDispatched, ReadRetryCount, Requeue, RequeueFails, WriteNote, At
<1>5. QED
  BY <1>1, <1>2, <1>3, <1>4 DEF SweepAction

\* The dispatcher's steps in a calm: no request breaks, times out, is refused or reverted.
LEMMA CalmActions ==
  ASSUME TypeInv, ErrandInv, NEW d \in Dispatchers, DispatchAction(d)
  PROVE  \/ FetchPlanned(d) \/ NextInBatch(d) \/ EndCycle(d)
         \/ \E t \in Tasks : DispatchDirectly(d, t)
         \/ Choose(d) \/ Claim(d) \/ SendSucceeds(d) \/ Release(d)
<1>1. CalmThread(d) /\ ~Fault
  BY NoFault DEF ErrandInv, CalmThreads, Threads
<1>2. ~SendTimesOut(d) /\ ~SendIsRefused(d) /\ ~ClaimFails(d) /\ ~CycleAborts(d)
  BY <1>1 DEF SendTimesOut, SendIsRefused, ClaimFails, CycleAborts
<1>3. ~SendBreaks(d) /\ ~Revert(d) /\ ~CountFailure(d) /\ ~Quarantine(d)
  BY <1>1 DEF CalmThread, SendBreaks, Revert, CountFailure, Quarantine, At
<1>4. QED
  BY <1>2, <1>3 DEF DispatchAction

LEMMA CalmCycle ==
  ASSUME TypeInv, ErrandInv, NEW d \in Dispatchers,
         \/ FetchPlanned(d) \/ NextInBatch(d) \/ EndCycle(d)
         \/ \E t \in Tasks : DispatchDirectly(d, t)
         \/ Choose(d) \/ Release(d)
  PROVE  ErrandInv' /\ ErrandStep
<1>0. /\ d \in Threads /\ thread \in [Threads -> ThreadStates] /\ thread[d] \in ThreadStates
      /\ Alone(d)
  BY DispatchThreads DEF TypeInv, TypeOK, Threads, StepOf, DispatchAction
<1>1. thread'[d].step \in {"idle", "batch", "choose", "claim", "release"}
  <2> USE <1>0 DEF ThreadStates, Go
  <2>1. CASE FetchPlanned(d)
    BY <2>1 DEF FetchPlanned
  <2>2. CASE NextInBatch(d) \/ \E t \in Tasks : DispatchDirectly(d, t)
    <3>1. PICK t : Take(d, t)
      BY <2>2 DEF NextInBatch, DispatchDirectly
    <3>2. QED
      BY <3>1 DEF Take
  <2>3. CASE EndCycle(d)
    BY <2>3 DEF EndCycle
  <2>4. CASE Choose(d)
    BY <2>4 DEF Choose
  <2>5. CASE Release(d)
    BY <2>5 DEF Release
  <2>6. QED
    BY <2>1, <2>2, <2>3, <2>4, <2>5
<1>2. posts' = posts /\ fresh' = fresh /\ Elsewhere
  BY DEF FetchPlanned, NextInBatch, EndCycle, DispatchDirectly, Choose, Release,
         rowVars, nodeVars, workerVars, ghostVars, Elsewhere
<1>3. CalmThread(d)'
  BY <1>1 DEF CalmThread, At
<1>4. CalmThreads'
  BY <1>0, <1>2, <1>3, CalmMoves, PendingKept DEF ErrandInv
<1>5. \A t \in Tasks : Waiting(t)' \subseteq Waiting(t)
  BY <1>2 DEF Waiting
<1>6. QED
  BY <1>2, <1>4, <1>5, ElsewhereKeeps DEF ErrandInv, Calm

\* The answer that a sender takes is the answer to its own request.
LEMMA CalmAnswer ==
  ASSUME TypeInv, ErrandInv, SenderOwnsClaim, NEW d \in Dispatchers, SendSucceeds(d)
  PROVE  ErrandInv' /\ ErrandStep
<1>0. /\ d \in Threads /\ thread \in [Threads -> ThreadStates] /\ thread[d] \in ThreadStates
      /\ Alone(d) /\ CalmThreads /\ ThreadInv
  BY DispatchThreads DEF TypeInv, TypeOK, Threads, StepOf, DispatchAction, ErrandInv
<1>1. PICK p \in Pending(d) : p.at = "answered" /\ posts' = posts \ {p}
  BY DEF SendSucceeds
<1>2. /\ fresh' = fresh /\ Elsewhere /\ At(d, "send")
      /\ thread' = [thread EXCEPT ![d].step = "release"]
  BY DEF SendSucceeds, Go, rowVars, nodeVars, workerVars, ghostVars, Elsewhere
<1>3. CalmThread(d)'
  <2>1. thread'[d].step = "release"
    BY <1>0, <1>2 DEF ThreadStates
  <2>2. QED
    BY <2>1 DEF CalmThread, At
<1>4. ASSUME NEW x \in Threads \ {d}, At(x, "send") PROVE Pending(x)' # {}
  <2>1. /\ Handling(x, thread[x].task) /\ Handling(d, thread[d].task)
        /\ thread[x].task \in Tasks /\ thread[d].task \in Tasks
        /\ x \in Dispatchers
    BY <1>0, <1>2, <1>4 DEF ThreadInv, Handling, HandlingSteps, At
  <2>2. thread[x].task # thread[d].task
    BY <2>1 DEF SenderOwnsClaim
  <2>3. PICK q : q \in Pending(x)
    BY <1>0, <1>4 DEF CalmThreads, CalmThread
  <2>4. q # p
    BY <1>1, <2>2, <2>3 DEF Pending
  <2>5. thread'[x] = thread[x]
    BY <1>0 DEF Alone
  <2>6. q \in Pending(x)'
    BY <1>1, <2>3, <2>4, <2>5 DEF Pending
  <2>7. QED
    BY <2>6
<1>5. CalmThreads'
  BY <1>0, <1>3, <1>4, CalmMoves
<1>6. \A t \in Tasks : Waiting(t)' \subseteq Waiting(t)
  BY <1>1 DEF Waiting
<1>7. QED
  BY <1>2, <1>5, <1>6, ElsewhereKeeps DEF ErrandInv, Calm

\* A claim finds the task at no place, and puts it into one request.
LEMMA CalmClaim ==
  ASSUME TypeInv, ErrandInv, NEW d \in Dispatchers, Claim(d)
  PROVE  ErrandInv' /\ ErrandStep
<1>0. /\ d \in Threads /\ thread \in [Threads -> ThreadStates] /\ thread[d] \in ThreadStates
      /\ Alone(d) /\ CalmThreads /\ ThreadInv /\ PlaceInv /\ NoRepeats /\ Calm
      /\ status \in [Tasks -> Statuses]
  BY DispatchThreads DEF TypeInv, TypeOK, Threads, StepOf, DispatchAction, ErrandInv
<1>1. CASE ~Claimable(thread[d].task)
  <2>1. /\ thread' = [thread EXCEPT ![d].step = "release"]
        /\ posts' = posts /\ fresh' = fresh /\ Elsewhere
    BY <1>1 DEF Claim, Go, nodeVars, workerVars, ghostVars, Elsewhere
  <2>2. thread'[d].step = "release"
    BY <1>0, <2>1 DEF ThreadStates
  <2>3. CalmThread(d)'
    BY <2>2 DEF CalmThread, At
  <2>4. CalmThreads'
    BY <1>0, <2>1, <2>3, CalmMoves, PendingKept
  <2>5. \A t \in Tasks : Waiting(t)' \subseteq Waiting(t)
    BY <2>1 DEF Waiting
  <2>6. QED
    BY <1>0, <2>1, <2>4, <2>5, ElsewhereKeeps DEF ErrandInv, Calm
<1>2. CASE Claimable(thread[d].task)
  <2>1. PICK t : t = thread[d].task
    OBVIOUS
  <2>2. PICK p : p = Post(d)
    OBVIOUS
  <2>3. /\ t \in Tasks /\ status[t] = "planned"
        /\ p.task = t /\ p.node = thread[d].node /\ p.orphan = 0 /\ p.at = "arriving"
    BY <1>0, <1>2, <2>1, <2>2 DEF Claim, Claimable, ThreadInv, HandlingSteps, At, Post
  <2>4. /\ status' = [status EXCEPT ![t] = "dispatched_to_node"]
        /\ posts' = posts \cup {p} /\ fresh' = fresh
        /\ thread' = [thread EXCEPT ![d].step = "send", ![d].count = 1]
        /\ results' = results /\ runs' = runs /\ queue' = queue /\ work' = work
        /\ reports' = reports /\ recorder' = recorder
    BY <1>2, <2>1, <2>2 DEF Claim, nodeVars, workerVars, ghostVars
  <2>5. CalmThreads'
    <3>1. thread'[d].step = "send" /\ thread'[d].task = t /\ thread'[d].node = thread[d].node
      BY <1>0, <2>1, <2>4 DEF ThreadStates
    <3>2. p \in Pending(d)'
      BY <2>3, <2>4, <3>1 DEF Pending
    <3>3. CalmThread(d)'
      BY <3>1, <3>2 DEF CalmThread, At
    <3>4. ASSUME NEW x \in Threads \ {d}, At(x, "send") PROVE Pending(x)' # {}
      <4>1. thread'[x] = thread[x]
        BY <1>0 DEF Alone
      <4>2. Pending(x) \subseteq Pending(x)'
        BY <2>4, <4>1 DEF Pending
      <4>3. Pending(x) # {}
        BY <1>0, <3>4 DEF CalmThreads, CalmThread
      <4>4. QED
        BY <4>2, <4>3
    <3>5. QED
      BY <1>0, <3>3, <3>4, CalmMoves
  <2>6. \A u \in Tasks : /\ Queues(u)' = Queues(u) /\ Workers(u)' = Workers(u)
                         /\ Arriving(u)' = Arriving(u) /\ Recording(u)' = Recording(u)
    BY <2>4 DEF Queues, Workers, Arriving, Recording
  <2>7. /\ Waiting(t) = {} /\ Queues(t) = {} /\ Workers(t) = {} /\ Arriving(t) = {}
        /\ Recording(t) = {} /\ runs[t] = 0 /\ results[t] = 0
    BY <1>0, <2>3 DEF PlaceInv, Stage, Unrun, HasRun
  <2>8. Sole(Places(t)') /\ Stage(t)'
    <3>1. Waiting(t)' \subseteq {p}
      BY <2>4, <2>7 DEF Waiting
    <3>2. Sole(Places(t)')
      BY <2>3, <2>6, <2>7, <3>1, PlaceMoves
    <3>3. status'[t] = "dispatched_to_node" /\ runs'[t] = 0 /\ results'[t] = 0
      BY <1>0, <2>3, <2>4, <2>7
    <3>4. HasRun(t)' = {}
      BY <2>3, <2>6, <2>7 DEF HasRun
    <3>5. QED
      BY <3>2, <3>3, <3>4 DEF Stage
  <2>9. ASSUME NEW u \in Tasks \ {t} PROVE Sole(Places(u)') /\ Stage(u)'
    <3>1. Waiting(u)' = Waiting(u)
      BY <2>3, <2>4 DEF Waiting
    <3>2. status'[u] = status[u]
      BY <1>0, <2>4
    <3>3. Fewer(u)
      BY <2>4, <2>6, <3>1, <3>2 DEF Fewer
    <3>4. QED
      BY <1>0, <3>3, FewerKept
  <2>10. NoRepeats'
    BY <1>0, <2>4 DEF NoRepeats
  <2>11. ErrandStep
    <3>1. Errand!GiveAway(t)
      BY <2>3, <2>4 DEF Errand!GiveAway
    <3>2. QED
      BY <2>3, <3>1 DEF ErrandStep, Errand!Next
  <2>12. QED
    BY <1>0, <2>4, <2>5, <2>8, <2>9, <2>10, <2>11 DEF ErrandInv, PlaceInv, Calm
<1>3. QED
  BY <1>1, <1>2

\* A request that moves on stays a request of its sender, and waits to be queued
\* only in a place where it did.
LEMMA RequestMoves ==
  ASSUME TypeInv, ErrandInv, thread' = thread, NEW p \in posts,
         NEW at \in {"arriving", "queueing", "marking", "answered"},
         posts' = Moved(p, at) \/ (p.orphan # 0 /\ posts' = posts \ {p}),
         NEW q, q = [p EXCEPT !.at = at]
  PROVE  /\ CalmThreads'
         /\ q.task = p.task /\ q.at = at /\ p.task \in Tasks /\ p.node \in Nodes
         /\ posts' \subseteq (posts \ {p}) \cup {q}
<1>1. /\ p \in Posts /\ CalmThreads
  BY DEF TypeInv, TypeOK, ErrandInv
<1>2. /\ q.task = p.task /\ q.node = p.node /\ q.orphan = p.orphan /\ q.at = at
      /\ p.task \in Tasks /\ p.node \in Nodes
  BY <1>1 DEF Posts
<1>3. \/ posts' = (posts \ {p}) \cup {q}
      \/ p.orphan # 0 /\ posts' = posts \ {p}
  BY DEF Moved
<1>4. ASSUME NEW x \in Threads PROVE CalmThread(x)'
  <2>1. CalmThread(x)
    BY <1>1 DEF CalmThreads
  <2>2. ASSUME Pending(x) # {} PROVE Pending(x)' # {}
    <3>1. PICK r : r \in Pending(x)
      BY <2>2
    <3>2. CASE r = p
      <4>1. q \in Pending(x)'
        BY <1>2, <1>3, <3>1, <3>2 DEF Pending
      <4>2. QED
        BY <4>1
    <3>3. CASE r # p
      <4>1. r \in Pending(x)'
        BY <1>3, <3>1, <3>3 DEF Pending
      <4>2. QED
        BY <4>1
    <3>4. QED
      BY <3>2, <3>3
  <2>3. QED
    BY <2>1, <2>2 DEF CalmThread, At
<1>5. CalmThreads'
  BY <1>4 DEF CalmThreads
<1>6. QED
  BY <1>2, <1>3, <1>5

LEMMA CalmCheck ==
  ASSUME TypeInv, ErrandInv, NEW p \in posts, CheckDuplicate(p)
  PROVE  ErrandInv' /\ ErrandStep
<1>1. PICK at \in {"queueing", "answered"} :
         posts' = Moved(p, at) \/ (p.orphan # 0 /\ posts' = posts \ {p})
  BY DEF CheckDuplicate, Answer
<1>2. PICK q : q = [p EXCEPT !.at = at]
  OBVIOUS
<1>3. thread' = thread /\ fresh' = fresh /\ Elsewhere /\ p.at = "arriving"
  BY DEF CheckDuplicate, rowVars, nodeVars, workerVars, ghostVars, Elsewhere
<1>4. /\ CalmThreads' /\ posts' \subseteq (posts \ {p}) \cup {q}
      /\ q.task = p.task /\ q.at = at /\ p.task \in Tasks
  BY <1>1, <1>2, <1>3, RequestMoves
<1>5. /\ PlaceInv /\ NoRepeats /\ Calm
  BY DEF ErrandInv
<1>6. ASSUME NEW u \in Tasks PROVE Sole(Places(u)') /\ Stage(u)'
  <2>1. /\ Queues(u)' = Queues(u) /\ Workers(u)' = Workers(u) /\ Arriving(u)' = Arriving(u)
        /\ Recording(u)' = Recording(u)
    BY <1>3 DEF Elsewhere, Queues, Workers, Arriving, Recording
  <2>2. CASE u = p.task
    <3>1. p \in Waiting(u)
      BY <1>3, <2>2 DEF Waiting
    <3>2. /\ Waiting(u) = {p} /\ Queues(u) = {} /\ Workers(u) = {} /\ Arriving(u) = {}
          /\ Recording(u) = {} /\ status[u] = "dispatched_to_node" /\ runs[u] = 0
      BY <1>5, <3>1, OnlyPlace
    <3>3. Waiting(u)' \subseteq {q}
      BY <1>4, <3>2 DEF Waiting
    <3>4. Sole(Places(u)')
      BY <2>1, <3>2, <3>3, PlaceMoves
    <3>5. HasRun(u)' = {}
      BY <2>1, <3>2 DEF HasRun
    <3>6. Stage(u)
      BY <1>5 DEF PlaceInv
    <3>7. Stage(u)'
      BY <1>3, <3>2, <3>5, <3>6 DEF Stage, Elsewhere
    <3>8. QED
      BY <3>4, <3>7
  <2>3. CASE u # p.task
    <3>1. Waiting(u)' \subseteq Waiting(u)
      BY <1>4, <2>3 DEF Waiting
    <3>2. Fewer(u)
      BY <1>3, <2>1, <3>1 DEF Fewer, Elsewhere
    <3>3. QED
      BY <1>5, <3>2, FewerKept
  <2>4. QED
    BY <2>2, <2>3
<1>7. NoRepeats' /\ ErrandStep /\ Calm'
  BY <1>3, <1>5, ErrandStutters DEF NoRepeats, Elsewhere, Calm
<1>8. QED
  BY <1>4, <1>6, <1>7 DEF ErrandInv, PlaceInv

LEMMA CalmMark ==
  ASSUME TypeInv, ErrandInv, NEW p \in posts, MarkAccepted(p)
  PROVE  ErrandInv' /\ ErrandStep
<1>1. posts' = Moved(p, "answered") \/ (p.orphan # 0 /\ posts' = posts \ {p})
  BY DEF MarkAccepted, Answer
<1>2. PICK q : q = [p EXCEPT !.at = "answered"]
  OBVIOUS
<1>3. thread' = thread /\ fresh' = fresh /\ Elsewhere
  BY DEF MarkAccepted, rowVars, nodeVars, ghostVars, Elsewhere
<1>4. /\ CalmThreads' /\ posts' \subseteq (posts \ {p}) \cup {q} /\ q.at = "answered"
  BY <1>1, <1>2, <1>3, RequestMoves
<1>5. \A t \in Tasks : Waiting(t)' \subseteq Waiting(t)
  BY <1>4 DEF Waiting
<1>6. QED
  BY <1>3, <1>4, <1>5, ElsewhereKeeps DEF ErrandInv, Calm

LEMMA CalmEnqueue ==
  ASSUME TypeInv, ErrandInv, NEW p \in posts, Enqueue(p)
  PROVE  ErrandInv' /\ ErrandStep
<1>1. posts' = Moved(p, "marking") /\ p.at = "queueing"
  BY DEF Enqueue
<1>2. PICK q : q = [p EXCEPT !.at = "marking"]
  OBVIOUS
<1>3. /\ thread' = thread /\ fresh' = fresh /\ status' = status /\ runs' = runs
      /\ results' = results /\ work' = work /\ reports' = reports /\ recorder' = recorder
      /\ queue' = [queue EXCEPT ![p.node] = Append(@, p.task)]
  BY DEF Enqueue, rowVars, nodeVars, ghostVars
<1>4. /\ CalmThreads' /\ posts' \subseteq (posts \ {p}) \cup {q}
      /\ q.task = p.task /\ q.at = "marking" /\ p.task \in Tasks /\ p.node \in Nodes
  BY <1>1, <1>2, <1>3, RequestMoves
<1>5. PlaceInv /\ NoRepeats /\ Calm
  BY DEF ErrandInv
<1>6. PICK t : t = p.task
  OBVIOUS
<1>7. PICK n : n = p.node
  OBVIOUS
<1>8. PICK s : s = queue[n]
  OBVIOUS
<1>9. /\ t \in Tasks /\ n \in Nodes /\ s \in Seq(Tasks) /\ queue'[n] = Append(s, t)
      /\ \A m \in Nodes \ {n} : queue'[m] = queue[m]
  BY <1>3, <1>4, <1>6, <1>7, <1>8 DEF TypeInv, TypeOK
<1>10. /\ Waiting(t) = {p} /\ Queues(t) = {} /\ Workers(t) = {} /\ Arriving(t) = {}
       /\ Recording(t) = {} /\ status[t] = "dispatched_to_node" /\ runs[t] = 0
  <2>1. p \in Waiting(t)
    BY <1>1, <1>6 DEF Waiting
  <2>2. QED
    BY <1>5, <1>9, <2>1, OnlyPlace
<1>11. /\ Len(Append(s, t)) = Len(s) + 1 /\ Len(s) \in Nat /\ Append(s, t)[Len(s) + 1] = t
       /\ \A i \in 1..Len(s) : Append(s, t)[i] = s[i] /\ s[i] # t
  BY <1>8, <1>9, <1>10 DEF Queues
<1>12. NoRepeats'
  <2>1. ASSUME NEW i \in 1..(Len(s) + 1), NEW j \in 1..(Len(s) + 1),
               Append(s, t)[i] = Append(s, t)[j]
        PROVE  i = j
    <3>1. \A a, b \in 1..Len(s) : s[a] = s[b] => a = b
      BY <1>5, <1>8, <1>9 DEF NoRepeats, Distinct
    <3>2. i \in 1..Len(s) \/ i = Len(s) + 1
      BY <1>11
    <3>3. j \in 1..Len(s) \/ j = Len(s) + 1
      BY <1>11
    <3>4. CASE i \in 1..Len(s) /\ j \in 1..Len(s)
      BY <1>11, <2>1, <3>1, <3>4
    <3>5. CASE i \in 1..Len(s) /\ j = Len(s) + 1
      BY <1>11, <2>1, <3>5
    <3>6. CASE i = Len(s) + 1 /\ j \in 1..Len(s)
      BY <1>11, <2>1, <3>6
    <3>7. QED
      BY <3>2, <3>3, <3>4, <3>5, <3>6
  <2>2. ASSUME NEW m \in Nodes PROVE Distinct(queue'[m])
    <3>1. CASE m = n
      <4>1. Distinct(Append(s, t))
        BY <1>11, <2>1 DEF Distinct
      <4>2. QED
        BY <1>9, <3>1, <4>1
    <3>2. CASE m # n
      BY <1>5, <1>9, <3>2 DEF NoRepeats
    <3>3. QED
      BY <3>1, <3>2
  <2>3. QED
    BY <2>2 DEF NoRepeats
<1>13. ASSUME NEW u \in Tasks PROVE Sole(Places(u)') /\ Stage(u)'
  <2>1. /\ Workers(u)' = Workers(u) /\ Arriving(u)' = Arriving(u)
        /\ Recording(u)' = Recording(u)
    BY <1>3 DEF Workers, Arriving, Recording
  <2>2. CASE u = t
    <3>1. Waiting(u)' = {}
      BY <1>4, <1>10, <2>2 DEF Waiting
    <3>2. Queues(u)' \subseteq {n}
      <4>1. \A m \in Nodes \ {n} : ~\E i \in 1..Len(queue'[m]) : queue'[m][i] = u
        BY <1>9, <1>10, <2>2 DEF Queues
      <4>2. QED
        BY <4>1 DEF Queues
    <3>3. Sole(Places(u)')
      BY <1>10, <2>1, <2>2, <3>1, <3>2, PlaceMoves
    <3>4. HasRun(u)' = {}
      BY <1>10, <2>1, <2>2 DEF HasRun
    <3>5. Stage(u)
      BY <1>5 DEF PlaceInv
    <3>6. Stage(u)'
      BY <1>3, <1>10, <2>2, <3>4, <3>5 DEF Stage
    <3>7. QED
      BY <3>3, <3>6
  <2>3. CASE u # t
    <3>1. Waiting(u)' \subseteq Waiting(u)
      BY <1>4, <1>6, <2>3 DEF Waiting
    <3>2. Queues(u)' \subseteq Queues(u)
      <4>1. ASSUME NEW m \in Nodes, NEW i \in 1..Len(queue'[m]), queue'[m][i] = u
            PROVE  m \in Queues(u)
        <5>1. CASE m = n
          <6>1. i \in 1..Len(s) \/ i = Len(s) + 1
            BY <1>9, <1>11, <5>1
          <6>2. QED
            BY <1>8, <1>9, <1>11, <2>3, <4>1, <5>1, <6>1 DEF Queues
        <5>2. CASE m # n
          BY <1>9, <4>1, <5>2 DEF Queues
        <5>3. QED
          BY <5>1, <5>2
      <4>2. QED
        BY <4>1 DEF Queues
    <3>3. Fewer(u)
      BY <1>3, <2>1, <3>1, <3>2 DEF Fewer
    <3>4. QED
      BY <1>5, <3>3, FewerKept
  <2>4. QED
    BY <2>2, <2>3
<1>14. ErrandStep /\ Calm'
  BY <1>3, <1>5, ErrandStutters DEF Calm
<1>15. QED
  BY <1>4, <1>12, <1>13, <1>14 DEF ErrandInv, PlaceInv

\* A node takes the head of its queue, which is there only once.
LEMMA CalmDequeue ==
  ASSUME TypeInv, ErrandInv, NEW n \in Nodes, Dequeue(n)
  PROVE  ErrandInv' /\ ErrandStep
<1>1. PICK s : s = queue[n]
  OBVIOUS
<1>2. /\ s \in Seq(Tasks) /\ s # <<>> /\ queue \in [Nodes -> Seq(Tasks)]
      /\ work \in [Nodes -> Tasks \cup {NoTask}]
  BY <1>1 DEF Dequeue, TypeInv, TypeOK
<1>3. PICK t : t = Head(s)
  OBVIOUS
<1>4. /\ work' = [work EXCEPT ![n] = t] /\ queue' = [queue EXCEPT ![n] = Tail(s)]
      /\ posts' = posts /\ thread' = thread /\ fresh' = fresh /\ status' = status
      /\ runs' = runs /\ results' = results /\ reports' = reports /\ recorder' = recorder
  BY <1>1, <1>2, <1>3 DEF Dequeue, rowVars, nodeVars, ghostVars
<1>5. /\ t \in Tasks /\ t = s[1] /\ Len(s) \in Nat \ {0}
      /\ Len(Tail(s)) = Len(s) - 1
      /\ \A i \in 1..(Len(s) - 1) : Tail(s)[i] = s[i + 1]
  BY <1>2, <1>3
<1>6. /\ work'[n] = t /\ queue'[n] = Tail(s)
      /\ \A m \in Nodes \ {n} : work'[m] = work[m] /\ queue'[m] = queue[m]
  BY <1>2, <1>4
<1>7. PlaceInv /\ NoRepeats /\ Calm /\ CalmThreads
  BY DEF ErrandInv
<1>8. /\ Waiting(t) = {} /\ Queues(t) = {n} /\ Workers(t) = {} /\ Arriving(t) = {}
      /\ Recording(t) = {} /\ status[t] = "dispatched_to_node" /\ runs[t] = 0
  <2>1. n \in Queues(t)
    BY <1>1, <1>5 DEF Queues
  <2>2. QED
    BY <1>5, <1>7, <2>1, OnlyPlace
<1>9. \A i, j \in 1..Len(s) : s[i] = s[j] => i = j
  BY <1>1, <1>7 DEF NoRepeats, Distinct
<1>10. NoRepeats'
  <2>1. ASSUME NEW i \in 1..(Len(s) - 1), NEW j \in 1..(Len(s) - 1), Tail(s)[i] = Tail(s)[j]
        PROVE  i = j
    <3>1. i + 1 \in 1..Len(s) /\ j + 1 \in 1..Len(s) /\ s[i + 1] = s[j + 1]
      BY <1>5, <2>1
    <3>2. i + 1 = j + 1
      BY <1>9, <3>1
    <3>3. QED
      BY <3>2
  <2>2. ASSUME NEW m \in Nodes PROVE Distinct(queue'[m])
    <3>1. CASE m = n
      <4>1. Distinct(Tail(s))
        BY <1>5, <2>1 DEF Distinct
      <4>2. QED
        BY <1>6, <3>1, <4>1
    <3>2. CASE m # n
      BY <1>6, <1>7, <3>2 DEF NoRepeats
    <3>3. QED
      BY <3>1, <3>2
  <2>3. QED
    BY <2>2 DEF NoRepeats
<1>11. ASSUME NEW u \in Tasks, NEW i \in 1..Len(queue'[n]), queue'[n][i] = u
       PROVE  u # t /\ n \in Queues(u)
  <2>1. i \in 1..(Len(s) - 1) /\ i + 1 \in 1..Len(s) /\ s[i + 1] = u
    BY <1>5, <1>6, <1>11
  <2>2. u # t
    BY <1>5, <1>9, <2>1
  <2>3. QED
    BY <1>1, <2>1, <2>2 DEF Queues
<1>12. ASSUME NEW u \in Tasks PROVE Sole(Places(u)') /\ Stage(u)'
  <2>1. /\ Waiting(u)' = Waiting(u) /\ Arriving(u)' = Arriving(u)
        /\ Recording(u)' = Recording(u)
    BY <1>4 DEF Waiting, Arriving, Recording
  <2>2. Queues(u)' \subseteq Queues(u) /\ (u = t => n \notin Queues(u)')
    BY <1>6, <1>11 DEF Queues
  <2>3. CASE u = t
    <3>1. Queues(u)' = {}
      BY <1>8, <2>2, <2>3
    <3>2. Workers(u)' \subseteq {n}
      BY <1>6, <1>8, <2>3 DEF Workers
    <3>3. Sole(Places(u)')
      BY <1>8, <2>1, <2>3, <3>1, <3>2, PlaceMoves
    <3>4. HasRun(u)' = {}
      BY <1>8, <2>1, <2>3 DEF HasRun
    <3>5. Stage(u)
      BY <1>7 DEF PlaceInv
    <3>6. Stage(u)'
      BY <1>4, <1>8, <2>3, <3>4, <3>5 DEF Stage
    <3>7. QED
      BY <3>3, <3>6
  <2>4. CASE u # t
    <3>1. Workers(u)' \subseteq Workers(u)
      BY <1>6, <2>4 DEF Workers
    <3>2. Fewer(u)
      BY <1>4, <2>1, <2>2, <3>1 DEF Fewer
    <3>3. QED
      BY <1>7, <3>2, FewerKept
  <2>5. QED
    BY <2>3, <2>4
<1>13. CalmThreads' /\ Calm' /\ ErrandStep
  <2>1. ASSUME NEW x \in Threads PROVE CalmThread(x)'
    BY <1>4, <1>7 DEF CalmThreads, CalmThread, At, Pending
  <2>2. QED
    BY <1>4, <1>7, <2>1, ErrandStutters DEF CalmThreads, Calm
<1>14. QED
  BY <1>10, <1>12, <1>13 DEF ErrandInv, PlaceInv

\* The only place of the task becomes the report, and this is its one run.
LEMMA CalmFinish ==
  ASSUME TypeInv, ErrandInv, NEW n \in Nodes, FinishWork(n)
  PROVE  ErrandInv' /\ ErrandStep
<1> DEFINE report(o) == [task |-> work[n], node |-> n, outcome |-> o, id |-> runs[work[n]]]
<1>1. PICK o \in Outcomes : reports' = reports \cup {report(o)}
  BY DEF FinishWork
<1>2. PICK t : t = work[n]
  OBVIOUS
<1>3. PICK rep : rep = report(o)
  OBVIOUS
<1>4. /\ t \in Tasks /\ rep.task = t /\ reports' = reports \cup {rep}
      /\ work' = [work EXCEPT ![n] = NoTask] /\ runs' = [runs EXCEPT ![t] = @ + 1]
      /\ posts' = posts /\ thread' = thread /\ fresh' = fresh /\ status' = status
      /\ queue' = queue /\ results' = results /\ recorder' = recorder
      /\ work \in [Nodes -> Tasks \cup {NoTask}] /\ runs \in [Tasks -> Nat]
  BY <1>1, <1>2, <1>3 DEF FinishWork, rowVars, nodeVars, TypeInv, TypeOK
<1> HIDE DEF report
<1>5. PlaceInv /\ NoRepeats /\ Calm /\ CalmThreads
  BY DEF ErrandInv
<1>6. /\ Waiting(t) = {} /\ Queues(t) = {} /\ Workers(t) = {n} /\ Arriving(t) = {}
      /\ Recording(t) = {} /\ status[t] = "dispatched_to_node" /\ runs[t] = 0
  <2>1. n \in Workers(t)
    BY <1>2 DEF Workers
  <2>2. QED
    BY <1>4, <1>5, <2>1, OnlyPlace
<1>7. \A m \in Nodes : work'[m] \in Tasks => work'[m] = work[m] /\ m # n
  BY <1>4
<1>8. ASSUME NEW u \in Tasks PROVE Sole(Places(u)') /\ Stage(u)'
  <2>1. /\ Waiting(u)' = Waiting(u) /\ Queues(u)' = Queues(u) /\ Recording(u)' = Recording(u)
    BY <1>4 DEF Waiting, Queues, Recording
  <2>2. Workers(u)' \subseteq Workers(u) \ {n}
    BY <1>7 DEF Workers
  <2>3. CASE u = t
    <3>1. Workers(u)' = {}
      BY <1>6, <2>2, <2>3
    <3>2. Arriving(u)' \subseteq {rep}
      BY <1>4, <1>6, <2>3 DEF Arriving
    <3>3. Sole(Places(u)')
      BY <1>6, <2>1, <2>3, <3>1, <3>2, PlaceMoves
    <3>4. Unrun(u)' = {}
      BY <1>6, <2>1, <2>3, <3>1 DEF Unrun
    <3>5. runs'[u] = 1 /\ status'[u] = "dispatched_to_node" /\ results'[u] = results[u]
      BY <1>4, <1>6, <2>3
    <3>6. Stage(u)
      BY <1>5 DEF PlaceInv
    <3>7. Stage(u)'
      BY <1>4, <3>4, <3>5, <3>6 DEF Stage
    <3>8. QED
      BY <3>3, <3>7
  <2>4. CASE u # t
    <3>1. Arriving(u)' \subseteq Arriving(u)
      BY <1>4, <2>4 DEF Arriving
    <3>2. runs'[u] = runs[u]
      BY <1>4, <2>4
    <3>3. Fewer(u)
      BY <1>4, <2>1, <2>2, <3>1, <3>2 DEF Fewer
    <3>4. QED
      BY <1>5, <3>3, FewerKept
  <2>5. QED
    BY <2>3, <2>4
<1>9. ErrandStep
  <2>1. Errand!Run(t)
    BY <1>4, <1>6 DEF Errand!Run
  <2>2. QED
    BY <1>4, <2>1 DEF ErrandStep, Errand!Next
<1>10. CalmThreads' /\ Calm' /\ NoRepeats'
  <2>1. ASSUME NEW x \in Threads PROVE CalmThread(x)'
    BY <1>4, <1>5 DEF CalmThreads, CalmThread, At, Pending
  <2>2. QED
    BY <1>4, <1>5, <2>1 DEF CalmThreads, Calm, NoRepeats
<1>11. QED
  BY <1>8, <1>9, <1>10 DEF ErrandInv, PlaceInv

LEMMA CalmReceive ==
  ASSUME TypeInv, ErrandInv, NEW r \in Recorders, NEW rep \in reports, ReceiveReport(r, rep)
  PROVE  ErrandInv' /\ ErrandStep
<1>1. /\ reports' = reports \ {rep} /\ rep.task \in Tasks
      /\ posts' = posts /\ thread' = thread /\ fresh' = fresh /\ status' = status
      /\ queue' = queue /\ work' = work /\ results' = results /\ runs' = runs
      /\ recorder \in [Recorders -> RecorderStates]
  BY NoFault DEF ReceiveReport, ErrandInv, TypeInv, TypeOK, Reports, rowVars, nodeVars,
                 workerVars, ghostVars
<1>2. PICK c : c = [step |-> "write", task |-> rep.task, node |-> rep.node,
                    outcome |-> rep.outcome]
  OBVIOUS
<1>3. recorder' = [recorder EXCEPT ![r] = c] \/ recorder' = recorder
  BY <1>2 DEF ReceiveReport
<1>4. PICK t : t = rep.task
  OBVIOUS
<1>5. /\ t \in Tasks /\ c.task = t
      /\ recorder'[r] = c \/ recorder'[r] = recorder[r]
      /\ \A x \in Recorders \ {r} : recorder'[x] = recorder[x]
  BY <1>1, <1>2, <1>3, <1>4
<1>6. PlaceInv /\ NoRepeats /\ Calm /\ CalmThreads
  BY DEF ErrandInv
<1>7. /\ Waiting(t) = {} /\ Queues(t) = {} /\ Workers(t) = {} /\ Arriving(t) = {rep}
      /\ Recording(t) = {} /\ status[t] = "dispatched_to_node" /\ runs[t] = 1
  <2>1. rep \in Arriving(t)
    BY <1>4 DEF Arriving
  <2>2. QED
    BY <1>5, <1>6, <2>1, OnlyPlace
<1>8. ASSUME NEW u \in Tasks PROVE Sole(Places(u)') /\ Stage(u)'
  <2>1. /\ Waiting(u)' = Waiting(u) /\ Queues(u)' = Queues(u) /\ Workers(u)' = Workers(u)
    BY <1>1 DEF Waiting, Queues, Workers
  <2>2. Arriving(u)' \subseteq Arriving(u) \ {rep}
    BY <1>1 DEF Arriving
  <2>3. CASE u = t
    <3>1. Arriving(u)' = {}
      BY <1>7, <2>2, <2>3
    <3>2. Recording(u)' \subseteq {r}
      BY <1>5, <1>7, <2>3 DEF Recording
    <3>3. Sole(Places(u)')
      BY <1>7, <2>1, <2>3, <3>1, <3>2, PlaceMoves
    <3>4. Unrun(u)' = {}
      BY <1>7, <2>1, <2>3 DEF Unrun
    <3>5. Stage(u)
      BY <1>6 DEF PlaceInv
    <3>6. Stage(u)'
      BY <1>1, <1>7, <2>3, <3>4, <3>5 DEF Stage
    <3>7. QED
      BY <3>3, <3>6
  <2>4. CASE u # t
    <3>1. Recording(u)' \subseteq Recording(u)
      BY <1>5, <2>4 DEF Recording
    <3>2. Fewer(u)
      BY <1>1, <2>1, <2>2, <3>1 DEF Fewer
    <3>3. QED
      BY <1>6, <3>2, FewerKept
  <2>5. QED
    BY <2>3, <2>4
<1>9. CalmThreads' /\ Calm' /\ NoRepeats' /\ ErrandStep
  <2>1. ASSUME NEW x \in Threads PROVE CalmThread(x)'
    BY <1>1, <1>6 DEF CalmThreads, CalmThread, At, Pending
  <2>2. QED
    BY <1>1, <1>6, <2>1, ErrandStutters DEF CalmThreads, Calm, NoRepeats
<1>10. QED
  BY <1>8, <1>9 DEF ErrandInv, PlaceInv

\* What is recorded has run once and was not recorded before.
LEMMA CalmRecord ==
  ASSUME TypeInv, ErrandInv, NEW r \in Recorders, RecordResult(r)
  PROVE  ErrandInv' /\ ErrandStep
<1>1. PICK c : c = recorder[r]
  OBVIOUS
<1>2. PICK t : t = c.task
  OBVIOUS
<1>3. PICK o : o = c.outcome
  OBVIOUS
<1>4. /\ c.step = "write" /\ status' = [status EXCEPT ![t] = o]
      /\ results' = IF o = "completed" THEN [results EXCEPT ![t] = @ + 1] ELSE results
      /\ recorder' = [recorder EXCEPT ![r] = IF o = "completed"
                                             THEN [c EXCEPT !.step = "reset"] ELSE Listening]
      /\ posts' = posts /\ thread' = thread /\ fresh' = fresh /\ reports' = reports
      /\ queue' = queue /\ work' = work /\ runs' = runs
  BY <1>1, <1>2, <1>3 DEF RecordResult, StatusAfter, workerVars, ghostVars
<1>5. /\ recorder \in [Recorders -> RecorderStates] /\ c \in RecorderStates
      /\ o \in Outcomes /\ t \in Tasks
      /\ status \in [Tasks -> Statuses] /\ results \in [Tasks -> Nat]
  BY <1>1, <1>2, <1>3, <1>4 DEF TypeInv, TypeOK, RecorderInv
<1>6. /\ recorder'[r].step # "write"
      /\ \A x \in Recorders \ {r} : recorder'[x] = recorder[x]
  BY <1>4, <1>5 DEF Listening, RecorderStates
<1>7. PlaceInv /\ NoRepeats /\ Calm /\ CalmThreads
  BY DEF ErrandInv
<1>8. /\ Waiting(t) = {} /\ Queues(t) = {} /\ Workers(t) = {} /\ Arriving(t) = {}
      /\ Recording(t) = {r} /\ status[t] = "dispatched_to_node" /\ runs[t] = 1
  <2>1. r \in Recording(t)
    BY <1>1, <1>2, <1>4 DEF Recording
  <2>2. QED
    BY <1>5, <1>7, <2>1, OnlyPlace
<1>9. results[t] = 0
  BY <1>5, <1>7, <1>8 DEF PlaceInv, Stage
<1>10. ASSUME NEW u \in Tasks PROVE Sole(Places(u)') /\ Stage(u)'
  <2>1. /\ Waiting(u)' = Waiting(u) /\ Queues(u)' = Queues(u) /\ Workers(u)' = Workers(u)
        /\ Arriving(u)' = Arriving(u)
    BY <1>4 DEF Waiting, Queues, Workers, Arriving
  <2>2. Recording(u)' \subseteq Recording(u) \ {r}
    BY <1>6 DEF Recording
  <2>3. CASE u = t
    <3>1. Recording(u)' = {}
      BY <1>8, <2>2, <2>3
    <3>2. Sole(Places(u)')
      BY <1>8, <2>1, <2>3, <3>1, PlaceMoves
    <3>3. Unrun(u)' = {} /\ HasRun(u)' = {}
      BY <1>8, <2>1, <2>3, <3>1 DEF Unrun, HasRun
    <3>4. status'[u] \in Outcomes /\ status'[u] # "planned"
      BY <1>4, <1>5, <2>3
    <3>5. Stage(u)'
      BY <3>3, <3>4 DEF Stage
    <3>6. QED
      BY <3>2, <3>5
  <2>4. CASE u # t
    <3>1. status'[u] = status[u] /\ results'[u] = results[u]
      BY <1>4, <1>5, <2>4
    <3>2. Fewer(u)
      BY <1>4, <2>1, <2>2, <3>1 DEF Fewer
    <3>3. QED
      BY <1>7, <3>2, FewerKept
  <2>5. QED
    BY <2>3, <2>4
<1>11. ErrandStep
  <2>1. results' = [results EXCEPT ![t] = IF o = "completed" THEN 1 ELSE 0]
    <3>1. CASE o = "completed"
      <4>1. results' = [results EXCEPT ![t] = results[t] + 1]
        BY <1>4, <3>1
      <4>2. QED
        BY <1>9, <3>1, <4>1
    <3>2. CASE o # "completed"
      <4>1. results = [results EXCEPT ![t] = 0]
        BY <1>5, <1>9
      <4>2. QED
        BY <1>4, <3>2, <4>1
    <3>3. QED
      BY <3>1, <3>2
  <2>2. Errand!Record(t, o)
    BY <1>4, <1>8, <2>1 DEF Errand!Record
  <2>3. QED
    BY <1>5, <2>2 DEF ErrandStep, Errand!Next
<1>12. CalmThreads' /\ Calm' /\ NoRepeats'
  <2>1. ASSUME NEW x \in Threads PROVE CalmThread(x)'
    BY <1>4, <1>7 DEF CalmThreads, CalmThread, At, Pending
  <2>2. QED
    BY <1>4, <1>7, <2>1 DEF CalmThreads, Calm, NoRepeats
<1>13. QED
  BY <1>10, <1>11, <1>12 DEF ErrandInv, PlaceInv

\* The remaining steps change no place.
LEMMA CalmRest ==
  ASSUME TypeInv, ErrandInv,
         \/ \E n \in Nodes : Heartbeat(n) \/ QuarantineExpires(n)
         \/ \E r \in Recorders : ResetFailures(r)
         \/ UNCHANGED vars
  PROVE  ErrandInv' /\ ErrandStep
<1>1. /\ status' = status /\ results' = results /\ runs' = runs /\ queue' = queue
      /\ work' = work /\ reports' = reports /\ posts' = posts /\ thread' = thread
      /\ fresh' = fresh \/ \E n \in Nodes : fresh' = fresh \cup {n}
  BY DEF Heartbeat, QuarantineExpires, ResetFailures, vars, rowVars, nodeVars, workerVars,
         ghostVars
<1>2. \A r \in Recorders : recorder'[r] = recorder[r] \/ recorder'[r].step = "idle"
  <2>1. CASE \E r \in Recorders : ResetFailures(r)
    <3>1. PICK r \in Recorders : recorder' = [recorder EXCEPT ![r] = Listening]
      BY <2>1 DEF ResetFailures
    <3>2. QED
      BY <3>1 DEF Listening, TypeInv, TypeOK
  <2>2. CASE ~\E r \in Recorders : ResetFailures(r)
    BY <2>2 DEF Heartbeat, QuarantineExpires, vars
  <2>3. QED
    BY <2>1, <2>2
<1>3. PlaceInv /\ NoRepeats /\ Calm /\ CalmThreads
  BY DEF ErrandInv
<1>4. ASSUME NEW t \in Tasks PROVE Fewer(t)
  <2>1. Recording(t)' \subseteq Recording(t)
    BY <1>2 DEF Recording
  <2>2. QED
    BY <1>1, <2>1 DEF Fewer, Waiting, Queues, Workers, Arriving
<1>5. PlaceInv'
  BY <1>3, <1>4, FewerKept DEF PlaceInv
<1>6. CalmThreads' /\ Calm' /\ NoRepeats' /\ ErrandStep
  <2>1. ASSUME NEW x \in Threads PROVE CalmThread(x)'
    BY <1>1, <1>3 DEF CalmThreads, CalmThread, At, Pending
  <2>2. QED
    BY <1>1, <1>3, <2>1, ErrandStutters DEF CalmThreads, Calm, NoRepeats
<1>7. QED
  BY <1>5, <1>6 DEF ErrandInv

LEMMA ErrandSteps ==
  ASSUME TypeInv, SenderOwnsClaim, ErrandInv, [Next]_vars
  PROVE  ErrandInv' /\ ErrandStep
<1>0. ~Fault
  BY NoFault DEF ErrandInv
<1>1. CASE \E th \in Threads : SweepAction(th)
  BY <1>1, CalmSweep
<1>2. CASE \E d \in Dispatchers : DispatchAction(d)
  BY <1>2, CalmActions, CalmCycle, CalmAnswer, CalmClaim
<1>3. CASE \E n \in Nodes : NodeAction(n)
  <2>1. PICK n \in Nodes : NodeAction(n)
    BY <1>3
  <2>2. ~HeartbeatsStop(n) /\ ~WorkerRestarts(n)
    BY <1>0 DEF HeartbeatsStop, WorkerRestarts
  <2>3. CASE NodeStep(n)
    BY <2>3, CalmCheck, CalmEnqueue, CalmMark, CalmDequeue, CalmFinish DEF NodeStep
  <2>4. CASE Heartbeat(n) \/ QuarantineExpires(n)
    BY <2>4, CalmRest
  <2>5. QED
    BY <2>1, <2>2, <2>3, <2>4 DEF NodeAction
<1>4. CASE \E r \in Recorders : RecorderStep(r)
  BY <1>4, CalmReceive, CalmRecord, CalmRest DEF RecorderStep
<1>5. ~LoseReport /\ ~MasterRestarts
  BY <1>0 DEF LoseReport, MasterRestarts
<1>6. CASE UNCHANGED vars
  BY <1>6, CalmRest
<1>7. QED
  BY <1>1, <1>2, <1>3, <1>4, <1>5, <1>6, NextCases

\* The dispatcher does its errands: without slow tasks and without faults, however
\* many threads, nodes and recorders there are, every task is given away once
\* (dispatcher.py), run once and recorded once.
THEOREM DoesErrands == Slow = {} /\ MaxFaults = 0 /\ Spec => RunsErrands
<1>1. Slow = {} /\ MaxFaults = 0 /\ Init => ErrandInv /\ Errand!Init
  <2> SUFFICES ASSUME Slow = {}, MaxFaults = 0, Init PROVE ErrandInv /\ Errand!Init
    OBVIOUS
  <2>1. Errand!Init
    BY DEF Init, Errand!Init
  <2>2. Calm /\ CalmThreads
    BY DEF Init, Calm, CalmThreads, CalmThread, Resting, At
  <2>3. NoRepeats
    BY DEF Init, NoRepeats, Distinct
  <2>4. ASSUME NEW t \in Tasks PROVE Sole(Places(t)) /\ Stage(t)
    <3>1. Waiting(t) = {} /\ Queues(t) = {} /\ Arriving(t) = {}
      BY DEF Init, Waiting, Queues, Arriving
    <3>2. Workers(t) = {} /\ Recording(t) = {}
      BY DEF Init, Workers, Recording, Listening
    <3>3. Sole(Places(t))
      BY <3>1, <3>2, SolePlaced DEF Places
    <3>4. Stage(t)
      BY <3>1, <3>2 DEF Init, Stage, Unrun, HasRun
    <3>5. QED
      BY <3>3, <3>4
  <2>5. QED
    BY <2>1, <2>2, <2>3, <2>4 DEF ErrandInv, PlaceInv
<1>2. TypeInv /\ SenderOwnsClaim /\ ErrandInv /\ [Next]_vars
         => ErrandInv' /\ [Errand!Next]_(Errand!vars)
  BY ErrandSteps DEF ErrandStep
<1>3. Spec => []TypeInv
  BY InitTypeInv, NextTypeInv, PTL DEF Spec
<1>4. QED
  BY <1>1, <1>2, <1>3, SenderOwnsItsClaim, PTL DEF Spec, RunsErrands, Errand!Spec

=============================================================================
