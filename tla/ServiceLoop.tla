------------------------------ MODULE ServiceLoop ------------------------------
(***************************************************************************)
(* The life of a background loop: start, stop and the thread's own test of *)
(* the stop event, as the heartbeat monitor, the heartbeat sender, the     *)
(* reconciler and the dispatcher each write it.                            *)
(*                                                                         *)
(* start() looks for a running thread and replaces the stop event under a  *)
(* lock, but creates and launches the thread outside it; stop() waits for  *)
(* a bounded time and then forgets the thread.  The loop reads the event   *)
(* through the module's global, so that a thread which outlived its stop   *)
(* obeys the event of the next start.                                      *)
(***************************************************************************)
CONSTANTS Callers,     \* threads that call start() and stop()
          Threads,     \* the threads one life of the process can create
          NoThread     \* None

ASSUME LoopConstantsOK == NoThread \notin Threads

VARIABLES
    raised,    \* is the current stop event set?
    handle,    \* _monitor_thread
    thread,    \* life of each thread
    caller,    \* step of each caller
    gaveUp,    \* for observation: a join ran out of time
    overlapped \* for observation: two calls were in progress at once

loopVars == <<raised, handle, thread, caller, gaveUp, overlapped>>

Steps == {"idle", "create", "launch", "ask", "join", "forget"}

LoopTypeOK ==
    /\ raised \in BOOLEAN
    /\ handle \in Threads \cup {NoThread}
    /\ thread \in [Threads -> {"unborn", "made", "test", "cycle", "wait", "ended"}]
    /\ caller \in [Callers -> Steps]
    /\ gaveUp \in BOOLEAN /\ overlapped \in BOOLEAN

LoopInit ==
    /\ raised = FALSE
    /\ handle = NoThread
    /\ thread = [m \in Threads |-> "unborn"]
    /\ caller = [c \in Callers |-> "idle"]
    /\ gaveUp = FALSE /\ overlapped = FALSE

Running == {m \in Threads : thread[m] \in {"test", "cycle", "wait"}}

Goes(c, step) == caller' = [caller EXCEPT ![c] = step]

Enters(c) ==
    /\ caller[c] = "idle"
    /\ overlapped' = (overlapped \/ \E d \in Callers : caller[d] # "idle")

-----------------------------------------------------------------------------
(* start() *)

\* (mutant: the running thread is not asked for)
StartAnother(c) ==
    /\ Enters(c)
    /\ raised' = FALSE
    /\ Goes(c, "create")
    /\ UNCHANGED <<handle, thread, gaveUp>>

\* No-op while the known thread is alive; else a new event, which nobody has set.
Start(c) ==
    /\ Enters(c)
    /\ handle \notin Running
    /\ raised' = FALSE
    /\ Goes(c, "create")
    /\ UNCHANGED <<handle, thread, gaveUp>>

Create(c) ==
    /\ caller[c] = "create"
    /\ \E m \in Threads :
          /\ thread[m] = "unborn"
          /\ handle' = m
          /\ thread' = [thread EXCEPT ![m] = "made"]
    /\ Goes(c, "launch")
    /\ UNCHANGED <<raised, gaveUp, overlapped>>

\* start() goes through the global: if another call replaced or forgot the
\* thread, it is that one which is launched, or the call raises.
Launch(c) ==
    /\ caller[c] = "launch"
    /\ thread' = IF handle # NoThread /\ thread[handle] = "made"
                 THEN [thread EXCEPT ![handle] = "test"] ELSE thread
    /\ Goes(c, "idle")
    /\ UNCHANGED <<raised, handle, gaveUp, overlapped>>

-----------------------------------------------------------------------------
(* stop() *)

Stop(c) ==
    /\ Enters(c)
    /\ raised' = TRUE
    /\ Goes(c, "ask")
    /\ UNCHANGED <<handle, thread, gaveUp>>

\* Without a lock: another call may have come between.
AskForThread(c) ==
    /\ caller[c] = "ask"
    /\ Goes(c, IF handle = NoThread THEN "forget" ELSE "join")
    /\ UNCHANGED <<raised, handle, thread, gaveUp, overlapped>>

\* The thread ended, or another call has replaced or forgotten it meanwhile:
\* asking None whether it is alive, or joining a thread that was not launched
\* yet, raises, and nothing is forgotten.
Joins(c) ==
    /\ caller[c] = "join"
    /\ handle \notin Running
    /\ \/ handle # NoThread /\ Goes(c, "forget")
       \/ (handle # NoThread => thread[handle] = "made") /\ Goes(c, "idle")
    /\ UNCHANGED <<raised, handle, thread, gaveUp, overlapped>>

JoinTimesOut(c) ==
    /\ caller[c] = "join"
    /\ handle \in Running
    /\ gaveUp' = TRUE
    /\ Goes(c, "forget")
    /\ UNCHANGED <<raised, handle, thread, overlapped>>

\* (mutant: a stopped loop is marked by a value of its own)
ForgetForGood(c) ==
    /\ caller[c] = "forget"
    /\ handle' = "stopped"
    /\ Goes(c, "idle")
    /\ UNCHANGED <<raised, thread, gaveUp, overlapped>>

Forget(c) ==
    /\ caller[c] = "forget"
    /\ handle' = NoThread
    /\ Goes(c, "idle")
    /\ UNCHANGED <<raised, thread, gaveUp, overlapped>>

-----------------------------------------------------------------------------
(* The loop *)

Test(m) ==
    /\ thread[m] = "test"
    /\ thread' = [thread EXCEPT ![m] = IF raised THEN "ended" ELSE "cycle"]
    /\ UNCHANGED <<raised, handle, caller, gaveUp, overlapped>>

\* A cycle ends, without an exception or by one that the loop catches.
EndCycle(m) ==
    /\ thread[m] = "cycle"
    /\ thread' = [thread EXCEPT ![m] = "wait"]
    /\ UNCHANGED <<raised, handle, caller, gaveUp, overlapped>>

\* The sender's loop catches none: an exception in its cycle ends the thread.
\* (For the other three loops this allows more than they do.)
CycleRaises(m) ==
    /\ thread[m] = "cycle"
    /\ thread' = [thread EXCEPT ![m] = "ended"]
    /\ UNCHANGED <<raised, handle, caller, gaveUp, overlapped>>

\* (mutant: a wait that is over is taken for the interval having passed)
WaitEndsInCycle(m) ==
    /\ thread[m] = "wait"
    /\ thread' = [thread EXCEPT ![m] = "cycle"]
    /\ UNCHANGED <<raised, handle, caller, gaveUp, overlapped>>

\* The event is set or the interval is over.  (The dispatcher waits for a
\* second event, which wake() and stop() set and the loop clears after each
\* cycle: what was set during the cycle is lost, and the interval is left.)
WaitEnds(m) ==
    /\ thread[m] = "wait"
    /\ thread' = [thread EXCEPT ![m] = "test"]
    /\ UNCHANGED <<raised, handle, caller, gaveUp, overlapped>>

-----------------------------------------------------------------------------

Call(c) ==
    \/ Start(c) \/ Create(c) \/ Launch(c)
    \/ Stop(c) \/ AskForThread(c) \/ Joins(c) \/ JoinTimesOut(c) \/ Forget(c)

\* The process ends: everything but the observations is new.
Reset ==
    /\ raised' = FALSE
    /\ handle' = NoThread
    /\ thread' = [m \in Threads |-> "unborn"]
    /\ caller' = [c \in Callers |-> "idle"]
    /\ gaveUp' = FALSE /\ overlapped' = FALSE

LoopNext ==
    \/ \E c \in Callers : Call(c)
    \/ \E m \in Threads : Test(m) \/ EndCycle(m) \/ CycleRaises(m) \/ WaitEnds(m)
    \/ Reset

LoopSpec == LoopInit /\ [][LoopNext]_loopVars

\* A thread that is scheduled gets to the end of a cycle (every call in one has
\* a timeout), the interval of a wait passes, and a test is one instruction.
FairLoopSpec ==
    /\ LoopSpec
    /\ \A m \in Threads :
          WF_loopVars(Test(m)) /\ WF_loopVars(EndCycle(m)) /\ WF_loopVars(WaitEnds(m))

-----------------------------------------------------------------------------
(* Properties *)

\* heartbeat_monitor.py:76 "Safe to call once; subsequent calls while running
\* are no-ops": calls made one after the other, none of which gave up on a
\* thread, never have two loops running.
OneLoopInOrder ==
    ~gaveUp /\ ~overlapped => \A m, n \in Running : m = n

\* However start() and stop() overlapped and whatever thread they lost, once
\* the event is set for good every loop comes to its end, the forgotten ones
\* included (heartbeat_monitor.py:305).
StopReachesAll == (<>[]raised) => <>[](Running = {})
=============================================================================
