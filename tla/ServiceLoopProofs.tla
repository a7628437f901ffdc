-------------------------- MODULE ServiceLoopProofs --------------------------
(***************************************************************************)
(* Proofs about ServiceLoop, for any callers and threads: its type         *)
(* invariant, and that calls in order never have two loops running.        *)
(***************************************************************************)
EXTENDS ServiceLoop, TLAPS

OneCall ==
    \A c, d \in Callers : caller[c] # "idle" /\ caller[d] # "idle" => c = d

KnownLoop == \A m \in Running : m = handle

\* Between its decision and its assignment a call finds no loop running.
NothingRuns == \A c \in Callers : caller[c] \in {"create", "forget"} => Running = {}

LoopInv ==
    /\ LoopTypeOK
    /\ ~gaveUp /\ ~overlapped => OneCall /\ KnownLoop /\ NothingRuns

-----------------------------------------------------------------------------

\* No call, no turn of the loop and no restart leaves the types of the module.
LEMMA LoopTypes == LoopTypeOK /\ [LoopNext]_loopVars => LoopTypeOK'
<1> SUFFICES ASSUME LoopTypeOK, [LoopNext]_loopVars PROVE LoopTypeOK'
    OBVIOUS
<1>1. ASSUME NEW c \in Callers, Call(c) PROVE LoopTypeOK'
    <2>1. CASE Start(c) \/ Stop(c)
        BY <2>1 DEF Start, Stop, Enters, Goes, LoopTypeOK, Steps
    <2>2. CASE Create(c)
        BY <2>2 DEF Create, Goes, LoopTypeOK, Steps
    <2>3. CASE Launch(c)
        BY <2>3 DEF Launch, Goes, LoopTypeOK, Steps
    <2>4. CASE AskForThread(c) \/ Joins(c) \/ JoinTimesOut(c) \/ Forget(c)
        BY <2>4 DEF AskForThread, Joins, JoinTimesOut, Forget, Goes, LoopTypeOK, Steps
    <2> QED
        BY <1>1, <2>1, <2>2, <2>3, <2>4 DEF Call
<1>2. ASSUME NEW m \in Threads, Test(m) \/ EndCycle(m) \/ CycleRaises(m) \/ WaitEnds(m)
      PROVE  LoopTypeOK'
    BY <1>2 DEF Test, EndCycle, CycleRaises, WaitEnds, LoopTypeOK
<1>3. CASE Reset
    BY <1>3 DEF Reset, LoopTypeOK, Steps
<1>4. CASE UNCHANGED loopVars
    BY <1>4 DEF loopVars, LoopTypeOK
<1> QED
    BY <1>1, <1>2, <1>3, <1>4 DEF LoopNext

\* A turn of a loop starts no loop.
LEMMA TurnsStartNothing ==
    ASSUME LoopTypeOK, NEW m \in Threads, Test(m) \/ EndCycle(m) \/ CycleRaises(m) \/ WaitEnds(m)
    PROVE  Running' \subseteq Running
BY DEF Test, EndCycle, CycleRaises, WaitEnds, Running, LoopTypeOK

-----------------------------------------------------------------------------

LEMMA InvInit == LoopInit => LoopInv
BY DEF LoopInit, LoopInv, LoopTypeOK, OneCall, KnownLoop, NothingRuns, Running, Steps

\* A call that begins while no other is in progress.
LEMMA InvEnter ==
    ASSUME LoopInv, NEW c \in Callers, Start(c) \/ Stop(c),
           ~gaveUp', ~overlapped'
    PROVE  (OneCall /\ KnownLoop /\ NothingRuns)'
<1>1. OneCall /\ KnownLoop /\ NothingRuns
    BY DEF LoopInv, Start, Stop, Enters
<1>2. \A d \in Callers : caller[d] = "idle"
    BY DEF Start, Stop, Enters
<1>3. Running' = Running /\ handle' = handle
    BY DEF Start, Stop, Running
<1>4. \A d \in Callers : d # c => caller'[d] = "idle"
    BY <1>2 DEF Start, Stop, Goes, LoopInv, LoopTypeOK
<1>5. caller'[c] \in {"create", "forget"} => Running = {}
    <2>1. CASE Start(c)
        BY <2>1, <1>1 DEF Start, KnownLoop
    <2>2. CASE Stop(c)
        BY <2>2 DEF Stop, Goes, LoopInv, LoopTypeOK
    <2> QED
        BY <2>1, <2>2
<1> QED
    BY <1>1, <1>3, <1>4, <1>5 DEF OneCall, KnownLoop, NothingRuns

\* The later steps of a call.
LEMMA InvGoOn ==
    ASSUME LoopInv, NEW c \in Callers,
           \/ Create(c) \/ Launch(c)
           \/ AskForThread(c) \/ Joins(c) \/ JoinTimesOut(c) \/ Forget(c),
           ~gaveUp', ~overlapped'
    PROVE  (OneCall /\ KnownLoop /\ NothingRuns)'
<1>1. OneCall /\ KnownLoop /\ NothingRuns
    BY DEF LoopInv, Create, Launch, AskForThread, Joins, JoinTimesOut, Forget
<1>2. LoopTypeOK
    BY DEF LoopInv
<1>3. \A d \in Callers : d # c => caller[d] = "idle" /\ caller'[d] = "idle"
    BY <1>1, <1>2 DEF OneCall, LoopTypeOK, Create, Launch, AskForThread, Joins,
           JoinTimesOut, Forget, Goes
<1>4. OneCall'
    BY <1>3 DEF OneCall
<1>5. CASE Create(c)
    <2>1. Running = {}
        BY <1>1, <1>5 DEF Create, NothingRuns
    <2>2. Running' = {}
        BY <1>2, <1>5, <2>1 DEF Create, Running, LoopTypeOK
    <2> QED
        BY <1>4, <2>2 DEF KnownLoop, NothingRuns
<1>6. CASE Launch(c)
    <2>1. handle' = handle /\ caller'[c] = "idle"
        BY <1>2, <1>6 DEF Launch, Goes, LoopTypeOK
    <2>2. Running' \subseteq Running \cup {handle}
        BY <1>2, <1>6 DEF Launch, Running, LoopTypeOK
    <2> QED
        BY <1>1, <1>3, <1>4, <2>1, <2>2 DEF KnownLoop, NothingRuns
<1>7. CASE Joins(c)
    <2>1. Running = {}
        BY <1>1, <1>7 DEF Joins, KnownLoop
    <2>2. Running' = {}
        BY <1>7, <2>1 DEF Joins, Running
    <2> QED
        BY <1>4, <2>2 DEF KnownLoop, NothingRuns
<1>8. CASE JoinTimesOut(c)
    BY <1>8 DEF JoinTimesOut
<1>9. CASE Forget(c)
    <2>1. Running = {}
        BY <1>1, <1>9 DEF Forget, NothingRuns
    <2>2. Running' = {}
        BY <1>9, <2>1 DEF Forget, Running
    <2> QED
        BY <1>4, <2>2 DEF KnownLoop, NothingRuns
<1>10. CASE AskForThread(c)
    <2>1. caller'[c] = IF handle = NoThread THEN "forget" ELSE "join"
        BY <1>2, <1>10 DEF AskForThread, Goes, LoopTypeOK
    <2>2. handle = NoThread => Running = {}
        BY <1>1, LoopConstantsOK DEF KnownLoop, Running
    <2>3. Running' = Running /\ handle' = handle
        BY <1>10 DEF AskForThread, Running
    <2> QED
        BY <1>1, <1>3, <1>4, <2>1, <2>2, <2>3 DEF KnownLoop, NothingRuns
<1> QED
    BY <1>5, <1>6, <1>7, <1>8, <1>9, <1>10

LEMMA InvNext == LoopInv /\ [LoopNext]_loopVars => LoopInv'
<1> SUFFICES ASSUME LoopInv, [LoopNext]_loopVars PROVE LoopInv'
    OBVIOUS
<1>1. LoopTypeOK'
    BY LoopTypes DEF LoopInv
<1> SUFFICES ASSUME ~gaveUp', ~overlapped'
             PROVE  (OneCall /\ KnownLoop /\ NothingRuns)'
    BY <1>1 DEF LoopInv
<1>2. ASSUME NEW c \in Callers, Call(c)
      PROVE  (OneCall /\ KnownLoop /\ NothingRuns)'
    <2>1. CASE Start(c) \/ Stop(c)
        BY <2>1, InvEnter
    <2>2. CASE \/ Create(c) \/ Launch(c)
               \/ AskForThread(c) \/ Joins(c) \/ JoinTimesOut(c) \/ Forget(c)
        BY <2>2, InvGoOn
    <2> QED
        BY <1>2, <2>1, <2>2 DEF Call
<1>3. ASSUME NEW m \in Threads, Test(m) \/ EndCycle(m) \/ CycleRaises(m) \/ WaitEnds(m)
      PROVE  (OneCall /\ KnownLoop /\ NothingRuns)'
    <2>1. Running' \subseteq Running
        BY <1>3, TurnsStartNothing DEF LoopInv
    <2>2. UNCHANGED <<handle, caller, gaveUp, overlapped>>
        BY <1>3 DEF Test, EndCycle, CycleRaises, WaitEnds
    <2>3. OneCall /\ KnownLoop /\ NothingRuns
        BY <2>2 DEF LoopInv
    <2> QED
        BY <2>1, <2>2, <2>3 DEF OneCall, KnownLoop, NothingRuns
<1>4. CASE Reset
    BY <1>4 DEF Reset, OneCall, KnownLoop, NothingRuns, Running
<1>5. CASE UNCHANGED loopVars
    BY <1>5 DEF loopVars, LoopInv, OneCall, KnownLoop, NothingRuns, Running
<1> QED
    BY <1>2, <1>3, <1>4, <1>5 DEF LoopNext

-----------------------------------------------------------------------------

\* The module's state stays within its types (every step of start, stop and the
\* loop, reconciler.py:244-317).
THEOREM LoopTypeCorrect == LoopSpec => []LoopTypeOK
<1>1. LoopInit => LoopTypeOK
    BY DEF LoopInit, LoopTypeOK, Steps
<1> QED
    BY <1>1, LoopTypes, PTL DEF LoopSpec

\* Calls made one after the other, none of which gave up on a thread, never have
\* two loops running (heartbeat_monitor.py:76).
THEOREM CallsInOrderRunOneLoop == LoopSpec => []OneLoopInOrder
<1>1. LoopInv => OneLoopInOrder
    BY DEF LoopInv, KnownLoop, OneLoopInOrder
<1> QED
    BY <1>1, InvInit, InvNext, PTL DEF LoopSpec
=============================================================================
