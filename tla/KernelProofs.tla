----------------------------- MODULE KernelProofs -----------------------------
(***************************************************************************)
(* Proofs about Kernel, for any callers, projects, goals and limits: its   *)
(* types, that it implements TaskLife, that no two verdicts on a task      *)
(* contradict each other, that the lesson comes before the verdict, that   *)
(* no caller leaves work behind, and that the summaries add up.            *)
(***************************************************************************)
EXTENDS Kernel, LeastNumber, TLAPS

CallerRecords ==
    [phase : Phases, step : 1..(Steps + 1), task : Tasks \cup {NoTask},
     output : Outputs, verdict : {"none", "completed", "rejected", "raised"},
     tried : 0..MaxIterations, completed : Nat, rejected : Nat]

\* The phases in which a caller has a task in hand
Dispatching == {"choose", "admit_work", "store_result", "store_failure",
                "admit_review", "learn", "complete", "reject", "report"}

\* A task whose planning is over
Planned(t) == table[t].status \notin {"absent", "pending"}

Lesson(t) == t \in learned \cup unlearned

(***************************************************************************)
(* The inductive invariant.  Rows:                                         *)
(***************************************************************************)
Recorded ==
    \A t \in Tasks : ~HasStatus(t, "absent") => \E i \in 1..Len(created) : created[i] = t

JudgedRight ==
    \A t \in Tasks :
        /\ HasStatus(t, "review_pending") => table[t].output = "work" /\ Outcome[t] # "empty"
        /\ HasStatus(t, "completed") => Outcome[t] = "approvable" /\ Lesson(t)
        /\ HasStatus(t, "rejected") => Outcome[t] = "rejectable"

RowInv ==
    /\ table \in [Tasks -> [status : Statuses, output : Outputs]]
    /\ created \in Seq(Tasks)
    /\ Recorded
    /\ JudgedRight

(***************************************************************************)
(* A caller c in state r: its own tasks are planned by nobody else, the    *)
(* task it has in hand was planned, and it knows what the outcome is.      *)
(***************************************************************************)
Planning(c, r) ==
    /\ r.phase \in {"create", "activate"} => r.step <= Steps
    /\ r.phase = "start" => r.step = 1 /\ HasStatus(Root(c), "absent")
    /\ r.phase \in {"create", "activate", "plan"} => HasStatus(Root(c), "pending")
    /\ r.phase \in {"start", "create"} => \A k \in r.step..Steps : HasStatus(<<c, k>>, "absent")
    /\ r.phase = "activate" =>
          /\ HasStatus(<<c, r.step>>, "pending")
          /\ \A k \in (r.step + 1)..Steps : HasStatus(<<c, k>>, "absent")

InHand(r) ==
    /\ r.phase \in Dispatching => r.task \in Tasks
    /\ r.phase \in Dispatching \cup {"second"} => r.task = NoTask \/ Planned(r.task)
    /\ r.phase = "store_result" => Outcome[r.task] # "empty"
    /\ r.phase = "store_failure" => Outcome[r.task] = "empty"
    /\ r.phase \in {"learn", "complete"} => Outcome[r.task] = "approvable"
    /\ r.phase = "complete" => Lesson(r.task)
    /\ r.phase = "reject" => Outcome[r.task] = "rejectable"

CallerOK(c, r) ==
    /\ r \in CallerRecords
    /\ r.phase \notin Ended => r.tried < MaxIterations
    /\ Planning(c, r)
    /\ InHand(r)

OthersTyped ==
    /\ failNotes \in [Tasks -> Nat]
    /\ learned \in SUBSET Tasks
    /\ unlearned \in SUBSET Tasks
    /\ nodeUp \in BOOLEAN
    /\ faults \in 0..MaxFaults

PipeInv ==
    /\ RowInv
    /\ OthersTyped
    /\ caller = [c \in Callers |-> caller[c]]
    /\ \A c \in Callers : CallerOK(c, caller[c])

-----------------------------------------------------------------------------
(* Selection *)

LEMMA TasksAre ==
    ASSUME NEW c \in Callers, NEW k \in 0..Steps PROVE <<c, k>> \in Tasks
BY DEF Tasks

LEMMA StepsAre == Steps \in 1..10 /\ Steps \in Nat
BY ConstantsOK

LEMMA PriorityTyped ==
    ASSUME NEW t \in Tasks PROVE Priority(t) \in 1..10
<1>1. PICK c \in Callers, k \in 0..Steps : t = <<c, k>>
    BY DEF Tasks
<1>2. k = 0 \/ k \in 1..10
    BY StepsAre
<1> QED
    BY <1>1, <1>2, ConstantsOK DEF Priority

LEMMA BornAt ==
    ASSUME RowInv, NEW t \in Tasks, ~HasStatus(t, "absent")
    PROVE  Born(t) \in 1..Len(created) /\ created[Born(t)] = t
<1>1. DOMAIN created = 1..Len(created)
    BY DEF RowInv
<1> QED
    BY <1>1 DEF RowInv, Recorded, Born

\* Among tasks that exist there is one ahead of all others: of the highest
\* priority, the first born.
LEMMA ForemostIn ==
    ASSUME RowInv, NEW S \in SUBSET Tasks, S # {},
           \A t \in S : ~HasStatus(t, "absent")
    PROVE  Foremost(S) \in S
<1> DEFINE Ranks == {10 - Priority(t) : t \in S}
<1>1. Ranks \in SUBSET Nat /\ Ranks # {}
    BY PriorityTyped
<1>2. PICK x \in Ranks : \A y \in Ranks : x <= y
    BY <1>1, LeastNatural
<1> DEFINE High == {t \in S : 10 - Priority(t) = x}
           Births == {Born(t) : t \in High}
<1>3. Births \in SUBSET Nat /\ Births # {}
    BY <1>2, BornAt DEF RowInv
<1>4. PICK b \in Births : \A y \in Births : b <= y
    BY <1>3, LeastNatural
<1>5. PICK t \in High : Born(t) = b
    BY <1>4
<1>6. ASSUME NEW u \in S \ {t} PROVE Ahead(t, u)
    <2>1. Priority(t) \in 1..10 /\ Priority(u) \in 1..10
        BY PriorityTyped
    <2>2. 10 - Priority(t) <= 10 - Priority(u)
        BY <1>2, <1>5
    <2>3. Priority(t) >= Priority(u)
        BY <2>1, <2>2
    <2>4. CASE Priority(t) = Priority(u)
        <3>1. u \in High
            BY <1>5, <2>4
        <3>2. Born(t) <= Born(u)
            BY <1>4, <1>5, <3>1
        <3>3. Born(t) # Born(u) /\ Born(t) \in Nat /\ Born(u) \in Nat
            BY BornAt DEF RowInv
        <3> QED
            BY <2>4, <3>2, <3>3 DEF Ahead
    <2> QED
        BY <2>1, <2>3, <2>4 DEF Ahead
<1> QED
    BY <1>5, <1>6 DEF Foremost

LEMMA ListedPlanned ==
    ASSUME NEW c \in Callers, NEW s \in {"planned", "review_pending"}
    PROVE  Listed(c, s) \in SUBSET Tasks /\ \A t \in Listed(c, s) : Planned(t)
BY DEF Listed, Planned

-----------------------------------------------------------------------------
(* What a step may do to the tasks of the callers that do not take it *)

KeepsOthers(c) ==
    \A t \in Tasks :
        /\ Planned(t) => Planned(t)'
        /\ t[1] # c => /\ HasStatus(t, "absent") => HasStatus(t, "absent")'
                       /\ HasStatus(t, "pending") => HasStatus(t, "pending")'
        /\ Lesson(t) => Lesson(t)'

LEMMA OthersStay ==
    ASSUME NEW c \in Callers, NEW d \in Callers, d # c, NEW r,
           CallerOK(d, r), KeepsOthers(c)
    PROVE  CallerOK(d, r)'
<1>1. r \in CallerRecords /\ (r.phase \notin Ended => r.tried < MaxIterations)
    BY DEF CallerOK
<1>2. r.step \in Nat /\ r.phase \in Phases /\ r.task \in Tasks \cup {NoTask}
    BY <1>1, StepsAre DEF CallerRecords
<1>3. ASSUME NEW k \in 0..Steps
      PROVE  /\ HasStatus(<<d, k>>, "absent") => HasStatus(<<d, k>>, "absent")'
             /\ HasStatus(<<d, k>>, "pending") => HasStatus(<<d, k>>, "pending")'
    <2>1. <<d, k>> \in Tasks /\ <<d, k>>[1] # c
        BY TasksAre
    <2> QED
        BY <2>1 DEF KeepsOthers
<1>4. Planning(d, r)'
    <2>1. Planning(d, r)
        BY DEF CallerOK
    <2>2. r.phase \in {"start", "create", "activate", "plan"} => 0 \in 0..Steps
        BY StepsAre
    <2>3. r.step \in 1..(Steps + 1)
        BY <1>1 DEF CallerRecords
    <2>4. \A k \in r.step..Steps : k \in 0..Steps
        BY <2>3, StepsAre
    <2>5. \A k \in (r.step + 1)..Steps : k \in 0..Steps
        BY <2>3, StepsAre
    <2>6. r.step <= Steps => r.step \in 0..Steps
        BY <2>3, StepsAre
    <2> HIDE DEF HasStatus
    <2> QED
        BY <1>3, <2>1, <2>2, <2>4, <2>5, <2>6 DEF Planning, Root
<1>5. InHand(r)'
    <2>1. InHand(r)
        BY DEF CallerOK
    <2>2. r.task \in Tasks => (Planned(r.task) => Planned(r.task)')
                              /\ (Lesson(r.task) => Lesson(r.task)')
        BY DEF KeepsOthers
    <2>3. r.phase = "complete" => r.task \in Tasks
        BY <2>1 DEF InHand, Dispatching
    <2> HIDE DEF Planned, Lesson
    <2> QED
        BY <1>2, <2>1, <2>2, <2>3 DEF InHand
<1> QED
    BY <1>1, <1>4, <1>5 DEF CallerOK

LEMMA StepKeeps ==
    ASSUME PipeInv, NEW c \in Callers, NEW r, Becomes(c, r), KeepsOthers(c),
           CallerOK(c, r)', RowInv', OthersTyped'
    PROVE  PipeInv'
<1>1. caller' = [d \in Callers |-> IF d = c THEN r ELSE caller[d]]
    BY DEF PipeInv, Becomes
<1>2. ASSUME NEW d \in Callers PROVE CallerOK(d, caller[d])'
    <2>1. CASE d = c
        BY <1>1, <2>1
    <2>2. CASE d # c
        <3>1. PICK s : s = caller[d]
            OBVIOUS
        <3>2. CallerOK(d, s)
            BY <3>1 DEF PipeInv
        <3>3. CallerOK(d, s)'
            BY <2>2, <3>2, OthersStay
        <3>4. caller'[d] = s
            BY <1>1, <2>2, <3>1
        <3> QED
            BY <3>3, <3>4
    <2> QED
        BY <2>1, <2>2
<1>3. caller' = [d \in Callers |-> caller'[d]]
    BY <1>1
<1> QED
    BY <1>2, <1>3 DEF PipeInv

Still == UNCHANGED <<table, created, learned, unlearned>>

LEMMA StillRows ==
    ASSUME RowInv, Still PROVE RowInv'
BY DEF RowInv, Still, Recorded, JudgedRight, HasStatus, Lesson

\* A step that writes nothing but where its caller is.
LEMMA QuietStep ==
    ASSUME PipeInv, NEW c \in Callers, NEW r, Becomes(c, r), CallerOK(c, r),
           Still, OthersTyped'
    PROVE  PipeInv'
<1>1. KeepsOthers(c)
    BY DEF KeepsOthers, Still, Planned, HasStatus, Lesson
<1>2. CallerOK(c, r)'
    BY DEF CallerOK, Planning, InHand, Still, Planned, HasStatus, Lesson
<1>3. RowInv'
    BY StillRows DEF PipeInv
<1> QED
    BY <1>1, <1>2, <1>3, StepKeeps

LEMMA AppendKeeps ==
    ASSUME NEW q \in Seq(Tasks), NEW t \in Tasks
    PROVE  /\ Append(q, t) \in Seq(Tasks)
           /\ Len(q) + 1 \in 1..Len(Append(q, t)) /\ Append(q, t)[Len(q) + 1] = t
           /\ \A i \in 1..Len(q) : i \in 1..Len(Append(q, t)) /\ Append(q, t)[i] = q[i]
OBVIOUS

LEMMA WriteRow ==
    ASSUME RowInv, NEW t \in Tasks, NEW s \in Statuses \ {"absent"},
           NEW o \in Outputs, Store(t, s, o), UNCHANGED <<learned, unlearned>>,
           \/ UNCHANGED created /\ ~HasStatus(t, "absent")
           \/ created' = Append(created, t),
           s = "review_pending" => o = "work" /\ Outcome[t] # "empty",
           s = "completed" => Outcome[t] = "approvable" /\ Lesson(t),
           s = "rejected" => Outcome[t] = "rejectable"
    PROVE  RowInv' /\ table' = [table EXCEPT ![t] = Row(s, o)]
<1>1. table' = [table EXCEPT ![t] = Row(s, o)]
    BY DEF Store
<1>2. Row(s, o) \in [status : Statuses, output : Outputs]
    BY DEF Row
<1>3. table' \in [Tasks -> [status : Statuses, output : Outputs]]
    BY <1>1, <1>2 DEF RowInv
<1>4. created' \in Seq(Tasks)
    BY AppendKeeps DEF RowInv
<1>5. Recorded'
    <2> SUFFICES ASSUME NEW u \in Tasks, ~HasStatus(u, "absent")'
                 PROVE  \E i \in 1..Len(created') : created'[i] = u
        BY DEF Recorded
    <2>1. u = t \/ ~HasStatus(u, "absent")
        BY <1>1 DEF RowInv, HasStatus
    <2>2. CASE ~HasStatus(u, "absent")
        <3>1. PICK i \in 1..Len(created) : created[i] = u
            BY <2>2 DEF RowInv, Recorded
        <3>2. i \in 1..Len(created') /\ created'[i] = u
            <4>1. CASE created' = created
                BY <3>1, <4>1
            <4>2. CASE created' = Append(created, t)
                <5>1. created \in Seq(Tasks)
                    BY DEF RowInv
                <5>2. i \in 1..Len(Append(created, t)) /\ Append(created, t)[i] = created[i]
                    BY <5>1, AppendKeeps
                <5> QED
                    BY <3>1, <4>2, <5>2
            <4> QED
                BY <4>1, <4>2
        <3> QED
            BY <3>2
    <2>3. CASE u = t /\ created' = Append(created, t)
        <3>1. Len(created) + 1 \in 1..Len(created') /\ created'[Len(created) + 1] = u
            BY <2>3, AppendKeeps DEF RowInv
        <3> QED
            BY <3>1
    <2> QED
        BY <2>1, <2>2, <2>3
<1>6. JudgedRight'
    <2> SUFFICES ASSUME NEW u \in Tasks
                 PROVE (/\ HasStatus(u, "review_pending") =>
                              table[u].output = "work" /\ Outcome[u] # "empty"
                        /\ HasStatus(u, "completed") => Outcome[u] = "approvable" /\ Lesson(u)
                        /\ HasStatus(u, "rejected") => Outcome[u] = "rejectable")'
        BY DEF JudgedRight
    <2>1. CASE u = t
        <3>1. table'[t] = Row(s, o)
            BY <1>1 DEF RowInv
        <3> QED
            BY <2>1, <3>1 DEF Row, HasStatus, Lesson
    <2>2. CASE u # t
        <3>1. table'[u] = table[u]
            BY <1>1, <2>2 DEF RowInv
        <3> QED
            BY <3>1 DEF RowInv, JudgedRight, HasStatus, Lesson
    <2> QED
        BY <2>1, <2>2
<1> QED
    BY <1>1, <1>3, <1>4, <1>5, <1>6 DEF RowInv

LEMMA WriteKeeps ==
    ASSUME RowInv, NEW c, NEW t \in Tasks, NEW s, NEW o,
           Store(t, s, o), UNCHANGED <<learned, unlearned>>,
           \/ Planned(t) /\ s \notin {"absent", "pending"}
           \/ t[1] = c /\ ~Planned(t)
    PROVE  KeepsOthers(c)
<1> SUFFICES ASSUME NEW u \in Tasks
             PROVE  /\ Planned(u) => Planned(u)'
                    /\ u[1] # c => /\ HasStatus(u, "absent") => HasStatus(u, "absent")'
                                   /\ HasStatus(u, "pending") => HasStatus(u, "pending")'
                    /\ Lesson(u) => Lesson(u)'
    BY DEF KeepsOthers
<1>1. CASE u = t
    <2>1. table'[t] = Row(s, o)
        BY DEF RowInv, Store
    <2> QED
        BY <1>1, <2>1 DEF Row, Planned, HasStatus, Lesson
<1>2. CASE u # t
    <2>1. table'[u] = table[u]
        BY <1>2 DEF RowInv, Store
    <2> QED
        BY <2>1 DEF Planned, HasStatus, Lesson
<1> QED
    BY <1>1, <1>2

LEMMA ForemostOf ==
    ASSUME RowInv, NEW S \in SUBSET Tasks, \A t \in S : Planned(t)
    PROVE  Foremost(S) = NoTask \/ (Foremost(S) \in Tasks /\ Planned(Foremost(S)))
<1>1. CASE S = {}
    BY <1>1 DEF Foremost
<1>2. CASE S # {}
    <2>1. \A t \in S : ~HasStatus(t, "absent")
        BY DEF Planned, HasStatus
    <2>2. Foremost(S) \in S
        BY <1>2, <2>1, ForemostIn
    <2> QED
        BY <2>2
<1> QED
    BY <1>1, <1>2

LEMMA CallerIs ==
    ASSUME PipeInv, NEW c \in Callers PROVE CallerOK(c, caller[c])
BY DEF PipeInv

-----------------------------------------------------------------------------
(* Where a caller goes next *)

JudgeOf(m, p, o) == [m EXCEPT !.output = o, !.phase = p]

LEMMA Judging ==
    ASSUME NEW m \in CallerRecords, NEW p \in Phases, NEW o \in Outputs,
           NEW r, r = JudgeOf(m, p, o)
    PROVE  r \in CallerRecords /\ r.phase = p /\ r.task = m.task /\ r.tried = m.tried
<1> HIDE DEF Phases, Outputs
<1> QED
    BY DEF CallerRecords, JudgeOf

ReportOf(m, v) == [m EXCEPT !.phase = "report", !.verdict = v]

LEMMA Reporting ==
    ASSUME NEW m \in CallerRecords, NEW v \in {"none", "completed", "rejected", "raised"},
           NEW r, r = ReportOf(m, v)
    PROVE  r \in CallerRecords /\ r.phase = "report" /\ r.task = m.task /\ r.tried = m.tried
<1>1. "report" \in Phases
    BY DEF Phases
<1> HIDE DEF Phases, Outputs
<1> QED
    BY <1>1 DEF CallerRecords, ReportOf

CountOf(m, k, x, y, p) ==
    [m EXCEPT !.tried = k, !.completed = x, !.rejected = y, !.verdict = "none",
              !.output = "none", !.task = NoTask, !.phase = p]

LEMMA Counting ==
    ASSUME NEW m \in CallerRecords, NEW p \in Phases, NEW x \in Nat, NEW y \in Nat,
           NEW k \in 0..MaxIterations
    PROVE  /\ CountOf(m, k, x, y, p) \in CallerRecords
           /\ CountOf(m, k, x, y, p).phase = p
           /\ CountOf(m, k, x, y, p).task = NoTask
           /\ CountOf(m, k, x, y, p).tried = k
<1>1. "none" \in Outputs
    BY DEF Outputs
<1> HIDE DEF Phases, Outputs
<1> QED
    BY <1>1 DEF CallerRecords, CountOf

-----------------------------------------------------------------------------
(* The quiet steps *)

LEMMA FirstSearchKeeps ==
    ASSUME PipeInv, NEW c \in Callers, FirstSearch(c) PROVE PipeInv'
<1> PICK m : m = caller[c]
    OBVIOUS
<1> PICK t : t = Foremost(Listed(c, FirstQuery))
    OBVIOUS
<1> DEFINE r == [m EXCEPT !.phase = "second", !.task = t]
<1>1. CallerOK(c, m) /\ m.phase = "first"
    BY CallerIs DEF FirstSearch, At
<1>2. t = NoTask \/ (t \in Tasks /\ Planned(t))
    BY ConstantsOK, ListedPlanned, ForemostOf DEF PipeInv
<1>3. Becomes(c, r) /\ Still /\ OthersTyped'
    BY DEF FirstSearch, dbVars, Still, PipeInv, OthersTyped
<1>4. r \in CallerRecords /\ r.phase = "second" /\ r.task = t /\ r.tried = m.tried
    BY <1>1, <1>2 DEF CallerOK, CallerRecords, Phases
<1>5. CallerOK(c, r)
    BY <1>1, <1>2, <1>4 DEF CallerOK, Planning, InHand, Dispatching, Ended
<1> HIDE DEF r
<1> QED
    BY <1>3, <1>5, QuietStep

LEMMA SecondSearchKeeps ==
    ASSUME PipeInv, NEW c \in Callers, SecondSearch(c) PROVE PipeInv'
<1> PICK m : m = caller[c]
    OBVIOUS
<1> DEFINE S == ({m.task} \ {NoTask}) \cup Listed(c, SecondQuery)
<1> PICK t : t = Foremost(S)
    OBVIOUS
<1> PICK p : p = IF t = NoTask THEN "idle"
                 ELSE Route(IF t = m.task THEN FirstQuery ELSE SecondQuery)
    OBVIOUS
<1> DEFINE r == [m EXCEPT !.task = t, !.phase = p]
<1>1. CallerOK(c, m) /\ m.phase = "second"
    BY CallerIs DEF SecondSearch, At
<1>2. t = NoTask \/ (t \in Tasks /\ Planned(t))
    <2>1. SecondQuery \in {"planned", "review_pending"}
        BY DEF SecondQuery
    <2>2. m.task \in Tasks \cup {NoTask} /\ (m.task = NoTask \/ Planned(m.task))
        BY <1>1 DEF CallerOK, CallerRecords, InHand
    <2>3. S \in SUBSET Tasks /\ \A u \in S : Planned(u)
        BY <2>1, <2>2, ListedPlanned
    <2> QED
        BY <2>3, ForemostOf DEF PipeInv
<1>3. Becomes(c, r) /\ Still /\ OthersTyped'
    BY DEF SecondSearch, Task, dbVars, Still, PipeInv, OthersTyped
<1>4. p \in {"idle", "choose", "admit_review"} /\ (p # "idle" => t # NoTask)
    BY DEF Route
<1>5. r \in CallerRecords /\ r.phase = p /\ r.task = t /\ r.tried = m.tried
    <2>1. m \in CallerRecords /\ p \in Phases /\ t \in Tasks \cup {NoTask}
        BY <1>1, <1>2, <1>4 DEF CallerOK, Phases, Ended
    <2> QED
        BY <2>1 DEF CallerRecords
<1>6. CallerOK(c, r)
    BY <1>1, <1>2, <1>4, <1>5 DEF CallerOK, Planning, InHand, Dispatching, Ended
<1> HIDE DEF r
<1> QED
    BY <1>3, <1>6, QuietStep

\* Along the way from the choice to the report the task in hand stays.
LEMMA GoKeeps ==
    ASSUME PipeInv, NEW c \in Callers, caller[c].phase \in Dispatching,
           NEW p \in {"no_node", "admit_work", "store_result", "store_failure"},
           p = "store_result" => Outcome[Task(c)] # "empty",
           p = "store_failure" => Outcome[Task(c)] = "empty",
           Go(c, p), UNCHANGED <<dbVars, nodeUp, faults, unlearned>>
    PROVE  PipeInv'
<1> PICK m : m = caller[c]
    OBVIOUS
<1> DEFINE r == [m EXCEPT !.phase = p]
<1>1. CallerOK(c, m) /\ m.phase \in Dispatching /\ Task(c) = m.task
    BY CallerIs DEF Task
<1>2. Becomes(c, r) /\ Still /\ OthersTyped'
    BY DEF Go, dbVars, Still, PipeInv, OthersTyped
<1>3. r \in CallerRecords /\ r.phase = p /\ r.task = m.task /\ r.tried = m.tried
    BY <1>1 DEF CallerOK, CallerRecords, Phases, Ended
<1>4. CallerOK(c, r)
    BY <1>1, <1>3 DEF CallerOK, Planning, InHand, Dispatching, Ended
<1> HIDE DEF r
<1> QED
    BY <1>2, <1>4, QuietStep

LEMMA ReportOK ==
    ASSUME NEW c \in Callers, NEW m, CallerOK(c, m), m.phase \in Dispatching,
           NEW v \in {"none", "completed", "rejected", "raised"},
           NEW r, r = ReportOf(m, v)
    PROVE  CallerOK(c, r)
<1>1. r \in CallerRecords /\ r.phase = "report" /\ r.task = m.task /\ r.tried = m.tried
    BY Reporting DEF CallerOK
<1>2. CallerOK(c, r)
    BY <1>1 DEF CallerOK, Planning, InHand, Dispatching, Ended
<1> QED
    BY <1>2

LEMMA ReportsKeeps ==
    ASSUME PipeInv, NEW c \in Callers, caller[c].phase \in Dispatching,
           NEW v \in {"none", "completed", "rejected", "raised"},
           Reports(c, v), Still, OthersTyped'
    PROVE  PipeInv'
<1> PICK m : m = caller[c]
    OBVIOUS
<1> PICK r : r = ReportOf(m, v)
    OBVIOUS
<1>1. CallerOK(c, r)
    BY CallerIs, ReportOK
<1>2. Becomes(c, r)
    BY DEF Reports, ReportOf
<1> QED
    BY <1>1, <1>2, QuietStep

LEMMA ChooseNodeKeeps ==
    ASSUME PipeInv, NEW c \in Callers, ChooseNode(c) PROVE PipeInv'
<1>1. PICK p \in {"no_node", "admit_work"} : Go(c, p)
    BY DEF ChooseNode
<1>2. caller[c].phase \in Dispatching
    BY DEF ChooseNode, At, Dispatching
<1> QED
    BY <1>1, <1>2, GoKeeps DEF ChooseNode

LEMMA AdmitWorkKeeps ==
    ASSUME PipeInv, NEW c \in Callers, AdmitWork(c) PROVE PipeInv'
<1>1. caller[c].phase \in Dispatching
    BY DEF AdmitWork, At, Dispatching
<1>2. Still /\ OthersTyped'
    BY DEF AdmitWork, dbVars, Still, PipeInv, OthersTyped
<1>3. CASE Reports(c, "none")
    BY <1>1, <1>2, <1>3, ReportsKeeps
<1>4. CASE Go(c, IF Outcome[Task(c)] = "empty" THEN "store_failure" ELSE "store_result")
    <2>1. CASE Outcome[Task(c)] = "empty"
        <3>1. Go(c, "store_failure")
            BY <1>4, <2>1
        <3> QED
            BY <1>1, <2>1, <3>1, GoKeeps DEF AdmitWork
    <2>2. CASE Outcome[Task(c)] # "empty"
        <3>1. Go(c, "store_result")
            BY <1>4, <2>2
        <3> QED
            BY <1>1, <2>2, <3>1, GoKeeps DEF AdmitWork
    <2> QED
        BY <2>1, <2>2
<1> QED
    BY <1>3, <1>4 DEF AdmitWork

LEMMA AdmitReviewKeeps ==
    ASSUME PipeInv, NEW c \in Callers, AdmitReview(c) PROVE PipeInv'
<1> PICK m : m = caller[c]
    OBVIOUS
<1>1. CallerOK(c, m) /\ m.phase = "admit_review" /\ Task(c) = m.task /\ m.task \in Tasks
    BY CallerIs DEF AdmitReview, At, Task, CallerOK, InHand, Dispatching
<1>2. Still /\ OthersTyped'
    BY DEF AdmitReview, dbVars, Still, PipeInv, OthersTyped
<1>3. CASE Reports(c, "none")
    BY <1>1, <1>2, <1>3, ReportsKeeps DEF Dispatching
<1>4. CASE table[m.task].status = "review_pending"
    <2> PICK p : p = IF Evaluate(m.task, table[m.task].output) THEN "learn" ELSE "reject"
        OBVIOUS
    <2> PICK o : o = table[m.task].output
        OBVIOUS
    <2> PICK r : r = JudgeOf(m, p, o)
        OBVIOUS
    <2>1. o = "work" /\ Outcome[m.task] # "empty" /\ Outcome[m.task] \in Outcomes
        BY <1>1, <1>4, ConstantsOK DEF PipeInv, RowInv, JudgedRight, HasStatus
    <2>2. \/ p = "learn" /\ Outcome[m.task] = "approvable"
          \/ p = "reject" /\ Outcome[m.task] = "rejectable"
        BY <2>1 DEF Evaluate, Outcomes
    <2>3. Becomes(c, r)
        BY <1>1, <1>4 DEF AdmitReview, JudgeOf
    <2>4. r \in CallerRecords /\ r.phase = p /\ r.task = m.task /\ r.tried = m.tried
        <3>1. m \in CallerRecords /\ p \in Phases /\ o \in Outputs
            BY <1>1, <2>1, <2>2 DEF CallerOK, Phases, Outputs
        <3> QED
            BY <3>1, Judging
    <2>5. CallerOK(c, r)
        BY <1>1, <2>2, <2>4 DEF CallerOK, Planning, InHand, Dispatching, Ended
    <2> QED
        BY <1>2, <2>3, <2>5, QuietStep
<1> QED
    BY <1>1, <1>3, <1>4 DEF AdmitReview

LEMMA ReportKeeps ==
    ASSUME PipeInv, NEW c \in Callers, Report(c) PROVE PipeInv'
<1> PICK m : m = caller[c]
    OBVIOUS
<1>1. PICK x, y, k, p :
        /\ x = (IF Final(c) = "completed" THEN m.completed + 1 ELSE m.completed)
        /\ y = (IF Final(c) = "rejected" THEN m.rejected + 1 ELSE m.rejected)
        /\ k = m.tried + 1
        /\ p = (IF k = MaxIterations THEN "spent" ELSE "first")
    OBVIOUS
<1>2. CallerOK(c, m) /\ m.phase = "report" /\ m \in CallerRecords
    BY CallerIs DEF Report, At, CallerOK
<1>3. m.tried \in Nat /\ m.tried < MaxIterations /\ MaxIterations \in Nat
    BY <1>2, ConstantsOK DEF CallerOK, CallerRecords, Ended
<1>4. m.completed \in Nat /\ m.rejected \in Nat
    BY <1>2 DEF CallerRecords
<1>5. /\ x \in Nat /\ y \in Nat /\ k \in 0..MaxIterations
      /\ p \in {"spent", "first"} /\ (p # "spent" => k < MaxIterations)
    BY <1>1, <1>3, <1>4
<1>6. PICK r : r = CountOf(m, k, x, y, p)
    OBVIOUS
<1>7. Becomes(c, r) /\ Still /\ OthersTyped'
    BY <1>1, <1>6 DEF Report, CountOf, dbVars, Still, PipeInv, OthersTyped
<1>8. r \in CallerRecords /\ r.phase = p /\ r.task = NoTask /\ r.tried = k
    <2>1. p \in Phases
        BY <1>5 DEF Phases, Ended
    <2> QED
        BY <1>2, <1>5, <1>6, <2>1, Counting
<1>9. CallerOK(c, r)
    BY <1>5, <1>8 DEF CallerOK, Planning, InHand, Dispatching, Ended
<1> QED
    BY <1>7, <1>9, QuietStep

LEMMA AgentRaisesKeeps ==
    ASSUME PipeInv, NEW c \in Callers, AgentRaises(c) PROVE PipeInv'
<1>1. caller[c].phase \in Dispatching
    BY DEF AgentRaises, Dispatching
<1>2. Still /\ OthersTyped'
    BY ConstantsOK DEF AgentRaises, Fault, dbVars, Still, PipeInv, OthersTyped
<1> QED
    BY <1>1, <1>2, ReportsKeeps DEF AgentRaises

LEMMA CallerFailsKeeps ==
    ASSUME PipeInv, NEW c \in Callers, CallerFails(c) PROVE PipeInv'
<1> PICK m : m = caller[c]
    OBVIOUS
<1> DEFINE r == [m EXCEPT !.phase = "error"]
<1>1. CallerOK(c, m)
    BY CallerIs
<1>2. Becomes(c, r) /\ Still /\ OthersTyped'
    BY ConstantsOK DEF CallerFails, Go, Fault, dbVars, Still, PipeInv, OthersTyped
<1>3. r \in CallerRecords /\ r.phase = "error" /\ r.tried = m.tried
    BY <1>1 DEF CallerOK, CallerRecords, Phases, Ended
<1>4. CallerOK(c, r)
    BY <1>3 DEF CallerOK, Planning, InHand, Dispatching, Ended
<1> HIDE DEF r
<1> QED
    BY <1>2, <1>4, QuietStep

-----------------------------------------------------------------------------
(* The planner's steps *)

LEMMA RowsAfter ==
    ASSUME RowInv, NEW t \in Tasks, NEW s, NEW o, Store(t, s, o)
    PROVE  /\ HasStatus(t, s)'
           /\ \A z : \A u \in Tasks \ {t} : HasStatus(u, z) => HasStatus(u, z)'
<1>1. table'[t] = Row(s, o)
    BY DEF RowInv, Store
<1>2. \A u \in Tasks \ {t} : table'[u] = table[u]
    BY DEF RowInv, Store
<1> QED
    BY <1>1, <1>2 DEF HasStatus, Row

NextOf(m) == [m EXCEPT !.step = m.step + 1,
                       !.phase = IF m.step = Steps THEN "plan" ELSE "create"]

LEMMA NextRecord ==
    ASSUME NEW m \in CallerRecords, m.step <= Steps,
           NEW r, r = NextOf(m)
    PROVE  /\ r \in CallerRecords
           /\ r.step = m.step + 1 /\ r.tried = m.tried
           /\ r.phase \in {"plan", "create"}
           /\ r.phase = "create" => r.step <= Steps
<1>1. m.step \in 1..(Steps + 1) /\ m.step + 1 \in 1..(Steps + 1)
    BY StepsAre DEF CallerRecords
<1> PICK p : p = IF m.step = Steps THEN "plan" ELSE "create"
    OBVIOUS
<1> PICK k : k = m.step + 1
    OBVIOUS
<1>2. p \in Phases
    BY DEF Phases
<1>3. r = [m EXCEPT !.step = k, !.phase = p]
    BY DEF NextOf
<1>4. r \in CallerRecords /\ r.step = k /\ r.tried = m.tried /\ r.phase = p
    <2> HIDE DEF Phases
    <2> QED
        BY <1>1, <1>2, <1>3 DEF CallerRecords
<1> QED
    BY <1>1, <1>4, StepsAre

LEMMA SkipsStepKeeps ==
    ASSUME PipeInv, NEW c \in Callers, SkipsStep(c) PROVE PipeInv'
<1> PICK m : m = caller[c]
    OBVIOUS
<1> PICK r : r = NextOf(m)
    OBVIOUS
<1>1. CallerOK(c, m) /\ m.phase \in {"create", "activate"} /\ m \in CallerRecords
    BY CallerIs DEF SkipsStep, CallerOK
<1>2. m.step \in 1..(Steps + 1) /\ m.step <= Steps
    BY <1>1 DEF CallerOK, Planning, CallerRecords
<1>3. Becomes(c, r)
    BY DEF SkipsStep, NextStep, NextOf
<1>4. Still /\ OthersTyped'
    BY ConstantsOK DEF SkipsStep, Fault, dbVars, Still, PipeInv, OthersTyped
<1>5. /\ r \in CallerRecords /\ r.step = m.step + 1 /\ r.tried = m.tried
      /\ r.phase \in {"plan", "create"} /\ (r.phase = "create" => r.step <= Steps)
    BY <1>1, <1>2, NextRecord
<1>6. Planning(c, r)
    <2>1. \A k \in (m.step + 1)..Steps : HasStatus(<<c, k>>, "absent")
        BY <1>1, <1>2, StepsAre DEF CallerOK, Planning
    <2>2. HasStatus(Root(c), "pending")
        BY <1>1 DEF CallerOK, Planning
    <2> QED
        BY <1>5, <2>1, <2>2 DEF Planning
<1>7. CallerOK(c, r)
    BY <1>1, <1>5, <1>6 DEF CallerOK, InHand, Dispatching, Ended
<1> QED
    BY <1>3, <1>4, <1>7, QuietStep

LEMMA CreateRootKeeps ==
    ASSUME PipeInv, NEW c \in Callers, CreateRoot(c) PROVE PipeInv'
<1> PICK m : m = caller[c]
    OBVIOUS
<1> PICK r : r = [m EXCEPT !.phase = "create"]
    OBVIOUS
<1>1. /\ CallerOK(c, m) /\ m.phase = "start" /\ m \in CallerRecords
      /\ m.step = 1 /\ HasStatus(Root(c), "absent")
      /\ \A k \in 1..Steps : HasStatus(<<c, k>>, "absent")
    BY CallerIs DEF CreateRoot, At, CallerOK, Planning
<1>2. Root(c) \in Tasks /\ Root(c)[1] = c
    BY TasksAre, StepsAre DEF Root
<1>3. Becomes(c, r) /\ Store(Root(c), "pending", "none") /\ created' = Append(created, Root(c))
    BY DEF CreateRoot, CreateTask, Go
<1>4. OthersTyped' /\ UNCHANGED <<learned, unlearned>>
    BY DEF CreateRoot, PipeInv, OthersTyped
<1>5. RowInv'
    BY <1>2, <1>3, <1>4, WriteRow DEF PipeInv, Statuses, Outputs
<1>6. KeepsOthers(c)
    <2>1. ~Planned(Root(c))
        BY <1>1 DEF Planned, HasStatus
    <2> QED
        BY <1>2, <1>3, <1>4, <2>1, WriteKeeps DEF PipeInv
<1>7. r \in CallerRecords /\ r.phase = "create" /\ r.step = 1 /\ r.tried = m.tried
    BY <1>1 DEF CallerRecords, Phases
<1>8. Planning(c, r)'
    <2>1. HasStatus(Root(c), "pending")'
        BY <1>2, <1>3, RowsAfter DEF PipeInv
    <2>2. \A k \in 1..Steps : <<c, k>> \in Tasks \ {Root(c)}
        BY TasksAre, StepsAre DEF Root
    <2>3. \A k \in 1..Steps : HasStatus(<<c, k>>, "absent")'
        BY <1>1, <1>2, <1>3, <2>2, RowsAfter DEF PipeInv
    <2> QED
        BY <1>7, <2>1, <2>3, StepsAre DEF Planning
<1>9. CallerOK(c, r)'
    BY <1>1, <1>7, <1>8 DEF CallerOK, InHand, Dispatching, Ended
<1> QED
    BY <1>3, <1>4, <1>5, <1>6, <1>9, StepKeeps

LEMMA CreateSubtaskKeeps ==
    ASSUME PipeInv, NEW c \in Callers, CreateSubtask(c) PROVE PipeInv'
<1> PICK m : m = caller[c]
    OBVIOUS
<1> PICK r : r = [m EXCEPT !.phase = "activate"]
    OBVIOUS
<1> PICK t : t = <<c, m.step>>
    OBVIOUS
<1>1. /\ CallerOK(c, m) /\ m.phase = "create" /\ m \in CallerRecords
      /\ m.step <= Steps /\ HasStatus(Root(c), "pending")
      /\ \A k \in m.step..Steps : HasStatus(<<c, k>>, "absent")
    BY CallerIs DEF CreateSubtask, At, CallerOK, Planning
<1>2. m.step \in 1..Steps
    BY <1>1, StepsAre DEF CallerRecords
<1>3. t \in Tasks /\ t[1] = c /\ HasStatus(t, "absent")
    BY <1>1, <1>2, TasksAre, StepsAre
<1>4. Becomes(c, r) /\ Store(t, "pending", "none") /\ created' = Append(created, t)
    BY DEF CreateSubtask, CreateTask, Subtask, Go
<1>5. OthersTyped' /\ UNCHANGED <<learned, unlearned>>
    BY DEF CreateSubtask, PipeInv, OthersTyped
<1>6. RowInv'
    BY <1>3, <1>4, <1>5, WriteRow DEF PipeInv, Statuses, Outputs
<1>7. KeepsOthers(c)
    <2>1. ~Planned(t)
        BY <1>3 DEF Planned, HasStatus
    <2> QED
        BY <1>3, <1>4, <1>5, <2>1, WriteKeeps DEF PipeInv
<1>8. r \in CallerRecords /\ r.phase = "activate" /\ r.step = m.step /\ r.tried = m.tried
    BY <1>1 DEF CallerRecords, Phases
<1>9. Planning(c, r)'
    <2>1. Root(c) \in Tasks \ {t}
        BY <1>2, TasksAre, StepsAre DEF Root
    <2>2. HasStatus(Root(c), "pending")' /\ HasStatus(t, "pending")'
        BY <1>1, <1>3, <1>4, <2>1, RowsAfter DEF PipeInv
    <2>3. \A k \in (m.step + 1)..Steps : k \in m.step..Steps /\ <<c, k>> \in Tasks \ {t}
        BY <1>2, TasksAre, StepsAre
    <2>4. \A k \in (m.step + 1)..Steps : HasStatus(<<c, k>>, "absent")'
        BY <1>1, <1>3, <1>4, <2>3, RowsAfter DEF PipeInv
    <2> QED
        BY <1>1, <1>8, <2>2, <2>4 DEF Planning
<1>10. CallerOK(c, r)'
    BY <1>1, <1>8, <1>9 DEF CallerOK, InHand, Dispatching, Ended
<1> QED
    BY <1>4, <1>5, <1>6, <1>7, <1>10, StepKeeps

LEMMA ActivateKeeps ==
    ASSUME PipeInv, NEW c \in Callers, Activate(c) PROVE PipeInv'
<1> PICK m : m = caller[c]
    OBVIOUS
<1> PICK r : r = NextOf(m)
    OBVIOUS
<1> PICK t : t = <<c, m.step>>
    OBVIOUS
<1>1. /\ CallerOK(c, m) /\ m.phase = "activate" /\ m \in CallerRecords
      /\ m.step <= Steps /\ HasStatus(Root(c), "pending") /\ HasStatus(t, "pending")
      /\ \A k \in (m.step + 1)..Steps : HasStatus(<<c, k>>, "absent")
    BY CallerIs DEF Activate, At, CallerOK, Planning
<1>2. m.step \in 1..Steps
    BY <1>1, StepsAre DEF CallerRecords
<1>3. t \in Tasks /\ t[1] = c /\ ~HasStatus(t, "absent") /\ ~Planned(t)
    BY <1>1, <1>2, TasksAre, StepsAre DEF HasStatus, Planned
<1>4. Becomes(c, r) /\ Store(t, "planned", "none") /\ UNCHANGED created
    BY DEF Activate, Subtask, NextStep, NextOf
<1>5. OthersTyped' /\ UNCHANGED <<learned, unlearned>>
    BY DEF Activate, PipeInv, OthersTyped
<1>6. RowInv'
    BY <1>3, <1>4, <1>5, WriteRow DEF PipeInv, Statuses, Outputs
<1>7. KeepsOthers(c)
    BY <1>3, <1>4, <1>5, WriteKeeps DEF PipeInv
<1>8. /\ r \in CallerRecords /\ r.step = m.step + 1 /\ r.tried = m.tried
      /\ r.phase \in {"plan", "create"} /\ (r.phase = "create" => r.step <= Steps)
    BY <1>1, NextRecord
<1>9. Planning(c, r)'
    <2>1. Root(c) \in Tasks \ {t}
        BY <1>2, TasksAre, StepsAre DEF Root
    <2>2. HasStatus(Root(c), "pending")'
        BY <1>1, <1>3, <1>4, <2>1, RowsAfter DEF PipeInv
    <2>3. \A k \in (m.step + 1)..Steps : <<c, k>> \in Tasks \ {t}
        BY <1>2, TasksAre, StepsAre
    <2>4. \A k \in (m.step + 1)..Steps : HasStatus(<<c, k>>, "absent")'
        BY <1>1, <1>3, <1>4, <2>3, RowsAfter DEF PipeInv
    <2> QED
        BY <1>8, <2>2, <2>4 DEF Planning
<1>10. CallerOK(c, r)'
    BY <1>1, <1>8, <1>9 DEF CallerOK, InHand, Dispatching, Ended
<1> QED
    BY <1>4, <1>5, <1>6, <1>7, <1>10, StepKeeps

LEMMA PlanRootKeeps ==
    ASSUME PipeInv, NEW c \in Callers, PlanRoot(c) PROVE PipeInv'
<1> PICK m : m = caller[c]
    OBVIOUS
<1> PICK r : r = [m EXCEPT !.phase = "first"]
    OBVIOUS
<1>1. CallerOK(c, m) /\ m.phase = "plan" /\ m \in CallerRecords /\ HasStatus(Root(c), "pending")
    BY CallerIs DEF PlanRoot, At, CallerOK, Planning
<1>2. Root(c) \in Tasks /\ Root(c)[1] = c /\ ~HasStatus(Root(c), "absent") /\ ~Planned(Root(c))
    BY <1>1, TasksAre, StepsAre DEF Root, HasStatus, Planned
<1>3. Becomes(c, r) /\ Store(Root(c), "planned", "words") /\ UNCHANGED created
    BY DEF PlanRoot, Go
<1>4. OthersTyped' /\ UNCHANGED <<learned, unlearned>>
    BY DEF PlanRoot, PipeInv, OthersTyped
<1>5. RowInv'
    BY <1>2, <1>3, <1>4, WriteRow DEF PipeInv, Statuses, Outputs
<1>6. KeepsOthers(c)
    BY <1>2, <1>3, <1>4, WriteKeeps DEF PipeInv
<1>7. r \in CallerRecords /\ r.phase = "first" /\ r.tried = m.tried
    BY <1>1 DEF CallerRecords, Phases
<1>8. CallerOK(c, r)'
    BY <1>1, <1>7 DEF CallerOK, Planning, InHand, Dispatching, Ended
<1> QED
    BY <1>3, <1>4, <1>5, <1>6, <1>8, StepKeeps

-----------------------------------------------------------------------------
(* The agents' steps *)

LEMMA HeldTask ==
    ASSUME PipeInv, NEW c \in Callers, caller[c].phase \in Dispatching
    PROVE  Task(c) \in Tasks /\ Planned(Task(c)) /\ ~HasStatus(Task(c), "absent")
<1>1. Task(c) \in Tasks /\ Planned(Task(c))
    BY CallerIs, ConstantsOK DEF Task, CallerOK, InHand
<1> QED
    BY <1>1 DEF Planned, HasStatus

LEMMA AgentWrites ==
    ASSUME PipeInv, NEW c \in Callers, caller[c].phase \in Dispatching,
           NEW s \in {"review_pending", "failed", "abandoned", "completed", "rejected"},
           NEW o \in Outputs, NEW v \in {"none", "completed", "rejected", "raised"},
           Store(Task(c), s, o), Reports(c, v), OthersTyped',
           UNCHANGED <<created, learned, unlearned>>,
           s = "review_pending" => o = "work" /\ Outcome[Task(c)] # "empty",
           s = "completed" => Outcome[Task(c)] = "approvable" /\ Lesson(Task(c)),
           s = "rejected" => Outcome[Task(c)] = "rejectable"
    PROVE  PipeInv'
<1> PICK m : m = caller[c]
    OBVIOUS
<1> PICK t : t = Task(c)
    OBVIOUS
<1> PICK r : r = ReportOf(m, v)
    OBVIOUS
<1>1. t \in Tasks /\ Planned(t) /\ ~HasStatus(t, "absent") /\ m.task = t
    BY HeldTask DEF Task
<1>2. RowInv'
    BY <1>1, WriteRow DEF PipeInv, Statuses
<1>3. KeepsOthers(c)
    BY <1>1, WriteKeeps DEF PipeInv
<1>4. CallerOK(c, m)
    BY CallerIs
<1>5. Becomes(c, r)
    BY DEF Reports, ReportOf
<1>6. r \in CallerRecords /\ r.phase = "report" /\ r.task = t /\ r.tried = m.tried
    BY <1>1, <1>4, Reporting DEF CallerOK
<1>7. Planned(t)'
    BY <1>1, <1>3 DEF KeepsOthers
<1>8. CallerOK(c, r)'
    BY <1>1, <1>4, <1>6, <1>7 DEF CallerOK, Planning, InHand, Dispatching, Ended
<1> QED
    BY <1>2, <1>3, <1>5, <1>8, StepKeeps

LEMMA StoreResultKeeps ==
    ASSUME PipeInv, NEW c \in Callers, StoreResult(c) PROVE PipeInv'
<1>1. /\ caller[c].phase \in Dispatching
      /\ Outcome[Task(c)] # "empty"
    BY CallerIs DEF StoreResult, At, Dispatching, CallerOK, InHand, Task
<1>2. OthersTyped' /\ UNCHANGED <<created, learned, unlearned>>
    BY ConstantsOK DEF StoreResult, Returns, Fault, PipeInv, OthersTyped
<1>3. PICK v \in {"none", "raised"} : Reports(c, v)
    BY DEF StoreResult, Returns
<1> QED
    BY <1>1, <1>2, <1>3, AgentWrites DEF StoreResult, Outputs

LEMMA StoreFailureKeeps ==
    ASSUME PipeInv, NEW c \in Callers, StoreFailure(c) PROVE PipeInv'
<1> PICK s : s = FailureStatus(Task(c))
    OBVIOUS
<1>1. caller[c].phase \in Dispatching
    BY DEF StoreFailure, At, Dispatching
<1>2. UNCHANGED <<created, learned, unlearned>> /\ Store(Task(c), s, "words")
    BY DEF StoreFailure
<1>3. OthersTyped'
    <2>1. failNotes' \in [Tasks -> Nat]
        BY <1>1, HeldTask DEF StoreFailure, PipeInv, OthersTyped
    <2>2. nodeUp' \in BOOLEAN
        BY DEF StoreFailure, PipeInv, OthersTyped
    <2>3. faults' \in 0..MaxFaults
        BY ConstantsOK DEF StoreFailure, Returns, Fault, PipeInv, OthersTyped
    <2>4. learned' \in SUBSET Tasks /\ unlearned' \in SUBSET Tasks
        BY <1>2 DEF PipeInv, OthersTyped
    <2> QED
        BY <2>1, <2>2, <2>3, <2>4 DEF OthersTyped
<1>4. PICK v \in {"none", "raised"} : Reports(c, v)
    BY DEF StoreFailure, Returns
<1>5. s \in {"failed", "abandoned"}
    BY DEF FailureStatus
<1> QED
    BY <1>1, <1>2, <1>3, <1>4, <1>5, AgentWrites DEF Outputs

LEMMA CompleteKeeps ==
    ASSUME PipeInv, NEW c \in Callers, Complete(c) PROVE PipeInv'
<1> PICK o : o = caller[c].output
    OBVIOUS
<1>1. /\ caller[c].phase \in Dispatching
      /\ Outcome[Task(c)] = "approvable" /\ Lesson(Task(c))
      /\ o \in Outputs
    BY CallerIs DEF Complete, At, Dispatching, CallerOK, CallerRecords, InHand, Task
<1>2. OthersTyped' /\ UNCHANGED <<created, learned, unlearned>>
    BY ConstantsOK DEF Complete, Returns, Fault, PipeInv, OthersTyped
<1>3. PICK v \in {"completed", "raised"} : Reports(c, v)
    BY DEF Complete, Returns
<1> QED
    BY <1>1, <1>2, <1>3, AgentWrites DEF Complete

LEMMA RejectKeeps ==
    ASSUME PipeInv, NEW c \in Callers, Reject(c) PROVE PipeInv'
<1>1. caller[c].phase \in Dispatching /\ Outcome[Task(c)] = "rejectable"
    BY CallerIs DEF Reject, At, Dispatching, CallerOK, InHand, Task
<1>2. OthersTyped' /\ UNCHANGED <<created, learned, unlearned>>
    BY ConstantsOK DEF Reject, Returns, Fault, PipeInv, OthersTyped
<1>3. PICK v \in {"rejected", "raised"} : Reports(c, v)
    BY DEF Reject, Returns
<1> QED
    BY <1>1, <1>2, <1>3, AgentWrites DEF Reject, Outputs

LEMMA LearnKeeps ==
    ASSUME PipeInv, NEW c \in Callers, Learn(c) PROVE PipeInv'
<1> PICK m : m = caller[c]
    OBVIOUS
<1> PICK t : t = Task(c)
    OBVIOUS
<1> PICK r : r = [m EXCEPT !.phase = "complete"]
    OBVIOUS
<1>1. /\ CallerOK(c, m) /\ m.phase = "learn" /\ Outcome[t] = "approvable"
      /\ m.task = t /\ m.phase \in Dispatching
    BY CallerIs DEF Learn, At, Dispatching, CallerOK, InHand, Task
<1>2. t \in Tasks /\ Planned(t)
    BY <1>1, HeldTask
<1>3. UNCHANGED <<table, created>> /\ Becomes(c, r)
    BY DEF Learn, Go
<1>4. /\ learned' \in SUBSET Tasks /\ unlearned' \in SUBSET Tasks
      /\ learned \cup unlearned \cup {t} \subseteq learned' \cup unlearned'
    BY <1>2 DEF Learn, PipeInv, OthersTyped
<1>5. OthersTyped'
    BY <1>4, ConstantsOK DEF Learn, Fault, PipeInv, OthersTyped
<1>6. RowInv'
    BY <1>3, <1>4 DEF PipeInv, RowInv, Recorded, JudgedRight, HasStatus, Lesson
<1>7. KeepsOthers(c)
    BY <1>3, <1>4 DEF KeepsOthers, Planned, HasStatus, Lesson
<1>8. r \in CallerRecords /\ r.phase = "complete" /\ r.task = t /\ r.tried = m.tried
    BY <1>1 DEF CallerOK, CallerRecords, Phases
<1>9. Planned(t)' /\ Lesson(t)'
    BY <1>2, <1>3, <1>4 DEF Planned, Lesson
<1>10. CallerOK(c, r)'
    BY <1>1, <1>2, <1>8, <1>9 DEF CallerOK, Planning, InHand, Dispatching, Ended
<1> QED
    BY <1>3, <1>5, <1>6, <1>7, <1>10, StepKeeps

-----------------------------------------------------------------------------
(* The invariant *)

LEMMA ElsewhereKeeps ==
    ASSUME PipeInv, Still, UNCHANGED caller, OthersTyped' PROVE PipeInv'
<1>1. RowInv'
    BY StillRows DEF PipeInv
<1>2. \A c \in Callers : CallerOK(c, caller[c])'
    BY DEF PipeInv, CallerOK, Planning, InHand, Still, Planned, HasStatus, Lesson
<1> QED
    BY <1>1, <1>2 DEF PipeInv

LEMMA InitPipe == Init => PipeInv
<1> SUFFICES ASSUME Init PROVE PipeInv
    OBVIOUS
<1>1. RowInv
    BY DEF Init, RowInv, Recorded, JudgedRight, HasStatus, Row, Statuses, Outputs
<1>2. OthersTyped
    BY ConstantsOK DEF Init, OthersTyped
<1>3. caller = [c \in Callers |-> caller[c]]
    BY DEF Init
<1>4. ASSUME NEW c \in Callers PROVE CallerOK(c, caller[c])
    <2> PICK m : m = caller[c]
        OBVIOUS
    <2>1. /\ m \in CallerRecords /\ m.phase = "start" /\ m.step = 1
          /\ m.tried = 0 /\ m.tried < MaxIterations
        BY StepsAre, ConstantsOK DEF Init, CallerRecords, Phases, Outputs
    <2>2. \A t \in Tasks : HasStatus(t, "absent")
        BY DEF Init, Row, HasStatus
    <2>3. Root(c) \in Tasks /\ \A k \in 1..Steps : <<c, k>> \in Tasks
        BY TasksAre, StepsAre DEF Root
    <2> QED
        BY <2>1, <2>2, <2>3 DEF CallerOK, Planning, InHand, Dispatching
<1> QED
    BY <1>1, <1>2, <1>3, <1>4 DEF PipeInv

LEMMA NextKeeps == PipeInv /\ [Next]_vars => PipeInv'
<1> SUFFICES ASSUME PipeInv, [Next]_vars PROVE PipeInv'
    OBVIOUS
<1>1. ASSUME NEW c \in Callers, CallerStep(c) PROVE PipeInv'
    BY <1>1, CreateRootKeeps, CreateSubtaskKeeps, ActivateKeeps, PlanRootKeeps,
       FirstSearchKeeps, SecondSearchKeeps, ChooseNodeKeeps, AdmitWorkKeeps,
       StoreResultKeeps, StoreFailureKeeps, AdmitReviewKeeps, LearnKeeps,
       CompleteKeeps, RejectKeeps, ReportKeeps, SkipsStepKeeps, AgentRaisesKeeps,
       CallerFailsKeeps DEF CallerStep
<1>2. CASE NodeLost
    <2>1. Still /\ UNCHANGED caller /\ UNCHANGED <<failNotes, learned, unlearned>>
        BY <1>2 DEF NodeLost, dbVars, Still
    <2>2. faults' \in 0..MaxFaults
        BY <1>2, ConstantsOK DEF NodeLost, Fault, PipeInv, OthersTyped
    <2>3. nodeUp' \in BOOLEAN
        BY <1>2 DEF NodeLost
    <2>4. OthersTyped'
        BY <2>1, <2>2, <2>3 DEF PipeInv, OthersTyped
    <2> QED
        BY <2>1, <2>4, ElsewhereKeeps
<1>3. CASE NodeBack
    BY <1>3, ElsewhereKeeps DEF NodeBack, dbVars, Still, PipeInv, OthersTyped
<1>4. CASE UNCHANGED vars
    BY <1>4, ElsewhereKeeps DEF vars, Still, PipeInv, OthersTyped
<1> QED
    BY <1>1, <1>2, <1>3, <1>4 DEF Next

\* The inductive invariant holds throughout: planning happens in order and to
\* the caller's own tasks only, a caller dispatches what was planned, and it
\* writes a status that its task's outcome calls for.
THEOREM PipelineInvariant == Spec => []PipeInv
<1>1. Init => PipeInv
    BY InitPipe
<1>2. PipeInv /\ [Next]_vars => PipeInv'
    BY NextKeeps
<1> QED
    BY <1>1, <1>2, PTL DEF Spec

\* Every variable keeps its type, the counter of tried tasks its bound.
THEOREM TypeCorrect == Spec => []TypeOK
<1>1. PipeInv => TypeOK
    <2> SUFFICES ASSUME PipeInv PROVE TypeOK
        OBVIOUS
    <2>1. \A c \in Callers : caller[c] \in CallerRecords
        BY CallerIs DEF CallerOK
    <2>2. caller \in [Callers -> CallerRecords]
        BY <2>1 DEF PipeInv
    <2> QED
        BY <2>2 DEF PipeInv, RowInv, OthersTyped, TypeOK, CallerRecords
<1> QED
    BY <1>1, PipelineInvariant, PTL

\* No task is completed before its lesson is in memory, or failed to be stored
\* unnoticed (reviewer.py:171): the reviewer that completes it has just learned,
\* and nobody else completes.
THEOREM LessonFirst == Spec => []LessonComesFirst
<1>1. PipeInv => LessonComesFirst
    BY DEF PipeInv, RowInv, JudgedRight, Lesson, LessonComesFirst
<1> QED
    BY <1>1, PipelineInvariant, PTL

-----------------------------------------------------------------------------
(* The statuses a task goes through *)

LEMMA HoldingIs ==
    ASSUME NEW m
    PROVE  /\ m.phase \in {"store_result", "store_failure"} =>
                 Holding(m) = [duty |-> "work", task |-> m.task]
           /\ m.phase \in {"learn", "complete", "reject"} =>
                 Holding(m) = [duty |-> "review", task |-> m.task]
           /\ m.phase \notin {"store_result", "store_failure", "learn", "complete", "reject"} =>
                 Holding(m) = Life!Free
BY DEF Holding, Life!Free

LEMMA HandsMove ==
    ASSUME PipeInv, NEW c \in Callers, NEW r, Becomes(c, r)
    PROVE  Hands' = [Hands EXCEPT ![c] = Holding(r)] /\ Hands[c] = Holding(caller[c])
<1>1. caller' = [d \in Callers |-> IF d = c THEN r ELSE caller[d]]
    BY DEF PipeInv, Becomes
<1> QED
    BY <1>1 DEF Hands

LEMMA LivesMove ==
    ASSUME RowInv, NEW t \in Tasks, NEW s, NEW o, Store(t, s, o)
    PROVE  Lives' = [Lives EXCEPT ![t] = s] /\ Lives[t] = table[t].status
<1>1. table' = [u \in Tasks |-> IF u = t THEN Row(s, o) ELSE table[u]]
    BY DEF RowInv, Store
<1>2. Row(s, o).status = s
    BY DEF Row
<1> QED
    BY <1>1, <1>2 DEF Lives

\* A step that takes no task and delivers none.
LEMMA NothingTaken ==
    ASSUME PipeInv, NEW c \in Callers, NEW r, Becomes(c, r),
           Holding(r) = Holding(caller[c]), UNCHANGED table
    PROVE  UNCHANGED Life!vars
<1>1. Hands' = [Hands EXCEPT ![c] = Hands[c]]
    BY HandsMove
<1>2. Hands' = Hands
    BY <1>1 DEF Hands
<1>3. Lives' = Lives
    BY DEF Lives
<1> QED
    BY <1>2, <1>3 DEF Life!vars

LEMMA PlanningPasses ==
    ASSUME PipeInv, NEW c \in Callers, NEW r, Becomes(c, r),
           Holding(r) = Holding(caller[c]),
           NEW t \in Tasks, NEW s, NEW o, Store(t, s, o),
           \/ HasStatus(t, "absent") /\ s = "pending"
           \/ HasStatus(t, "pending") /\ s = "planned"
    PROVE  Life!Next
<1>1. Hands' = Hands
    <2>1. Hands' = [Hands EXCEPT ![c] = Hands[c]]
        BY HandsMove
    <2> QED
        BY <2>1 DEF Hands
<1>2. Lives' = [Lives EXCEPT ![t] = s] /\ Lives[t] = table[t].status
    BY LivesMove DEF PipeInv
<1>3. Life!Create(t) \/ Life!Plan(t)
    BY <1>1, <1>2 DEF HasStatus, Life!Create, Life!Plan, Life!Pass
<1> QED
    BY <1>3 DEF Life!Next

LEMMA Delivers ==
    ASSUME PipeInv, NEW c \in Callers, NEW r, Becomes(c, r), Holding(r) = Life!Free,
           NEW t \in Tasks, NEW s, NEW o, Store(t, s, o),
           \/ /\ Holding(caller[c]) = [duty |-> "work", task |-> t]
              /\ s \in {"review_pending", "failed", "abandoned"}
           \/ /\ Holding(caller[c]) = [duty |-> "review", task |-> t]
              /\ s \in {"completed", "rejected"}
    PROVE  Life!Next
<1>1. Hands' = [Hands EXCEPT ![c] = Life!Free] /\ Hands[c] = Holding(caller[c])
    BY HandsMove
<1>2. Lives' = [Lives EXCEPT ![t] = s]
    BY LivesMove DEF PipeInv
<1>3. \/ Life!Finish(c, t, "work", {"review_pending", "failed", "abandoned"})
      \/ Life!Finish(c, t, "review", {"completed", "rejected"})
    BY <1>1, <1>2 DEF Life!Finish
<1> QED
    BY <1>3 DEF Life!Next

LEMMA Takes ==
    ASSUME PipeInv, NEW c \in Callers, NEW r, Becomes(c, r), UNCHANGED table,
           Holding(caller[c]) = Life!Free, NEW t \in Tasks,
           \/ /\ Holding(r) = [duty |-> "work", task |-> t]
              /\ HasStatus(t, "planned")
           \/ /\ Holding(r) = [duty |-> "review", task |-> t]
              /\ HasStatus(t, "review_pending")
    PROVE  Life!Next
<1>1. Hands' = [Hands EXCEPT ![c] = Holding(r)] /\ Hands[c] = Life!Free
    BY HandsMove
<1>2. Lives' = Lives /\ Lives[t] = table[t].status
    BY DEF Lives
<1>3. \/ Life!Take(c, t, "work", "planned")
      \/ Life!Take(c, t, "review", "review_pending")
    BY <1>1, <1>2 DEF HasStatus, Life!Take
<1> QED
    BY <1>3 DEF Life!Next

LEMMA ReportIsFree ==
    ASSUME PipeInv, NEW c \in Callers, NEW v,
           NEW r, r = ReportOf(caller[c], v)
    PROVE  Holding(r) = Life!Free
<1>1. caller[c] \in CallerRecords
    BY CallerIs DEF CallerOK
<1>2. r.phase = "report"
    BY <1>1 DEF CallerRecords, ReportOf
<1> QED
    BY <1>2, HoldingIs

\* Each step of a caller is a step of TaskLife or leaves statuses and hands alone.
LifeStep == Life!Next \/ UNCHANGED Life!vars

LEMMA PlannerImplements ==
    ASSUME PipeInv, NEW c \in Callers,
           CreateRoot(c) \/ CreateSubtask(c) \/ Activate(c) \/ PlanRoot(c) \/ SkipsStep(c)
    PROVE  LifeStep
<1> PICK m : m = caller[c]
    OBVIOUS
<1>1. CallerOK(c, m) /\ m \in CallerRecords
    BY CallerIs DEF CallerOK
<1>2. Root(c) \in Tasks
    BY TasksAre, StepsAre DEF Root
<1>3. m.step <= Steps => Subtask(c) \in Tasks
    <2>1. m.step \in 1..(Steps + 1)
        BY <1>1 DEF CallerRecords
    <2>2. m.step <= Steps => m.step \in 0..Steps
        BY <2>1, StepsAre
    <2> QED
        BY <2>2, TasksAre DEF Subtask
<1>4. CASE CreateRoot(c)
    <2> PICK r : r = [m EXCEPT !.phase = "create"]
        OBVIOUS
    <2>1. m.phase = "start" /\ r.phase = "create"
        BY <1>1, <1>4 DEF CreateRoot, At, CallerRecords
    <2>2. HasStatus(Root(c), "absent")
        BY <1>1, <2>1 DEF CallerOK, Planning
    <2>3. Becomes(c, r) /\ Store(Root(c), "pending", "none")
        BY <1>4 DEF CreateRoot, CreateTask, Go
    <2>4. Holding(r) = Holding(caller[c])
        BY <2>1, HoldingIs
    <2> QED
        BY <1>2, <2>2, <2>3, <2>4, PlanningPasses DEF LifeStep
<1>5. CASE CreateSubtask(c)
    <2> PICK r : r = [m EXCEPT !.phase = "activate"]
        OBVIOUS
    <2>1. m.phase = "create" /\ r.phase = "activate"
        BY <1>1, <1>5 DEF CreateSubtask, At, CallerRecords
    <2>2. m.step <= Steps /\ HasStatus(Subtask(c), "absent")
        <3>1. m.step <= Steps /\ \A k \in m.step..Steps : HasStatus(<<c, k>>, "absent")
            BY <1>1, <2>1 DEF CallerOK, Planning
        <3>2. m.step \in m.step..Steps
            BY <1>1, <3>1, StepsAre DEF CallerRecords
        <3> QED
            BY <3>1, <3>2 DEF Subtask
    <2>3. Becomes(c, r) /\ Store(Subtask(c), "pending", "none")
        BY <1>5 DEF CreateSubtask, CreateTask, Go
    <2>4. Holding(r) = Holding(caller[c])
        BY <2>1, HoldingIs
    <2> QED
        BY <1>3, <2>2, <2>3, <2>4, PlanningPasses DEF LifeStep
<1>6. CASE Activate(c)
    <2> PICK r : r = NextOf(m)
        OBVIOUS
    <2>1. m.phase = "activate" /\ m.step <= Steps /\ HasStatus(Subtask(c), "pending")
        BY <1>1, <1>6 DEF Activate, At, CallerOK, Planning, Subtask
    <2>2. r.phase \in {"plan", "create"}
        BY <1>1, <2>1, NextRecord
    <2>3. Becomes(c, r) /\ Store(Subtask(c), "planned", "none")
        BY <1>6 DEF Activate, NextStep, NextOf
    <2>4. Holding(r) = Holding(caller[c])
        BY <2>1, <2>2, HoldingIs
    <2> QED
        BY <1>3, <2>1, <2>3, <2>4, PlanningPasses DEF LifeStep
<1>7. CASE PlanRoot(c)
    <2> PICK r : r = [m EXCEPT !.phase = "first"]
        OBVIOUS
    <2>1. m.phase = "plan" /\ r.phase = "first"
        BY <1>1, <1>7 DEF PlanRoot, At, CallerRecords
    <2>2. HasStatus(Root(c), "pending")
        BY <1>1, <2>1 DEF CallerOK, Planning
    <2>3. Becomes(c, r) /\ Store(Root(c), "planned", "words")
        BY <1>7 DEF PlanRoot, Go
    <2>4. Holding(r) = Holding(caller[c])
        BY <2>1, HoldingIs
    <2> QED
        BY <1>2, <2>2, <2>3, <2>4, PlanningPasses DEF LifeStep
<1>8. CASE SkipsStep(c)
    <2> PICK r : r = NextOf(m)
        OBVIOUS
    <2>1. m.phase \in {"create", "activate"} /\ m.step <= Steps
        BY <1>1, <1>8 DEF SkipsStep, CallerOK, Planning
    <2>2. r.phase \in {"plan", "create"}
        BY <1>1, <2>1, NextRecord
    <2>3. Becomes(c, r) /\ UNCHANGED table
        BY <1>8 DEF SkipsStep, NextStep, NextOf, dbVars
    <2>4. Holding(r) = Holding(caller[c])
        BY <2>1, <2>2, HoldingIs
    <2> QED
        BY <2>3, <2>4, NothingTaken DEF LifeStep
<1> QED
    BY <1>4, <1>5, <1>6, <1>7, <1>8

LEMMA ReportsFree ==
    ASSUME PipeInv, NEW c \in Callers, NEW v, Reports(c, v), UNCHANGED table,
           Holding(caller[c]) = Life!Free
    PROVE  LifeStep
<1> PICK r : r = ReportOf(caller[c], v)
    OBVIOUS
<1>1. Becomes(c, r)
    BY DEF Reports, ReportOf
<1>2. Holding(r) = Life!Free
    BY ReportIsFree
<1> QED
    BY <1>1, <1>2, NothingTaken DEF LifeStep

LEMMA ReportsWrite ==
    ASSUME PipeInv, NEW c \in Callers, NEW v, Reports(c, v), Task(c) \in Tasks,
           NEW s, NEW o, Store(Task(c), s, o),
           \/ /\ caller[c].phase \in {"store_result", "store_failure"}
              /\ s \in {"review_pending", "failed", "abandoned"}
           \/ /\ caller[c].phase \in {"complete", "reject"}
              /\ s \in {"completed", "rejected"}
    PROVE  LifeStep
<1> PICK r : r = ReportOf(caller[c], v)
    OBVIOUS
<1>1. Becomes(c, r)
    BY DEF Reports, ReportOf
<1>2. Holding(r) = Life!Free
    BY ReportIsFree
<1>3. \/ /\ Holding(caller[c]) = [duty |-> "work", task |-> Task(c)]
         /\ s \in {"review_pending", "failed", "abandoned"}
      \/ /\ Holding(caller[c]) = [duty |-> "review", task |-> Task(c)]
         /\ s \in {"completed", "rejected"}
    BY HoldingIs DEF Task
<1> QED
    BY <1>1, <1>2, <1>3, Delivers DEF LifeStep

LEMMA Drops ==
    ASSUME PipeInv, NEW c \in Callers, AgentRaises(c) PROVE LifeStep
<1> PICK r : r = ReportOf(caller[c], "raised")
    OBVIOUS
<1>1. Becomes(c, r) /\ UNCHANGED table /\ Reports(c, "raised")
    BY DEF AgentRaises, Reports, ReportOf, dbVars
<1>2. CASE Holding(caller[c]) = Life!Free
    BY <1>1, <1>2, ReportsFree
<1>3. CASE Holding(caller[c]) # Life!Free
    <2>1. Holding(r) = Life!Free
        BY ReportIsFree
    <2>2. Hands' = [Hands EXCEPT ![c] = Life!Free] /\ Hands[c] # Life!Free
        BY <1>1, <1>3, <2>1, HandsMove
    <2>3. Lives' = Lives
        BY <1>1 DEF Lives
    <2>4. Life!Drop(c)
        BY <2>2, <2>3 DEF Life!Drop
    <2> QED
        BY <2>4 DEF LifeStep, Life!Next
<1> QED
    BY <1>2, <1>3

LEMMA Wanders ==
    ASSUME PipeInv, NEW c \in Callers,
           FirstSearch(c) \/ SecondSearch(c) \/ ChooseNode(c) \/ Report(c) \/ CallerFails(c)
    PROVE  LifeStep
<1> DEFINE Idling == {"start", "plan", "first", "second", "choose", "report",
                      "admit_work", "admit_review", "idle", "no_node", "spent", "error"}
<1> PICK m : m = caller[c]
    OBVIOUS
<1> PICK r : r = caller'[c]
    OBVIOUS
<1>1. m \in CallerRecords
    BY CallerIs DEF CallerOK
<1>2. m.phase \in Idling
    BY DEF FirstSearch, SecondSearch, ChooseNode, Report, CallerFails, At
<1>3. r.phase \in Idling /\ Becomes(c, r)
    <2>1. CASE FirstSearch(c)
        BY <1>1, <2>1 DEF FirstSearch, Becomes, PipeInv, CallerRecords
    <2>2. CASE SecondSearch(c)
        <3> PICK t : t = Foremost(({m.task} \ {NoTask}) \cup Listed(c, SecondQuery))
            OBVIOUS
        <3> PICK p : p = IF t = NoTask THEN "idle"
                         ELSE Route(IF t = m.task THEN FirstQuery ELSE SecondQuery)
            OBVIOUS
        <3>1. Becomes(c, [m EXCEPT !.task = t, !.phase = p])
            BY <2>2 DEF SecondSearch, Task
        <3>2. p \in Idling
            BY DEF Route
        <3> QED
            BY <1>1, <3>1, <3>2 DEF Becomes, PipeInv, CallerRecords
    <2>3. CASE ChooseNode(c)
        <3>1. PICK p \in {"admit_work", "no_node"} : Go(c, p)
            BY <2>3 DEF ChooseNode
        <3> QED
            BY <1>1, <3>1 DEF Go, Becomes, PipeInv, CallerRecords
    <2>4. CASE Report(c)
        <3> PICK x, y, p :
                /\ x = (IF Final(c) = "completed" THEN m.completed + 1 ELSE m.completed)
                /\ y = (IF Final(c) = "rejected" THEN m.rejected + 1 ELSE m.rejected)
                /\ p = (IF m.tried + 1 = MaxIterations THEN "spent" ELSE "first")
            OBVIOUS
        <3>1. Becomes(c, [m EXCEPT !.tried = m.tried + 1, !.completed = x, !.rejected = y,
                                   !.verdict = "none", !.output = "none",
                                   !.task = NoTask, !.phase = p])
            BY <2>4 DEF Report
        <3>2. p \in Idling
            OBVIOUS
        <3> QED
            BY <1>1, <3>1, <3>2 DEF Becomes, PipeInv, CallerRecords
    <2>5. CASE CallerFails(c)
        BY <1>1, <2>5 DEF CallerFails, Go, Becomes, PipeInv, CallerRecords
    <2> QED
        BY <2>1, <2>2, <2>3, <2>4, <2>5
<1>4. UNCHANGED table
    BY DEF FirstSearch, SecondSearch, ChooseNode, Report, CallerFails, dbVars
<1>5. Holding(r) = Life!Free /\ Holding(m) = Life!Free
    BY <1>2, <1>3, HoldingIs
<1> QED
    BY <1>3, <1>4, <1>5, NothingTaken DEF LifeStep

LEMMA WorkTaken ==
    ASSUME PipeInv, NEW c \in Callers, AdmitWork(c) PROVE LifeStep
<1> PICK m : m = caller[c]
    OBVIOUS
<1>1. m \in CallerRecords /\ m.phase = "admit_work" /\ m.task = Task(c)
    BY CallerIs DEF AdmitWork, At, CallerOK, Task
<1>2. UNCHANGED table /\ Holding(m) = Life!Free /\ Task(c) \in Tasks
    BY <1>1, HoldingIs, HeldTask DEF AdmitWork, dbVars, Dispatching
<1>3. CASE Reports(c, "none")
    BY <1>2, <1>3, ReportsFree
<1>4. CASE HasStatus(Task(c), "planned")
    <2> PICK p : p = IF Outcome[Task(c)] = "empty" THEN "store_failure" ELSE "store_result"
        OBVIOUS
    <2> PICK r : r = [m EXCEPT !.phase = p]
        OBVIOUS
    <2>1. Becomes(c, r)
        BY <1>4 DEF AdmitWork, Go, HasStatus
    <2>2. r.phase \in {"store_failure", "store_result"} /\ r.task = Task(c)
        BY <1>1 DEF CallerRecords
    <2>3. Holding(r) = [duty |-> "work", task |-> Task(c)]
        BY <2>2, HoldingIs
    <2> QED
        BY <1>2, <1>4, <2>1, <2>3, Takes DEF LifeStep
<1> QED
    BY <1>3, <1>4 DEF AdmitWork, HasStatus

LEMMA ReviewTaken ==
    ASSUME PipeInv, NEW c \in Callers, AdmitReview(c) PROVE LifeStep
<1> PICK m : m = caller[c]
    OBVIOUS
<1>1. m \in CallerRecords /\ m.phase = "admit_review" /\ m.task = Task(c)
    BY CallerIs DEF AdmitReview, At, CallerOK, Task
<1>2. UNCHANGED table /\ Holding(m) = Life!Free /\ Task(c) \in Tasks
    BY <1>1, HoldingIs, HeldTask DEF AdmitReview, dbVars, Dispatching
<1>3. CASE Reports(c, "none")
    BY <1>2, <1>3, ReportsFree
<1>4. CASE HasStatus(Task(c), "review_pending")
    <2> PICK o : o = table[Task(c)].output
        OBVIOUS
    <2> PICK p : p = IF Evaluate(Task(c), o) THEN "learn" ELSE "reject"
        OBVIOUS
    <2> PICK r : r = [m EXCEPT !.output = o, !.phase = p]
        OBVIOUS
    <2>1. Becomes(c, r)
        BY <1>4 DEF AdmitReview, HasStatus
    <2>2. r.phase \in {"learn", "reject"} /\ r.task = Task(c)
        BY <1>1 DEF CallerRecords
    <2>3. Holding(r) = [duty |-> "review", task |-> Task(c)]
        BY <2>2, HoldingIs
    <2> QED
        BY <1>2, <1>4, <2>1, <2>3, Takes DEF LifeStep
<1> QED
    BY <1>3, <1>4 DEF AdmitReview, HasStatus

LEMMA AgentsImplement ==
    ASSUME PipeInv, NEW c \in Callers,
           \/ StoreResult(c) \/ StoreFailure(c) \/ Learn(c) \/ Complete(c) \/ Reject(c)
    PROVE  LifeStep
<1>1. Task(c) \in Tasks
    BY HeldTask DEF StoreResult, StoreFailure, Learn, Complete, Reject, At, Dispatching
<1>2. CASE StoreResult(c)
    <2>1. PICK v : Reports(c, v)
        BY <1>2 DEF StoreResult, Returns
    <2>2. caller[c].phase = "store_result" /\ Store(Task(c), "review_pending", "work")
        BY <1>2 DEF StoreResult, At
    <2> QED
        BY <1>1, <2>1, <2>2, ReportsWrite
<1>3. CASE StoreFailure(c)
    <2>1. PICK v : Reports(c, v)
        BY <1>3 DEF StoreFailure, Returns
    <2>2. PICK s \in {"failed", "abandoned"} : Store(Task(c), s, "words")
        BY <1>3 DEF StoreFailure, FailureStatus
    <2>3. caller[c].phase = "store_failure"
        BY <1>3 DEF StoreFailure, At
    <2> QED
        BY <1>1, <2>1, <2>2, <2>3, ReportsWrite
<1>4. CASE Learn(c)
    <2> PICK m : m = caller[c]
        OBVIOUS
    <2> PICK r : r = [m EXCEPT !.phase = "complete"]
        OBVIOUS
    <2>1. m \in CallerRecords /\ m.phase = "learn"
        BY <1>4, CallerIs DEF Learn, At, CallerOK
    <2>2. r.phase = "complete" /\ r.task = m.task
        BY <2>1 DEF CallerRecords
    <2>3. Becomes(c, r) /\ UNCHANGED table
        BY <1>4 DEF Learn, Go
    <2>4. Holding(m) = [duty |-> "review", task |-> m.task]
        BY <2>1, HoldingIs
    <2>5. Holding(r) = [duty |-> "review", task |-> m.task]
        BY <2>2, HoldingIs
    <2> QED
        BY <2>3, <2>4, <2>5, NothingTaken DEF LifeStep
<1>5. CASE Complete(c)
    <2>1. PICK v : Reports(c, v)
        BY <1>5 DEF Complete, Returns
    <2>2. PICK o : Store(Task(c), "completed", o)
        BY <1>5 DEF Complete
    <2>3. caller[c].phase = "complete"
        BY <1>5 DEF Complete, At
    <2> QED
        BY <1>1, <2>1, <2>2, <2>3, ReportsWrite
<1>6. CASE Reject(c)
    <2>1. PICK v : Reports(c, v)
        BY <1>6 DEF Reject, Returns
    <2>2. caller[c].phase = "reject" /\ Store(Task(c), "rejected", "words")
        BY <1>6 DEF Reject, At
    <2> QED
        BY <1>1, <2>1, <2>2, ReportsWrite
<1> QED
    BY <1>2, <1>3, <1>4, <1>5, <1>6

\* The pipeline implements TaskLife for any number of callers and tasks: each
\* change of a status follows a test of the status it starts from, and an agent
\* writes at most once for each task it took.
THEOREM Implements == Spec => ImplementsTaskLife
<1>1. Init => Life!Init
    <2> SUFFICES ASSUME Init PROVE Life!Init
        OBVIOUS
    <2>1. Lives = [t \in Tasks |-> "absent"]
        BY DEF Init, Lives, Row
    <2>2. \A c \in Callers : caller[c].phase = "start"
        BY DEF Init
    <2>3. \A c \in Callers : Holding(caller[c]) = Life!Free
        BY <2>2, HoldingIs
    <2>4. Hands = [c \in Callers |-> Life!Free]
        BY <2>3 DEF Hands
    <2> QED
        BY <2>1, <2>4 DEF Life!Init
<1>2. PipeInv /\ [Next]_vars => [Life!Next]_Life!vars
    <2> SUFFICES ASSUME PipeInv, [Next]_vars PROVE LifeStep
        BY DEF LifeStep
    <2>1. ASSUME NEW c \in Callers, CallerStep(c) PROVE LifeStep
        BY <2>1, PlannerImplements, Wanders, WorkTaken, ReviewTaken, AgentsImplement,
           Drops DEF CallerStep
    <2>2. CASE UNCHANGED <<table, caller>>
        BY <2>2 DEF LifeStep, Life!vars, Lives, Hands
    <2>3. NodeLost \/ NodeBack \/ UNCHANGED vars => UNCHANGED <<table, caller>>
        BY DEF NodeLost, NodeBack, vars, dbVars
    <2> QED
        BY <2>1, <2>2, <2>3 DEF Next
<1> QED
    BY <1>1, <1>2, PipelineInvariant, PTL DEF Spec, ImplementsTaskLife, Life!Spec

-----------------------------------------------------------------------------
(* Verdicts *)

StandsOf(t) == Judged(t) => table'[t].status \in {table[t].status, "review_pending"}

LEMMA WriteStands ==
    ASSUME RowInv, NEW t \in Tasks, NEW s, NEW o, Store(t, s, o),
           Judged(t) => s \in {table[t].status, "review_pending"},
           NEW u \in Tasks
    PROVE  StandsOf(u)
<1>1. u = t => table'[u].status = s
    BY DEF RowInv, Store, Row
<1>2. u # t => table'[u] = table[u]
    BY DEF RowInv, Store
<1> QED
    BY <1>1, <1>2 DEF StandsOf

\* A verdict is never replaced by another ending: the outcome of a task is what
\* it is, and every agent that ends the task does so by that outcome; only a
\* worker that took the task long ago puts it back before the reviewer.
THEOREM VerdictsStand == Spec => VerdictStands
<1>1. ASSUME PipeInv, [Next]_vars, NEW u \in Tasks PROVE StandsOf(u)
    <2>1. CASE UNCHANGED table
        BY <2>1 DEF StandsOf
    <2>2. ASSUME NEW c \in Callers,
                 \/ CreateRoot(c) \/ CreateSubtask(c) \/ Activate(c) \/ PlanRoot(c)
          PROVE  StandsOf(u)
        <3> PICK m : m = caller[c]
            OBVIOUS
        <3>1. CallerOK(c, m) /\ m \in CallerRecords
            BY <1>1, CallerIs DEF CallerOK
        <3>2. m.step \in 1..(Steps + 1)
            BY <3>1 DEF CallerRecords
        <3>3. Root(c) \in Tasks
            BY TasksAre, StepsAre DEF Root
        <3>4. CASE CreateRoot(c) \/ PlanRoot(c)
            <4>1. PICK s, o : Store(Root(c), s, o)
                BY <3>4 DEF CreateRoot, CreateTask, PlanRoot
            <4>2. HasStatus(Root(c), "absent") \/ HasStatus(Root(c), "pending")
                BY <3>1, <3>4 DEF CreateRoot, PlanRoot, At, CallerOK, Planning
            <4>3. ~Judged(Root(c))
                BY <4>2 DEF HasStatus, Judged
            <4> QED
                BY <1>1, <3>3, <4>1, <4>3, WriteStands DEF PipeInv
        <3>5. CASE CreateSubtask(c) \/ Activate(c)
            <4>1. PICK s, o : Store(Subtask(c), s, o)
                BY <3>5 DEF CreateSubtask, CreateTask, Activate
            <4>2. m.step <= Steps
                BY <3>1, <3>5 DEF CreateSubtask, Activate, At, CallerOK, Planning
            <4>3. m.step \in 0..Steps /\ m.step \in m.step..Steps
                BY <3>2, <4>2, StepsAre
            <4>4. Subtask(c) \in Tasks
                BY <4>3, TasksAre DEF Subtask
            <4>5. HasStatus(Subtask(c), "absent") \/ HasStatus(Subtask(c), "pending")
                BY <3>1, <3>5, <4>3 DEF CreateSubtask, Activate, At, CallerOK, Planning, Subtask
            <4>6. ~Judged(Subtask(c))
                BY <4>5 DEF HasStatus, Judged
            <4> QED
                BY <1>1, <4>1, <4>4, <4>6, WriteStands DEF PipeInv
        <3> QED
            BY <2>2, <3>4, <3>5
    <2>3. ASSUME NEW c \in Callers,
                 StoreResult(c) \/ StoreFailure(c) \/ Complete(c) \/ Reject(c)
          PROVE  StandsOf(u)
        <3> PICK t : t = Task(c)
            OBVIOUS
        <3>1. t \in Tasks
            BY <1>1, <2>3, HeldTask
               DEF StoreResult, StoreFailure, Complete, Reject, At, Dispatching
        <3>2. InHand(caller[c]) /\ caller[c].task = t
            BY <1>1, CallerIs DEF CallerOK, Task
        <3>3. /\ HasStatus(t, "completed") => Outcome[t] = "approvable"
              /\ HasStatus(t, "rejected") => Outcome[t] = "rejectable"
            BY <1>1, <3>1 DEF PipeInv, RowInv, JudgedRight
        <3>4. PICK s, o :
                /\ Store(t, s, o)
                /\ \/ s = "review_pending"
                   \/ Outcome[t] = "empty"
                   \/ s = "completed" /\ Outcome[t] = "approvable"
                   \/ s = "rejected" /\ Outcome[t] = "rejectable"
            <4>1. CASE StoreResult(c)
                BY <4>1 DEF StoreResult
            <4>2. CASE StoreFailure(c)
                <5>1. Outcome[t] = "empty"
                    BY <3>2, <4>2 DEF StoreFailure, At, InHand
                <5> QED
                    BY <4>2, <5>1 DEF StoreFailure
            <4>3. CASE Complete(c)
                <5>1. Outcome[t] = "approvable"
                    BY <3>2, <4>3 DEF Complete, At, InHand
                <5> QED
                    BY <4>3, <5>1 DEF Complete
            <4>4. CASE Reject(c)
                <5>1. Outcome[t] = "rejectable"
                    BY <3>2, <4>4 DEF Reject, At, InHand
                <5> QED
                    BY <4>4, <5>1 DEF Reject
            <4> QED
                BY <2>3, <4>1, <4>2, <4>3, <4>4
        <3>5. Judged(t) => s \in {table[t].status, "review_pending"}
            BY <3>3, <3>4 DEF Judged, HasStatus
        <3> QED
            BY <1>1, <3>1, <3>4, <3>5, WriteStands DEF PipeInv
    <2>4. ASSUME NEW c \in Callers,
                 \/ FirstSearch(c) \/ SecondSearch(c) \/ ChooseNode(c) \/ AdmitWork(c)
                 \/ AdmitReview(c) \/ Learn(c) \/ Report(c)
                 \/ SkipsStep(c) \/ AgentRaises(c) \/ CallerFails(c)
          PROVE  UNCHANGED table
        BY <2>4 DEF FirstSearch, SecondSearch, ChooseNode, AdmitWork, AdmitReview,
                    Learn, Report, SkipsStep, AgentRaises, CallerFails, dbVars
    <2>5. NodeLost \/ NodeBack \/ UNCHANGED vars => UNCHANGED table
        BY DEF NodeLost, NodeBack, vars, dbVars
    <2> QED
        BY <1>1, <2>1, <2>2, <2>3, <2>4, <2>5 DEF Next, CallerStep
<1>2. PipeInv /\ [Next]_vars =>
        [\A t \in Tasks :
            Judged(t) => table'[t].status \in {table[t].status, "review_pending"}]_vars
    BY <1>1 DEF StandsOf
<1> QED
    BY <1>2, PipelineInvariant, PTL DEF Spec, VerdictStands

-----------------------------------------------------------------------------
(* What is left behind, and what is counted *)

Dispatchable(t) == table[t].status \in {"planned", "review_pending"}

\* A caller in state r has not stopped, and its next searches, the second one
\* at least when the first found nothing, are still to come upon t.
Watches(r, t) ==
    /\ r.phase # "idle"
    /\ r.phase = "second" /\ r.task = NoTask => ~HasStatus(t, FirstQuery)

WatchInv ==
    \A t \in Tasks : Dispatchable(t) =>
        \E c \in Callers : ProjectOf[c] = ProjectOf[t[1]] /\ Watches(caller[c], t)

\* A caller takes up tasks of its own project only.
OwnProject ==
    \A c \in Callers : Task(c) \in Tasks => ProjectOf[Task(c)[1]] = ProjectOf[c]

\* A caller in state r is about to count t: it wrote s, or it will read what the
\* agent that raised has left.
Tells(r, t, s) == r.phase = "report" /\ r.task = t /\ r.verdict \in {s, "raised"}

\* The tasks that were judged s, and that nobody is about to count.
Told(p, s) ==
    {t \in Tasks : /\ ProjectOf[t[1]] = p /\ HasStatus(t, s)
                   /\ \A c \in Callers : ~Tells(caller[c], t, s)}

Verdicts == {"completed", "rejected"}

\* As long as no caller of the project has ended with an error, what was judged
\* was counted or is about to be.
TallyOf(p, s) ==
    /\ IsFiniteSet(Told(p, s))
    /\ IsFiniteSet(Counted(p, s))
    /\ (\A c \in Of(p) : ~At(c, "error")) =>
          Cardinality(Told(p, s)) <= Cardinality(Counted(p, s))

TallyInv == \A p \in Projects, s \in Verdicts : TallyOf(p, s)

WorkInv == OwnProject /\ WatchInv /\ TallyInv

LEMMA CallerAfter ==
    ASSUME PipeInv, NEW c \in Callers, NEW r, Becomes(c, r)
    PROVE  /\ caller'[c] = r
           /\ \A d \in Callers \ {c} : caller'[d] = caller[d]
BY DEF PipeInv, Becomes

\* What most steps have in common: the caller keeps its task and its tallies,
\* and if it writes a task's status, it stays in business, about to count the
\* verdict if it is one.
SameTallies(m, r) == r.completed = m.completed /\ r.rejected = m.rejected
Same(m, r) == r.task = m.task /\ SameTallies(m, r)

StatusKept(t) == table'[t].status = table[t].status

Busy(c, r) ==
    /\ Becomes(c, r)
    /\ Same(caller[c], r)
    /\ caller[c].phase \notin {"report", "error"}
    /\ r.phase \notin {"idle", "second"}
    /\ \A t \in Tasks :
          \/ StatusKept(t)
          \/ /\ ProjectOf[t[1]] = ProjectOf[c]
             /\ \A s \in Verdicts : HasStatus(t, s)' => Tells(r, t, s)

LEMMA BusyWatches ==
    ASSUME PipeInv, WatchInv, NEW c \in Callers, NEW r, Busy(c, r)
    PROVE  WatchInv'
<1> SUFFICES ASSUME NEW t \in Tasks, Dispatchable(t)'
             PROVE  \E d \in Callers :
                        ProjectOf[d] = ProjectOf[t[1]] /\ Watches(caller[d], t)'
    BY DEF WatchInv
<1>1. Watches(caller[c], t)'
    <2>1. caller'[c] = r /\ r.phase \notin {"idle", "second"}
        BY CallerAfter DEF Busy
    <2> QED
        BY <2>1 DEF Watches
<1>2. CASE ProjectOf[c] = ProjectOf[t[1]]
    BY <1>1, <1>2
<1>3. CASE ProjectOf[c] # ProjectOf[t[1]]
    <2>1. table'[t].status = table[t].status
        BY <1>3 DEF Busy, StatusKept
    <2>2. Dispatchable(t)
        BY <2>1 DEF Dispatchable
    <2>3. PICK d \in Callers : ProjectOf[d] = ProjectOf[t[1]] /\ Watches(caller[d], t)
        BY <2>2 DEF WatchInv
    <2>4. caller'[d] = caller[d]
        BY <1>3, <2>3, CallerAfter DEF Busy
    <2>5. Watches(caller[d], t)'
        BY <2>1, <2>3, <2>4 DEF Watches, HasStatus
    <2> QED
        BY <2>3, <2>5
<1> QED
    BY <1>2, <1>3

LEMMA BusyOwns ==
    ASSUME PipeInv, OwnProject, NEW c \in Callers, NEW r, Busy(c, r)
    PROVE  OwnProject'
<1>1. \A d \in Callers : caller'[d].task = caller[d].task
    BY CallerAfter DEF Busy, Same
<1> QED
    BY <1>1 DEF OwnProject, Task

LEMMA CountedStays ==
    ASSUME PipeInv, NEW c \in Callers, NEW r, Becomes(c, r), SameTallies(caller[c], r),
           NEW p, NEW s
    PROVE  Counted(p, s)' = Counted(p, s)
<1>1. \A d \in Callers : Tally(d, s)' = Tally(d, s)
    BY CallerAfter DEF Tally, SameTallies
<1>2. \A d \in Of(p) : d \in Callers /\ Tally(d, s)' = Tally(d, s)
    BY <1>1 DEF Of
<1>3. Of(p)' = Of(p)
    BY DEF Of
<1> QED
    BY <1>2, <1>3 DEF Counted

LEMMA FewerTold ==
    ASSUME NEW p, NEW s, TallyOf(p, s), Told(p, s)' \subseteq Told(p, s),
           Counted(p, s)' = Counted(p, s),
           (\A c \in Of(p) : ~At(c, "error"))' => \A c \in Of(p) : ~At(c, "error")
    PROVE  TallyOf(p, s)'
<1>1. PICK S : S = Told(p, s)
    OBVIOUS
<1>2. PICK T : T = Told(p, s)'
    OBVIOUS
<1>3. PICK C : C = Counted(p, s)
    OBVIOUS
<1>4. IsFiniteSet(S) /\ IsFiniteSet(C) /\ T \in SUBSET S
    BY <1>1, <1>2, <1>3 DEF TallyOf
<1>5. IsFiniteSet(T) /\ Cardinality(T) <= Cardinality(S)
    BY <1>4, FS_Subset
<1>6. Cardinality(S) \in Nat /\ Cardinality(T) \in Nat /\ Cardinality(C) \in Nat
    BY <1>4, <1>5, FS_CardinalityType
<1>7. (\A c \in Of(p) : ~At(c, "error")) => Cardinality(S) <= Cardinality(C)
    BY <1>1, <1>3 DEF TallyOf
<1>8. (\A c \in Of(p) : ~At(c, "error"))' => Cardinality(T) <= Cardinality(C)
    BY <1>5, <1>6, <1>7
<1> QED
    BY <1>2, <1>3, <1>4, <1>5, <1>8 DEF TallyOf

\* What c was not about to count is still not about to be counted.
LEMMA ToldAfter ==
    ASSUME PipeInv, NEW c \in Callers, NEW r, Becomes(c, r), UNCHANGED table, NEW p, NEW s
    PROVE  Told(p, s)' \subseteq Told(p, s) \cup {caller[c].task}
<1> SUFFICES ASSUME NEW t \in Told(p, s)', t # caller[c].task PROVE t \in Told(p, s)
    OBVIOUS
<1>1. /\ t \in Tasks /\ ProjectOf[t[1]] = p /\ HasStatus(t, s)
      /\ \A d \in Callers : ~Tells(caller'[d], t, s)
    BY DEF Told, Tells, HasStatus
<1>2. ~Tells(caller[c], t, s)
    BY DEF Tells
<1>3. \A d \in Callers : ~Tells(caller[d], t, s)
    BY <1>1, <1>2, CallerAfter
<1> QED
    BY <1>1, <1>3 DEF Told

LEMMA NothingToTell ==
    ASSUME PipeInv, TallyInv, NEW c \in Callers, NEW r, Becomes(c, r),
           SameTallies(caller[c], r), caller[c].phase \notin {"report", "error"},
           \A t \in Tasks, s \in Verdicts :
               HasStatus(t, s)' => StatusKept(t) \/ Tells(r, t, s)
    PROVE  TallyInv'
<1> SUFFICES ASSUME NEW p \in Projects, NEW s \in Verdicts PROVE TallyOf(p, s)'
    BY DEF TallyInv
<1>1. caller'[c] = r /\ \A d \in Callers \ {c} : caller'[d] = caller[d]
    BY CallerAfter
<1>2. ASSUME NEW t \in Told(p, s)' PROVE t \in Told(p, s)
    <2>1. /\ t \in Tasks /\ ProjectOf[t[1]] = p /\ HasStatus(t, s)'
          /\ \A d \in Callers : ~Tells(caller'[d], t, s)
        BY <1>2 DEF Told, Tells
    <2>2. ~Tells(r, t, s)
        BY <1>1, <2>1
    <2>3. table'[t].status = table[t].status
        BY <2>1, <2>2 DEF StatusKept
    <2>4. HasStatus(t, s)
        BY <2>1, <2>3 DEF HasStatus
    <2>5. ~Tells(caller[c], t, s)
        BY DEF Tells
    <2>6. \A d \in Callers : ~Tells(caller[d], t, s)
        BY <1>1, <2>1, <2>5
    <2> QED
        BY <2>1, <2>4, <2>6 DEF Told
<1>3. Counted(p, s)' = Counted(p, s)
    BY CountedStays
<1>4. (\A d \in Of(p) : ~At(d, "error"))' => \A d \in Of(p) : ~At(d, "error")
    BY <1>1 DEF Of, At
<1> QED
    BY <1>2, <1>3, <1>4, FewerTold DEF TallyInv

LEMMA BusyTells ==
    ASSUME PipeInv, TallyInv, NEW c \in Callers, NEW r, Busy(c, r)
    PROVE  TallyInv'
BY NothingToTell DEF Busy, Same

LEMMA StillTells ==
    ASSUME PipeInv, TallyInv, NEW c \in Callers, NEW r, Becomes(c, r), UNCHANGED table,
           SameTallies(caller[c], r), caller[c].phase \notin {"report", "error"}
    PROVE  TallyInv'
BY NothingToTell DEF StatusKept

LEMMA BusyKeeps ==
    ASSUME PipeInv, WorkInv, NEW c \in Callers, NEW r, Busy(c, r)
    PROVE  WorkInv'
BY BusyWatches, BusyOwns, BusyTells DEF WorkInv

\* The busy steps, as they change their caller's record
LEMMA PhaseOf ==
    ASSUME NEW m \in CallerRecords, NEW p, NEW r, r = [m EXCEPT !.phase = p]
    PROVE  r.phase = p /\ Same(m, r)
BY DEF CallerRecords, Same, SameTallies

LEMMA ReportIs ==
    ASSUME NEW m \in CallerRecords, NEW v, NEW r, r = ReportOf(m, v)
    PROVE  r.phase = "report" /\ r.verdict = v /\ Same(m, r)
BY DEF CallerRecords, ReportOf, Same, SameTallies

LEMMA JudgeIs ==
    ASSUME NEW m \in CallerRecords, NEW p, NEW o, NEW r, r = JudgeOf(m, p, o)
    PROVE  r.phase = p /\ Same(m, r)
BY DEF CallerRecords, JudgeOf, Same, SameTallies

LEMMA NextIs ==
    ASSUME NEW m \in CallerRecords, NEW r, r = NextOf(m)
    PROVE  r.phase \in {"plan", "create"} /\ Same(m, r)
BY DEF CallerRecords, NextOf, Same, SameTallies

LEMMA StillBusy ==
    ASSUME NEW c \in Callers, NEW r, Becomes(c, r), Same(caller[c], r), UNCHANGED table,
           caller[c].phase \notin {"report", "error"}, r.phase \notin {"idle", "second"}
    PROVE  Busy(c, r)
BY DEF Busy, StatusKept

LEMMA WritesBusy ==
    ASSUME PipeInv, NEW c \in Callers, NEW r, Becomes(c, r), Same(caller[c], r),
           NEW t \in Tasks, ProjectOf[t[1]] = ProjectOf[c], NEW x, NEW o, Store(t, x, o),
           \A s \in Verdicts : x = s => Tells(r, t, s),
           caller[c].phase \notin {"report", "error"}, r.phase \notin {"idle", "second"}
    PROVE  Busy(c, r)
<1>1. table' = [u \in Tasks |-> IF u = t THEN Row(x, o) ELSE table[u]]
    BY DEF PipeInv, RowInv, Store
<1>2. table'[t].status = x /\ \A u \in Tasks \ {t} : table'[u] = table[u]
    BY <1>1 DEF Row
<1> QED
    BY <1>2 DEF Busy, StatusKept, HasStatus

LEMMA PlannerBusy ==
    ASSUME PipeInv, NEW c \in Callers,
           CreateRoot(c) \/ CreateSubtask(c) \/ Activate(c) \/ PlanRoot(c) \/ SkipsStep(c)
    PROVE  \E r : Busy(c, r)
<1> PICK m : m = caller[c]
    OBVIOUS
<1>1. CallerOK(c, m) /\ m \in CallerRecords
    BY CallerIs DEF CallerOK
<1>2. m.phase \notin {"report", "error"}
    BY DEF CreateRoot, CreateSubtask, Activate, PlanRoot, SkipsStep, At
<1>3. Root(c) \in Tasks /\ Root(c)[1] = c
    BY TasksAre, StepsAre DEF Root
<1>4. m.step <= Steps => Subtask(c) \in Tasks /\ Subtask(c)[1] = c
    <2>1. m.step \in 1..(Steps + 1)
        BY <1>1 DEF CallerRecords
    <2>2. m.step <= Steps => m.step \in 0..Steps
        BY <2>1, StepsAre
    <2> QED
        BY <2>2, TasksAre DEF Subtask
<1>5. m.phase \in {"create", "activate"} => m.step <= Steps
    BY <1>1 DEF CallerOK, Planning
<1>6. CASE CreateRoot(c) \/ PlanRoot(c)
    <2>1. PICK q, x, o : /\ q \in {"create", "first"} /\ x \in {"pending", "planned"}
                         /\ Store(Root(c), x, o) /\ Go(c, q)
        BY <1>6 DEF CreateRoot, CreateTask, PlanRoot
    <2>2. PICK r : r = [m EXCEPT !.phase = q]
        OBVIOUS
    <2>3. r.phase = q /\ Same(m, r)
        BY <1>1, <2>2, PhaseOf
    <2> QED
        BY <1>2, <1>3, <2>1, <2>2, <2>3, WritesBusy DEF Go, Verdicts
<1>7. CASE CreateSubtask(c)
    <2>1. Store(Subtask(c), "pending", "none") /\ Go(c, "activate") /\ m.phase = "create"
        BY <1>7 DEF CreateSubtask, CreateTask, At
    <2>2. PICK r : r = [m EXCEPT !.phase = "activate"]
        OBVIOUS
    <2>3. r.phase = "activate" /\ Same(m, r)
        BY <1>1, <2>2, PhaseOf
    <2> QED
        BY <1>2, <1>4, <1>5, <2>1, <2>2, <2>3, WritesBusy DEF Go, Verdicts
<1>8. CASE Activate(c)
    <2>1. Store(Subtask(c), "planned", "none") /\ m.phase = "activate"
        BY <1>8 DEF Activate, At
    <2>2. PICK r : r = NextOf(m)
        OBVIOUS
    <2>3. Becomes(c, r)
        BY <1>8, <2>2 DEF Activate, NextStep, NextOf
    <2>4. r.phase \in {"plan", "create"} /\ Same(m, r)
        BY <1>1, <2>2, NextIs
    <2> QED
        BY <1>2, <1>4, <1>5, <2>1, <2>3, <2>4, WritesBusy DEF Verdicts
<1>9. CASE SkipsStep(c)
    <2>1. PICK r : r = NextOf(m)
        OBVIOUS
    <2>2. Becomes(c, r) /\ UNCHANGED table
        BY <1>9, <2>1 DEF SkipsStep, NextStep, NextOf, dbVars
    <2>3. r.phase \in {"plan", "create"} /\ Same(m, r)
        BY <1>1, <2>1, NextIs
    <2> QED
        BY <1>2, <2>2, <2>3, StillBusy
<1> QED
    BY <1>6, <1>7, <1>8, <1>9

LEMMA QuietBusy ==
    ASSUME PipeInv, NEW c \in Callers,
           ChooseNode(c) \/ AdmitWork(c) \/ AdmitReview(c) \/ Learn(c) \/ AgentRaises(c)
    PROVE  \E r : Busy(c, r)
<1> PICK m : m = caller[c]
    OBVIOUS
<1>1. m \in CallerRecords
    BY CallerIs DEF CallerOK
<1>2. m.phase \notin {"report", "error"} /\ UNCHANGED table
    BY DEF ChooseNode, AdmitWork, AdmitReview, Learn, AgentRaises, At, dbVars
<1>3. ASSUME NEW q \in {"no_node", "admit_work", "store_failure", "store_result", "complete"},
             Go(c, q)
      PROVE  \E r : Busy(c, r)
    <2>1. PICK r : r = [m EXCEPT !.phase = q]
        OBVIOUS
    <2>2. r.phase = q /\ Same(m, r)
        BY <1>1, <2>1, PhaseOf
    <2> QED
        BY <1>2, <1>3, <2>1, <2>2, StillBusy DEF Go
<1>4. ASSUME NEW v, Reports(c, v) PROVE \E r : Busy(c, r)
    <2>1. PICK r : r = ReportOf(m, v)
        OBVIOUS
    <2>2. r.phase = "report" /\ Same(m, r)
        BY <1>1, <2>1, ReportIs
    <2>3. Becomes(c, r)
        BY <1>4, <2>1 DEF Reports, ReportOf
    <2> QED
        BY <1>2, <2>2, <2>3, StillBusy
<1>5. ASSUME NEW q \in {"learn", "reject"}, NEW o, Becomes(c, JudgeOf(m, q, o))
      PROVE  \E r : Busy(c, r)
    <2>1. PICK r : r = JudgeOf(m, q, o)
        OBVIOUS
    <2>2. r.phase = q /\ Same(m, r)
        BY <1>1, <2>1, JudgeIs
    <2> QED
        BY <1>2, <1>5, <2>1, <2>2, StillBusy
<1>6. CASE ChooseNode(c)
    <2>1. PICK q \in {"no_node", "admit_work"} : Go(c, q)
        BY <1>6 DEF ChooseNode
    <2> QED
        BY <1>3, <2>1
<1>7. CASE AdmitWork(c)
    <2>1. (\E q \in {"store_failure", "store_result"} : Go(c, q)) \/ Reports(c, "none")
        BY <1>7 DEF AdmitWork
    <2> QED
        BY <1>3, <1>4, <2>1
<1>8. CASE AdmitReview(c)
    <2>1. PICK o, q :
            /\ o = table[Task(c)].output
            /\ q = (IF Evaluate(Task(c), o) THEN "learn" ELSE "reject")
        OBVIOUS
    <2>2. Becomes(c, JudgeOf(m, q, o)) \/ Reports(c, "none")
        BY <1>8, <2>1 DEF AdmitReview, JudgeOf
    <2> QED
        BY <1>4, <1>5, <2>1, <2>2
<1>9. CASE Learn(c)
    BY <1>3, <1>9 DEF Learn
<1>10. CASE AgentRaises(c)
    BY <1>4, <1>10 DEF AgentRaises
<1> QED
    BY <1>6, <1>7, <1>8, <1>9, <1>10

LEMMA AgentsBusy ==
    ASSUME PipeInv, OwnProject, NEW c \in Callers,
           StoreResult(c) \/ StoreFailure(c) \/ Complete(c) \/ Reject(c)
    PROVE  \E r : Busy(c, r)
<1> PICK m : m = caller[c]
    OBVIOUS
<1> PICK t : t = Task(c)
    OBVIOUS
<1>1. m \in CallerRecords /\ m.task = t
    BY CallerIs DEF CallerOK, Task
<1>2. m.phase \in Dispatching \ {"report"} /\ m.phase \notin {"report", "error"}
    BY DEF StoreResult, StoreFailure, Complete, Reject, At, Dispatching
<1>3. t \in Tasks
    BY <1>2, HeldTask
<1>4. ProjectOf[t[1]] = ProjectOf[c]
    BY <1>3 DEF OwnProject
<1>5. PICK x, o, v : /\ Store(t, x, o) /\ Reports(c, v)
                     /\ \A s \in Verdicts : x = s => v \in {s, "raised"}
    <2>1. CASE StoreResult(c)
        BY <2>1 DEF StoreResult, Returns, Verdicts
    <2>2. CASE StoreFailure(c)
        <3>1. FailureStatus(t) \notin Verdicts
            BY DEF FailureStatus, Verdicts
        <3>2. PICK v : Reports(c, v)
            BY <2>2 DEF StoreFailure, Returns
        <3>3. Store(t, FailureStatus(t), "words")
            BY <2>2 DEF StoreFailure
        <3> QED
            BY <3>1, <3>2, <3>3
    <2>3. CASE Complete(c)
        BY <2>3 DEF Complete, Returns, Verdicts
    <2>4. CASE Reject(c)
        BY <2>4 DEF Reject, Returns, Verdicts
    <2> QED
        BY <2>1, <2>2, <2>3, <2>4
<1>6. PICK r : r = ReportOf(m, v)
    OBVIOUS
<1>7. r.phase = "report" /\ r.verdict = v /\ Same(m, r)
    BY <1>1, <1>6, ReportIs
<1>8. Becomes(c, r)
    BY <1>5, <1>6 DEF Reports, ReportOf
<1>9. \A s \in Verdicts : x = s => Tells(r, t, s)
    BY <1>1, <1>5, <1>7 DEF Tells, Same
<1> QED
    BY <1>2, <1>3, <1>4, <1>5, <1>7, <1>8, <1>9, WritesBusy

\* The searches, a report and a failure
LEMMA ForemostOr ==
    ASSUME RowInv, NEW S \in SUBSET Tasks, \A t \in S : Planned(t)
    PROVE  IF S = {} THEN Foremost(S) = NoTask ELSE Foremost(S) \in S
<1>1. CASE S = {}
    BY <1>1 DEF Foremost
<1>2. CASE S # {}
    <2>1. \A t \in S : ~HasStatus(t, "absent")
        BY DEF Planned, HasStatus
    <2> QED
        BY <1>2, <2>1, ForemostIn
<1> QED
    BY <1>1, <1>2

LEMMA WatchesOn ==
    ASSUME PipeInv, WatchInv, NEW c \in Callers, NEW r, Becomes(c, r), UNCHANGED table,
           \A t \in Tasks :
               Dispatchable(t) /\ ProjectOf[c] = ProjectOf[t[1]] /\ Watches(caller[c], t)
                   => Watches(r, t)
    PROVE  WatchInv'
<1> SUFFICES ASSUME NEW t \in Tasks, Dispatchable(t)'
             PROVE  \E d \in Callers :
                        ProjectOf[d] = ProjectOf[t[1]] /\ Watches(caller[d], t)'
    BY DEF WatchInv
<1>1. Dispatchable(t)
    BY DEF Dispatchable
<1>2. PICK d \in Callers : ProjectOf[d] = ProjectOf[t[1]] /\ Watches(caller[d], t)
    BY <1>1 DEF WatchInv
<1>3. PICK m : m = caller'[d]
    OBVIOUS
<1>4. Watches(m, t)
    <2>1. CASE d = c
        BY <1>1, <1>2, <1>3, <2>1, CallerAfter
    <2>2. CASE d # c
        BY <1>2, <1>3, <2>2, CallerAfter
    <2> QED
        BY <2>1, <2>2
<1>5. Watches(caller[d], t)'
    BY <1>3, <1>4 DEF Watches, HasStatus
<1> QED
    BY <1>2, <1>5

LEMMA OwnsOn ==
    ASSUME PipeInv, OwnProject, NEW c \in Callers, NEW r, Becomes(c, r),
           r.task \in Tasks => ProjectOf[r.task[1]] = ProjectOf[c]
    PROVE  OwnProject'
<1> SUFFICES ASSUME NEW d \in Callers, caller'[d].task \in Tasks
             PROVE  ProjectOf[caller'[d].task[1]] = ProjectOf[d]
    BY DEF OwnProject, Task
<1>1. CASE d = c
    BY <1>1, CallerAfter
<1>2. CASE d # c
    <2>1. caller'[d] = caller[d]
        BY <1>2, CallerAfter
    <2> QED
        BY <2>1 DEF OwnProject, Task
<1> QED
    BY <1>1, <1>2

LEMMA FirstSearchWorks ==
    ASSUME PipeInv, WorkInv, NEW c \in Callers, FirstSearch(c) PROVE WorkInv'
<1> PICK m : m = caller[c]
    OBVIOUS
<1> PICK S : S = Listed(c, FirstQuery)
    OBVIOUS
<1> PICK f : f = Foremost(S)
    OBVIOUS
<1> PICK r : r = [m EXCEPT !.phase = "second", !.task = f]
    OBVIOUS
<1>1. m \in CallerRecords /\ m.phase = "first"
    BY CallerIs DEF CallerOK, FirstSearch, At
<1>2. r.phase = "second" /\ r.task = f /\ SameTallies(m, r)
    BY <1>1 DEF CallerRecords, SameTallies
<1>3. Becomes(c, r) /\ UNCHANGED table
    BY DEF FirstSearch, dbVars
<1>4. IF S = {} THEN f = NoTask ELSE f \in S
    <2>1. S \in SUBSET Tasks /\ \A t \in S : Planned(t)
        BY ConstantsOK, ListedPlanned
    <2> QED
        BY <2>1, ForemostOr DEF PipeInv
<1>5. \A t \in S : t \in Tasks /\ ProjectOf[t[1]] = ProjectOf[c]
    BY DEF Listed
<1>6. OwnProject'
    <2>1. f \in Tasks => ProjectOf[f[1]] = ProjectOf[c]
        BY <1>4, <1>5, ConstantsOK
    <2> QED
        BY <1>2, <1>3, <2>1, OwnsOn DEF WorkInv
<1>7. WatchInv'
    <2>1. ASSUME NEW t \in Tasks, ProjectOf[c] = ProjectOf[t[1]] PROVE Watches(r, t)
        <3>1. HasStatus(t, FirstQuery) => t \in S
            BY <2>1 DEF Listed, HasStatus
        <3>2. HasStatus(t, FirstQuery) => r.task # NoTask
            BY <1>2, <1>4, <1>5, <3>1, ConstantsOK
        <3> QED
            BY <1>2, <3>2 DEF Watches
    <2> QED
        BY <1>3, <2>1, WatchesOn DEF WorkInv
<1>8. TallyInv'
    BY <1>1, <1>2, <1>3, StillTells DEF WorkInv
<1> QED
    BY <1>6, <1>7, <1>8 DEF WorkInv

LEMMA SecondSearchWorks ==
    ASSUME PipeInv, WorkInv, NEW c \in Callers, SecondSearch(c) PROVE WorkInv'
<1> PICK m : m = caller[c]
    OBVIOUS
<1> PICK L : L = Listed(c, SecondQuery)
    OBVIOUS
<1> PICK S : S = ({m.task} \ {NoTask}) \cup L
    OBVIOUS
<1> PICK f : f = Foremost(S)
    OBVIOUS
<1> PICK p : p = IF f = NoTask THEN "idle"
                 ELSE Route(IF f = m.task THEN FirstQuery ELSE SecondQuery)
    OBVIOUS
<1> PICK r : r = [m EXCEPT !.task = f, !.phase = p]
    OBVIOUS
<1>1. CallerOK(c, m) /\ m \in CallerRecords /\ m.phase = "second" /\ m.task = Task(c)
    BY CallerIs DEF CallerOK, SecondSearch, At, Task
<1>2. r.phase = p /\ r.task = f /\ SameTallies(m, r)
    BY <1>1 DEF CallerRecords, SameTallies
<1>3. Becomes(c, r) /\ UNCHANGED table
    BY DEF SecondSearch, Task, dbVars
<1>4. \A t \in S : t \in Tasks /\ ProjectOf[t[1]] = ProjectOf[c]
    <2>1. m.task \in Tasks \cup {NoTask}
        BY <1>1 DEF CallerRecords
    <2>2. m.task \in Tasks => ProjectOf[m.task[1]] = ProjectOf[c]
        BY <1>1 DEF WorkInv, OwnProject
    <2>3. \A t \in L : t \in Tasks /\ ProjectOf[t[1]] = ProjectOf[c]
        BY DEF Listed
    <2> QED
        BY <2>1, <2>2, <2>3
<1>5. IF S = {} THEN f = NoTask ELSE f \in S
    <2>1. SecondQuery \in {"planned", "review_pending"}
        BY DEF SecondQuery
    <2>2. m.task = NoTask \/ Planned(m.task)
        BY <1>1 DEF CallerOK, InHand
    <2>3. S \in SUBSET Tasks /\ \A t \in S : Planned(t)
        BY <1>4, <2>1, <2>2, ListedPlanned
    <2> QED
        BY <2>3, ForemostOr DEF PipeInv
<1>6. OwnProject'
    <2>1. f \in Tasks => ProjectOf[f[1]] = ProjectOf[c]
        BY <1>4, <1>5, ConstantsOK
    <2> QED
        BY <1>2, <1>3, <2>1, OwnsOn DEF WorkInv
<1>7. p \in {"idle", "choose", "admit_review"} /\ (p = "idle" => S = {})
    BY <1>4, <1>5, ConstantsOK DEF Route
<1>8. WatchInv'
    <2>1. ASSUME NEW t \in Tasks, Dispatchable(t), ProjectOf[c] = ProjectOf[t[1]],
                 Watches(m, t)
          PROVE  Watches(r, t)
        <3>1. CASE p # "idle"
            BY <1>2, <1>7, <3>1 DEF Watches
        <3>2. CASE p = "idle"
            <4>1. S = {} /\ L = {} /\ m.task = NoTask
                BY <1>7, <3>2
            <4>2. ~HasStatus(t, FirstQuery)
                BY <1>1, <2>1, <4>1 DEF Watches
            <4>3. HasStatus(t, SecondQuery)
                BY <2>1, <4>2, ConstantsOK DEF Dispatchable, HasStatus, SecondQuery
            <4>4. t \in L
                BY <2>1, <4>3 DEF Listed, HasStatus
            <4> QED
                BY <4>1, <4>4
        <3> QED
            BY <3>1, <3>2
    <2> QED
        BY <1>3, <2>1, WatchesOn DEF WorkInv
<1>9. TallyInv'
    BY <1>1, <1>2, <1>3, StillTells, <1>7 DEF WorkInv
<1> QED
    BY <1>6, <1>8, <1>9 DEF WorkInv

LEMMA CallerFailsWorks ==
    ASSUME PipeInv, WorkInv, NEW c \in Callers, CallerFails(c) PROVE WorkInv'
<1> PICK m : m = caller[c]
    OBVIOUS
<1> PICK r : r = [m EXCEPT !.phase = "error"]
    OBVIOUS
<1>1. m \in CallerRecords /\ m.phase # "error" /\ m.task = Task(c)
    BY CallerIs DEF CallerOK, CallerFails, At, Task
<1>2. r.phase = "error" /\ Same(m, r)
    BY <1>1, PhaseOf
<1>3. Becomes(c, r) /\ UNCHANGED table
    BY DEF CallerFails, Go, dbVars
<1>4. OwnProject'
    <2>1. r.task \in Tasks => ProjectOf[r.task[1]] = ProjectOf[c]
        BY <1>1, <1>2 DEF WorkInv, OwnProject, Same
    <2> QED
        BY <1>3, <2>1, OwnsOn DEF WorkInv
<1>5. WatchInv'
    BY <1>2, <1>3, WatchesOn DEF WorkInv, Watches
<1>6. TallyInv'
    <2> SUFFICES ASSUME NEW p \in Projects, NEW s \in Verdicts PROVE TallyOf(p, s)'
        BY DEF TallyInv
    <2>1. Told(p, s)' \subseteq Told(p, s) \cup {m.task}
        BY <1>2, <1>3, ToldAfter
    <2>2. Counted(p, s)' = Counted(p, s)
        BY <1>2, <1>3, CountedStays DEF Same, SameTallies
    <2>3. TallyOf(p, s)
        BY DEF WorkInv, TallyInv
    <2>4. CASE c \in Of(p)
        <3>1. ~(\A d \in Of(p) : ~At(d, "error"))'
            BY <1>2, <1>3, <2>4, CallerAfter DEF At, Of
        <3>2. IsFiniteSet(Told(p, s)')
            <4>1. PICK S, T : S = Told(p, s) /\ T = Told(p, s)'
                OBVIOUS
            <4>2. IsFiniteSet(S \cup {m.task}) /\ T \in SUBSET (S \cup {m.task})
                BY <2>1, <2>3, <4>1, FS_AddElement DEF TallyOf
            <4> QED
                BY <4>1, <4>2, FS_Subset
        <3> QED
            BY <2>2, <2>3, <3>1, <3>2 DEF TallyOf
    <2>5. CASE c \notin Of(p)
        <3>1. \A t \in Told(p, s)' : t \in Tasks /\ ProjectOf[t[1]] = p
            BY DEF Told
        <3>2. m.task \notin Told(p, s)'
            BY <1>1, <2>5, <3>1 DEF WorkInv, OwnProject, Of
        <3>3. Told(p, s)' \subseteq Told(p, s)
            BY <2>1, <3>2
        <3>4. (\A d \in Of(p) : ~At(d, "error"))' => \A d \in Of(p) : ~At(d, "error")
            BY <1>3, <2>5, CallerAfter DEF At, Of
        <3> QED
            BY <2>2, <2>3, <3>3, <3>4, FewerTold
    <2> QED
        BY <2>4, <2>5
<1> QED
    BY <1>4, <1>5, <1>6 DEF WorkInv

\* One more is counted, and at most one more is no longer to be counted.
LEMMA OneMoreTold ==
    ASSUME NEW p, NEW s, TallyOf(p, s), NEW t, NEW e,
           Told(p, s)' \subseteq Told(p, s) \cup {t},
           Counted(p, s)' = Counted(p, s) \cup {e}, e \notin Counted(p, s),
           (\A c \in Of(p) : ~At(c, "error"))' => \A c \in Of(p) : ~At(c, "error")
    PROVE  TallyOf(p, s)'
<1>1. PICK S : S = Told(p, s)
    OBVIOUS
<1>2. PICK T : T = Told(p, s)'
    OBVIOUS
<1>3. PICK C : C = Counted(p, s)
    OBVIOUS
<1>4. IsFiniteSet(S) /\ IsFiniteSet(C) /\ T \in SUBSET (S \cup {t}) /\ e \notin C
    BY <1>1, <1>2, <1>3 DEF TallyOf
<1>5. /\ IsFiniteSet(S \cup {t})
      /\ Cardinality(S \cup {t}) = IF t \in S THEN Cardinality(S) ELSE Cardinality(S) + 1
    BY <1>4, FS_AddElement
<1>6. IsFiniteSet(T) /\ Cardinality(T) <= Cardinality(S \cup {t})
    BY <1>4, <1>5, FS_Subset
<1>7. IsFiniteSet(C \cup {e}) /\ Cardinality(C \cup {e}) = Cardinality(C) + 1
    BY <1>4, FS_AddElement
<1>8. Cardinality(S) \in Nat /\ Cardinality(T) \in Nat /\ Cardinality(C) \in Nat
    BY <1>4, <1>6, FS_CardinalityType
<1>9. (\A c \in Of(p) : ~At(c, "error")) => Cardinality(S) <= Cardinality(C)
    BY <1>1, <1>3 DEF TallyOf
<1>10. (\A c \in Of(p) : ~At(c, "error"))' => Cardinality(T) <= Cardinality(C \cup {e})
    BY <1>5, <1>6, <1>7, <1>8, <1>9
<1> QED
    BY <1>2, <1>3, <1>6, <1>7, <1>10 DEF TallyOf

\* A tally that grows adds one element to what is counted.
LEMMA CountedGrows ==
    ASSUME PipeInv, NEW c \in Callers, NEW p, c \in Of(p), NEW s, NEW n \in Nat,
           Tally(c, s) = n, Tally(c, s)' = n + 1,
           \A d \in Callers \ {c} : Tally(d, s)' = Tally(d, s)
    PROVE  /\ Counted(p, s)' = Counted(p, s) \cup {<<c, n + 1>>}
           /\ <<c, n + 1>> \notin Counted(p, s)
<1>1. 1..(n + 1) = (1..n) \cup {n + 1}
    OBVIOUS
<1>2. Of(p)' = Of(p) /\ Of(p) \subseteq Callers
    BY DEF Of
<1>3. ASSUME NEW x PROVE x \in Counted(p, s)' <=> x \in Counted(p, s) \cup {<<c, n + 1>>}
    <2>1. x \in Counted(p, s)' <=>
              \E d \in Of(p) : \E k \in 1..Tally(d, s)' : x = <<d, k>>
        BY <1>2 DEF Counted
    <2>2. x \in Counted(p, s) <=> \E d \in Of(p) : \E k \in 1..Tally(d, s) : x = <<d, k>>
        BY DEF Counted
    <2>3. ASSUME NEW d \in Of(p), d # c PROVE Tally(d, s)' = Tally(d, s)
        BY <1>2, <2>3
    <2>4. (\E k \in 1..Tally(c, s)' : x = <<c, k>>) <=>
              (\E k \in 1..Tally(c, s) : x = <<c, k>>) \/ x = <<c, n + 1>>
        BY <1>1
    <2> QED
        BY <2>1, <2>2, <2>3, <2>4
<1>4. <<c, n + 1>> \notin Counted(p, s)
    <2>1. \A d, k : <<d, k>> = <<c, n + 1>> => d = c /\ k = n + 1
        OBVIOUS
    <2>2. n + 1 \notin 1..n
        OBVIOUS
    <2> QED
        BY <2>1, <2>2 DEF Counted
<1> QED
    BY <1>3, <1>4

LEMMA CountIs ==
    ASSUME NEW m \in CallerRecords, NEW k, NEW x, NEW y, NEW q, NEW r,
           r = CountOf(m, k, x, y, q)
    PROVE  /\ r.phase = q /\ r.task = NoTask
           /\ r.completed = x /\ r.rejected = y
BY DEF CallerRecords, CountOf

LEMMA ReportWorks ==
    ASSUME PipeInv, WorkInv, NEW c \in Callers, Report(c) PROVE WorkInv'
<1> PICK m : m = caller[c]
    OBVIOUS
<1>1. PICK x, y, k, q :
        /\ x = (IF Final(c) = "completed" THEN m.completed + 1 ELSE m.completed)
        /\ y = (IF Final(c) = "rejected" THEN m.rejected + 1 ELSE m.rejected)
        /\ k = m.tried + 1
        /\ q = (IF k = MaxIterations THEN "spent" ELSE "first")
    OBVIOUS
<1> PICK r : r = CountOf(m, k, x, y, q)
    OBVIOUS
<1>2. m \in CallerRecords /\ m.phase = "report" /\ m.task = Task(c) /\ m.task \in Tasks
    BY CallerIs, HeldTask DEF CallerOK, Report, At, Task, Dispatching
<1>3. r.phase = q /\ r.task = NoTask /\ r.completed = x /\ r.rejected = y
    BY <1>2, CountIs
<1>4. Becomes(c, r) /\ UNCHANGED table
    BY <1>1 DEF Report, CountOf, dbVars
<1>5. q \in {"spent", "first"}
    BY <1>1
<1>6. OwnProject'
    BY <1>3, <1>4, OwnsOn, ConstantsOK DEF WorkInv
<1>7. WatchInv'
    BY <1>3, <1>4, <1>5, WatchesOn DEF WorkInv, Watches
<1>8. TallyInv'
    <2> SUFFICES ASSUME NEW p \in Projects, NEW s \in Verdicts PROVE TallyOf(p, s)'
        BY DEF TallyInv
    <2>1. caller'[c] = r /\ \A d \in Callers \ {c} : caller'[d] = caller[d]
        BY <1>4, CallerAfter
    <2>2. Told(p, s)' \subseteq Told(p, s) \cup {m.task}
        BY <1>3, <1>4, <1>5, ToldAfter
    <2>3. TallyOf(p, s)
        BY DEF WorkInv, TallyInv
    <2>4. (\A d \in Of(p) : ~At(d, "error"))' => \A d \in Of(p) : ~At(d, "error")
        BY <1>2, <2>1 DEF At, Of
    <2>5. \A d \in Callers \ {c} : Tally(d, s)' = Tally(d, s)
        BY <2>1 DEF Tally
    <2>6. PICK n \in Nat : n = Tally(c, s)
        BY <1>2 DEF Tally, CallerRecords
    <2>7. Tally(c, s)' = IF Final(c) = s THEN n + 1 ELSE n
        BY <1>1, <1>3, <2>1, <2>6 DEF Tally, Verdicts
    <2>8. CASE c \in Of(p) /\ Final(c) = s
        <3>1. PICK e : e = <<c, n + 1>>
            OBVIOUS
        <3>2. Counted(p, s)' = Counted(p, s) \cup {e} /\ e \notin Counted(p, s)
            <4>1. Tally(c, s) = n /\ Tally(c, s)' = n + 1 /\ c \in Of(p)
                BY <2>6, <2>7, <2>8
            <4>2. /\ Counted(p, s)' = Counted(p, s) \cup {<<c, n + 1>>}
                  /\ <<c, n + 1>> \notin Counted(p, s)
                BY <2>5, <4>1, CountedGrows
            <4> QED
                BY <3>1, <4>2
        <3> QED
            BY <2>2, <2>3, <2>4, <3>2, OneMoreTold
    <2>9. CASE c \notin Of(p) \/ Final(c) # s
        <3>1. \A d \in Of(p) : d \in Callers /\ Tally(d, s)' = Tally(d, s)
            BY <2>5, <2>6, <2>7, <2>9 DEF Of
        <3>2. Counted(p, s)' = Counted(p, s)
            BY <3>1 DEF Counted, Of
        <3>3. m.task \notin Told(p, s)' \/ m.task \in Told(p, s)
            <4> SUFFICES ASSUME m.task \in Told(p, s)' PROVE m.task \in Told(p, s)
                OBVIOUS
            <4>1. /\ ProjectOf[m.task[1]] = p /\ HasStatus(m.task, s)
                  /\ \A d \in Callers : ~Tells(caller'[d], m.task, s)
                BY <1>4 DEF Told, HasStatus, Tells
            <4>2. c \in Of(p)
                BY <1>2, <4>1 DEF WorkInv, OwnProject, Of
            <4>3. m.verdict \notin {s, "raised"}
                BY <1>2, <2>9, <4>1, <4>2 DEF Final, HasStatus
            <4>4. \A d \in Callers : ~Tells(caller[d], m.task, s)
                BY <2>1, <4>1, <4>3 DEF Tells
            <4> QED
                BY <1>2, <4>1, <4>4 DEF Told
        <3>4. Told(p, s)' \subseteq Told(p, s)
            BY <2>2, <3>3
        <3> QED
            BY <2>3, <2>4, <3>2, <3>4, FewerTold
    <2> QED
        BY <2>8, <2>9
<1> QED
    BY <1>6, <1>7, <1>8 DEF WorkInv

LEMMA WorkStep ==
    PipeInv /\ WorkInv /\ [Next]_vars => WorkInv'
<1> SUFFICES ASSUME PipeInv, WorkInv, [Next]_vars PROVE WorkInv'
    OBVIOUS
<1>1. ASSUME NEW c \in Callers, CallerStep(c) PROVE WorkInv'
    <2>1. ASSUME NEW r, Busy(c, r) PROVE WorkInv'
        BY <2>1, BusyKeeps
    <2>2. OwnProject
        BY DEF WorkInv
    <2> QED
        BY <1>1, <2>1, <2>2, PlannerBusy, QuietBusy, AgentsBusy, FirstSearchWorks,
           SecondSearchWorks, ReportWorks, CallerFailsWorks DEF CallerStep
<1>2. CASE UNCHANGED <<table, caller>>
    <2>1. OwnProject' /\ WatchInv'
        BY <1>2 DEF WorkInv, OwnProject, Task, WatchInv, Watches, Dispatchable, HasStatus
    <2>2. TallyInv'
        BY <1>2 DEF WorkInv, TallyInv, TallyOf, Told, HasStatus, Counted, Tally, At, Of
    <2> QED
        BY <2>1, <2>2 DEF WorkInv
<1>3. NodeLost \/ NodeBack \/ UNCHANGED vars => UNCHANGED <<table, caller>>
    BY DEF NodeLost, NodeBack, vars, dbVars
<1> QED
    BY <1>1, <1>2, <1>3 DEF Next

LEMMA InitWork == Init => WorkInv
<1> SUFFICES ASSUME Init PROVE WorkInv
    OBVIOUS
<1>1. \A t \in Tasks : table[t].status = "absent"
    BY DEF Init, Row
<1>2. \A c \in Callers : /\ caller[c].phase = "start" /\ caller[c].task = NoTask
                         /\ caller[c].completed = 0 /\ caller[c].rejected = 0
    BY DEF Init
<1>3. OwnProject /\ WatchInv
    BY <1>1, <1>2, ConstantsOK DEF OwnProject, Task, WatchInv, Dispatchable
<1>4. ASSUME NEW p \in Projects, NEW s \in Verdicts PROVE TallyOf(p, s)
    <2>1. Told(p, s) = {}
        BY <1>1 DEF Told, HasStatus, Verdicts
    <2>2. \A c \in Of(p) : 1..Tally(c, s) = {}
        BY <1>2 DEF Of, Tally
    <2>3. Counted(p, s) = {}
        BY <2>2 DEF Counted
    <2>4. Cardinality({}) = 0
        BY FS_EmptySet
    <2> QED
        BY <2>1, <2>3, <2>4, FS_EmptySet DEF TallyOf
<1> QED
    BY <1>3, <1>4 DEF WorkInv, TallyInv

\* A task that may be dispatched is watched by a caller of its project, a caller
\* takes up tasks of its own project only, and as long as no caller has raised,
\* what was judged is counted or about to be (coordinator.py:135-144).
THEOREM WorkInvariant == Spec => []WorkInv
BY InitWork, WorkStep, PipelineInvariant, PTL DEF Spec

\* When the callers of a project have all stopped for want of work, no task of
\* theirs is left to be dispatched, although each went by two queries that are
\* no snapshot (coordinator.py:135).
THEOREM NoTaskLeftBehind == Spec => []NothingLeftBehind
<1>1. WorkInv => NothingLeftBehind
    <2> SUFFICES ASSUME WorkInv, NEW p \in Projects, \A c \in Of(p) : At(c, "idle"),
                        NEW c \in Of(p),
                        NEW t \in Listed(c, "planned") \cup Listed(c, "review_pending")
                 PROVE  FALSE
        BY DEF NothingLeftBehind
    <2>1. t \in Tasks /\ ProjectOf[t[1]] = p /\ Dispatchable(t)
        BY DEF Listed, Dispatchable, Of
    <2>2. PICK d \in Callers : ProjectOf[d] = p /\ Watches(caller[d], t)
        BY <2>1 DEF WorkInv, WatchInv
    <2>3. At(d, "idle")
        BY <2>2 DEF Of
    <2> QED
        BY <2>2, <2>3 DEF Watches, At
<1> QED
    BY <1>1, WorkInvariant, PTL

\* When the callers of a project have all stopped for want of work, what they
\* counted is no less than what is judged, whatever raised on the way
\* (coordinator.py:250).
THEOREM SummariesAccount == Spec => []SummariesAddUp
<1>1. WorkInv => SummariesAddUp
    <2> SUFFICES ASSUME WorkInv, NEW p \in Projects, \A c \in Of(p) : At(c, "idle"),
                        NEW s \in Verdicts
                 PROVE  Cardinality(Counted(p, s)) >= Count(p, s)
        BY DEF SummariesAddUp, Verdicts
    <2>1. TallyOf(p, s) /\ \A c \in Of(p) : ~At(c, "error")
        BY DEF WorkInv, TallyInv, At
    <2>2. ASSUME NEW t \in Tasks, ProjectOf[t[1]] = p, NEW c \in Callers
          PROVE  ~Tells(caller[c], t, s)
        <3> SUFFICES ASSUME Tells(caller[c], t, s) PROVE FALSE
            OBVIOUS
        <3>1. ProjectOf[c] = p /\ caller[c].phase = "report"
            BY <2>2 DEF WorkInv, OwnProject, Task, Tells
        <3> QED
            BY <3>1 DEF Of, At
    <2>3. Told(p, s) = {t \in Tasks : ProjectOf[t[1]] = p /\ HasStatus(t, s)}
        BY <2>2 DEF Told
    <2>4. Cardinality(Told(p, s)) <= Cardinality(Counted(p, s))
        BY <2>1 DEF TallyOf
    <2>5. Cardinality(Told(p, s)) \in Nat /\ Cardinality(Counted(p, s)) \in Nat
        BY <2>1, FS_CardinalityType DEF TallyOf
    <2> QED
        BY <2>3, <2>4, <2>5 DEF Count
<1> QED
    BY <1>1, WorkInvariant, PTL
===============================================================================
