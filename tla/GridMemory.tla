------------------------------ MODULE GridMemory ------------------------------
(***************************************************************************)
(* The table memory_entries and the two parties that keep it in order.     *)
(*                                                                         *)
(* The synchroniser (Grid/memory_sync.py, run by the reconciler's loop and *)
(* by the repair operations of Grid/reconciler.py) writes one entry for    *)
(* every completed task.  It holds a lock from reading the task to writing *)
(* the entry; what it decided before taking the lock, the batch and the    *)
(* backoff, may be stale by then.                                          *)
(*                                                                         *)
(* The compactor (compress_memory and summarize_memory of                  *)
(* memory_manager.py, over database.py) replaces old entries of little     *)
(* importance by digests: it reads the tasks with failures, then the       *)
(* candidates, then writes one transaction per group.  Nothing orders it   *)
(* with the synchroniser or with a second compaction.                      *)
(***************************************************************************)
EXTENDS Naturals, Sequences, SequencesExt, FiniteSets

CONSTANTS Tasks,
          Rank,          \* position of a task in list_tasks
          Syncers,       \* threads that synchronise
          Loop,          \* one of them: the reconciler's loop
          Compactors,    \* threads that compact
          Limit,         \* limit of sync_completed_tasks (100)
          CompressMin,   \* smallest group that is compressed (3)
          SummaryMin,    \* smallest group that is summarised (5)
          Notes,         \* entries the rest of the system may write: kind, task
          MayComplete,   \* tasks that may complete
          MayFail,       \* tasks that may get a row in failure_memory
          MaxCopies,     \* bound on rows of one kind about one task
          MaxDay,        \* bound on the calendar
          MaxFaults,     \* bound on failing statements, restarts, reopenings
          NoTask,        \* a NULL task_id
          NoSyncer       \* the lock is free

ASSUME ConstantsOK ==
    /\ Rank \in [Tasks -> Nat]
    /\ \A t, u \in Tasks : Rank[t] = Rank[u] => t = u
    /\ {Limit, CompressMin, SummaryMin, MaxCopies} \subseteq Nat \ {0}
    /\ Notes \subseteq {"intake", "result"} \X Tasks
    /\ MayComplete \subseteq Tasks
    /\ MayFail \subseteq Tasks
    /\ {MaxDay, MaxFaults} \subseteq Nat
    /\ NoTask \notin Tasks
    /\ Loop \in Syncers
    /\ NoSyncer \notin Syncers

VARIABLES
    completed,   \* tasks whose row says "completed"
    failing,     \* tasks with a row in failure_memory
    entries,     \* rows of memory_entries
    written,     \* the ids ever given to a row
    day,         \* the calendar, in units of older_than_days
    \* the synchroniser's process
    lock,        \* holder of _lock
    backlog,     \* keys of _failed_syncs, in insertion order
    waiting,     \* tasks of the backlog whose backoff has not elapsed
    syncer,      \* what each thread is doing
    \* the compactors
    compactor,
    \* bounds and observation
    faults,
    blind        \* look-ups of an existing entry that failed

dbVars   == <<completed, failing, entries, written, day>>
syncVars == <<lock, backlog, waiting, syncer>>
vars == <<completed, failing, entries, written, day, lock, backlog, waiting,
          syncer, compactor, faults, blind>>

\* "task_result" is the synchroniser's entry (tag grid_sync, score 1); "intake"
\* is written by grid_master (score 1), "result" by a worker (score 3).
Kinds == {"intake", "result", "task_result", "compressed", "summary", "archived"}

\* A row's id says what it was written as: kind, task and how many rows of that
\* kind and task there were.  holds: the rows a digest was made of, for
\* observation.
Ids  == [kind : Kinds, task : Tasks \cup {NoTask}, copy : 1..MaxCopies]
IsRow(e) ==
    /\ e = [id |-> e.id, kind |-> e.kind, day |-> e.day, holds |-> e.holds]
    /\ e.id \in Ids /\ e.kind \in Kinds /\ e.day \in 0..MaxDay /\ e.holds \subseteq Ids

Idle == [phase |-> "idle", queue |-> <<>>]
Rest == [phase |-> "idle", tier |-> "compress", protected |-> {}, found |-> {}]

TypeOK ==
    /\ completed \in SUBSET Tasks
    /\ failing \in SUBSET Tasks
    /\ \A e \in entries : IsRow(e)
    /\ \A e, f \in entries : e.id = f.id => e = f
    /\ written \in SUBSET Ids
    /\ day \in 0..MaxDay
    /\ lock \in Syncers \cup {NoSyncer}
    /\ ToSet(backlog) \in SUBSET Tasks /\ IsInjective(backlog)
    /\ waiting \in SUBSET ToSet(backlog)
    /\ syncer \in [Syncers -> [phase : {"idle", "batch", "wants", "looks", "writes"},
                               queue : Seq(Tasks)]]
    /\ compactor \in [Compactors ->
          [phase : {"idle", "protected", "writes"}, tier : {"compress", "summarize"},
           protected : SUBSET Tasks, found : {compactor[k].found : k \in Compactors}]]
    /\ \A k \in Compactors : \A e \in compactor[k].found : IsRow(e)
    /\ faults \in 0..MaxFaults
    /\ blind \in [Tasks -> Nat]

Init ==
    /\ completed = {} /\ failing = {} /\ entries = {}
    /\ written = {} /\ day = 0
    /\ lock = NoSyncer /\ backlog = <<>> /\ waiting = {}
    /\ syncer = [s \in Syncers |-> Idle]
    /\ compactor = [k \in Compactors |-> Rest]
    /\ faults = 0
    /\ blind = [t \in Tasks |-> 0]

Fault == faults < MaxFaults /\ faults' = faults + 1

Copies(kind, t) == {i \in written : i.kind = kind /\ i.task = t}

\* INSERT INTO memory_entries, after the changes the transaction makes to the
\* other rows.
Insert(kind, t, holds, others) ==
    LET n  == Cardinality(Copies(kind, t)) + 1
        id == [kind |-> kind, task |-> t, copy |-> n]
    IN  /\ n <= MaxCopies
        /\ entries' = others \cup
               {[id |-> id, kind |-> kind, day |-> day, holds |-> holds]}
        /\ written' = written \cup {id}

-----------------------------------------------------------------------------
(* The rest of the system *)

TaskCompletes(t) ==
    /\ t \in MayComplete \ completed
    /\ completed' = completed \cup {t}
    /\ UNCHANGED <<failing, entries, written, day, syncVars, compactor, faults, blind>>

\* A dispatcher reverts or reassigns a task whose result was recorded already.
TaskReopens(t) ==
    /\ t \in completed
    /\ Fault
    /\ completed' = completed \ {t}
    /\ UNCHANGED <<failing, entries, written, day, syncVars, compactor, blind>>

TaskFails(t) ==
    /\ t \in MayFail \ failing
    /\ failing' = failing \cup {t}
    /\ UNCHANGED <<completed, entries, written, day, syncVars, compactor, faults, blind>>

Remembers(t, kind) ==
    /\ <<kind, t>> \in Notes
    /\ Copies(kind, t) = {}
    /\ Insert(kind, t, {}, entries)
    /\ UNCHANGED <<completed, failing, day, syncVars, compactor, faults, blind>>

NextDay ==
    /\ day < MaxDay
    /\ day' = day + 1
    /\ UNCHANGED <<completed, failing, entries, written, syncVars, compactor, faults, blind>>

-----------------------------------------------------------------------------
(* Synchronising *)

Set(s, phase, queue) ==
    syncer' = [syncer EXCEPT ![s] = [phase |-> phase, queue |-> queue]]

Queue(s) == syncer[s].queue

Ahead(t) == Cardinality({u \in completed : Rank[u] < Rank[t]})

\* list_tasks(status="completed")[:limit]: synchronised ones included.
Batch ==
    LET size == Cardinality(completed) IN
    [n \in 1..(IF size < Limit THEN size ELSE Limit) |->
        CHOOSE t \in completed : Ahead(t) = n - 1]

\* A query that fails makes an empty batch: the call is over.
SyncCompleted(s) ==
    /\ syncer[s].phase = "idle"
    /\ \/ Batch # <<>> /\ Set(s, "batch", Batch) /\ UNCHANGED faults
       \/ Fault /\ UNCHANGED syncer
    /\ UNCHANGED <<dbVars, lock, backlog, waiting, compactor, blind>>

\* retry_failed_syncs copies the keys under the lock.  The loop never calls it.
RetryFailed(s) ==
    /\ s # Loop
    /\ syncer[s].phase = "idle"
    /\ lock = NoSyncer
    /\ backlog # <<>>
    /\ Set(s, "batch", backlog)
    /\ UNCHANGED <<dbVars, lock, backlog, waiting, compactor, faults, blind>>

\* (mutant: what failed once is left to the retries)
SkipsFailed(s) ==
    /\ syncer[s].phase = "batch"
    /\ IF Queue(s) = <<>> THEN Set(s, "idle", <<>>)
       ELSE IF Head(Queue(s)) \in ToSet(backlog) THEN Set(s, "batch", Tail(Queue(s)))
       ELSE Set(s, "wants", Queue(s))
    /\ UNCHANGED <<dbVars, lock, backlog, waiting, compactor, faults, blind>>

\* The next task of the batch: skipped within its backoff, which is tested
\* before the lock is asked for.
Consider(s) ==
    /\ syncer[s].phase = "batch"
    /\ IF Queue(s) = <<>> THEN Set(s, "idle", <<>>)
       ELSE IF Head(Queue(s)) \in waiting THEN Set(s, "batch", Tail(Queue(s)))
       ELSE Set(s, "wants", Queue(s))
    /\ UNCHANGED <<dbVars, lock, backlog, waiting, compactor, faults, blind>>

\* The task's row, with the lock held: a query that fails finds no task.
ReadTask(s) ==
    \/ /\ Head(Queue(s)) \in completed
       /\ lock' = s /\ Set(s, "looks", Queue(s))
       /\ UNCHANGED faults
    \/ /\ \/ Head(Queue(s)) \notin completed /\ UNCHANGED faults
          \/ Fault
       /\ Set(s, "batch", Tail(Queue(s))) /\ UNCHANGED lock

\* (mutant: no lock around the look-up and the write)
LooksUnlocked(s) ==
    /\ syncer[s].phase = "wants"
    /\ ReadTask(s)
    /\ UNCHANGED <<dbVars, backlog, waiting, compactor, blind>>

\* sync_memory_entry takes the lock and reads the task's row.
TakeLock(s) ==
    /\ syncer[s].phase = "wants"
    /\ lock = NoSyncer
    /\ ReadTask(s)
    /\ UNCHANGED <<dbVars, backlog, waiting, compactor, blind>>

HasSync(t) == \E e \in entries : e.kind = "task_result" /\ e.id.task = t

Forget(t) ==
    /\ IF t \in ToSet(backlog)
       THEN \E i \in DOMAIN backlog : backlog[i] = t /\ backlog' = RemoveAt(backlog, i)
       ELSE UNCHANGED backlog
    /\ waiting' = waiting \ {t}

LetGo(s) ==
    /\ lock' = NoSyncer
    /\ Set(s, "batch", Tail(Queue(s)))

\* _has_existing_sync; a failing query counts as "no entry".
Look(s) ==
    /\ syncer[s].phase = "looks"
    /\ LET t == Head(Queue(s)) IN
       \/ /\ HasSync(t)
          /\ Forget(t)
          /\ LetGo(s)
          /\ UNCHANGED <<faults, blind>>
       \/ /\ ~HasSync(t)
          /\ Set(s, "writes", Queue(s))
          /\ UNCHANGED <<lock, backlog, waiting, faults, blind>>
       \/ /\ Fault
          /\ blind' = [blind EXCEPT ![t] = @ + 1]
          /\ Set(s, "writes", Queue(s))
          /\ UNCHANGED <<lock, backlog, waiting>>
    /\ UNCHANGED <<dbVars, compactor>>

\* remember answers -1 when the insert fails; the task goes to the backlog.
Write(s) ==
    /\ syncer[s].phase = "writes"
    /\ LET t == Head(Queue(s)) IN
       \/ /\ Insert("task_result", t, {}, entries)
          /\ Forget(t)
          /\ UNCHANGED faults
       \/ /\ Fault
          /\ backlog' = IF t \in ToSet(backlog) THEN backlog ELSE Append(backlog, t)
          /\ waiting' = waiting \cup {t}
          /\ UNCHANGED <<entries, written>>
    /\ LetGo(s)
    /\ UNCHANGED <<completed, failing, day, compactor, blind>>

BackoffElapses(t) ==
    /\ t \in waiting
    /\ waiting' = waiting \ {t}
    /\ UNCHANGED <<dbVars, lock, backlog, syncer, compactor, faults, blind>>

\* The process of the synchroniser restarts: its tracker is gone.
Restart ==
    /\ Fault
    /\ lock' = NoSyncer /\ backlog' = <<>> /\ waiting' = {}
    /\ syncer' = [s \in Syncers |-> Idle]
    /\ UNCHANGED <<dbVars, compactor, blind>>

-----------------------------------------------------------------------------
(* Compacting *)

Becomes(k, r) == compactor' = [compactor EXCEPT ![k] = r]

StartCompaction(k, tier) ==
    /\ compactor[k].phase = "idle"
    /\ Becomes(k, [Rest EXCEPT !.phase = "protected", !.tier = tier,
                               !.protected = failing])
    /\ UNCHANGED <<dbVars, syncVars, faults, blind>>

\* (mutant: compressed by score alone)
EligibleByScore(tier) ==
    IF tier = "compress" THEN {"intake", "task_result"} ELSE {"result", "compressed"}

\* compress: score <= 2 and one of two types.  summarize: score 3 or 4 and none
\* of the protected types; "compressed" is not among them.
Eligible(tier) == IF tier = "compress" THEN {"intake"} ELSE {"result", "compressed"}

\* Compressed by the day, summarised by the month (all days here are of one).
Bucket(tier, e) == IF tier = "compress" THEN e.day ELSE 0
MinGroup(tier)  == IF tier = "compress" THEN CompressMin ELSE SummaryMin

Group(tier, found, e) == {f \in found : Bucket(tier, f) = Bucket(tier, e)}

\* (mutant: the trail of a failure is not spared)
UnprotectedCandidates(c) ==
    LET all == {e \in entries : e.kind \in Eligible(c.tier) /\ e.day < day}
    IN  {e \in all : Cardinality(Group(c.tier, all, e)) >= MinGroup(c.tier)}

\* Old entries of the tier whose task had no failure; small groups are skipped.
Candidates(c) ==
    LET all == {e \in entries : /\ e.kind \in Eligible(c.tier)
                                /\ e.day < day
                                /\ e.id.task \notin c.protected}
    IN  {e \in all : Cardinality(Group(c.tier, all, e)) >= MinGroup(c.tier)}

ReadCandidates(k) ==
    /\ compactor[k].phase = "protected"
    /\ Becomes(k, IF Candidates(compactor[k]) = {} THEN Rest
                  ELSE [compactor[k] EXCEPT !.phase = "writes",
                                            !.found = Candidates(compactor[k])])
    /\ UNCHANGED <<dbVars, syncVars, faults, blind>>

IdsOf(S) == {e.id : e \in S}

\* (mutant: archived by a copy, the source stays)
ReplaceByCopy(tier, group) ==
    LET sources == {e \in entries : e.id \in IdsOf(group)} IN
    entries \cup
        (IF tier = "compress" THEN {}
         ELSE {[e EXCEPT !.kind = "archived"] : e \in sources})

\* The sources are deleted, or kept as "archived", by their ids, whatever became
\* of them since they were read.
Replace(tier, group) ==
    LET sources == {e \in entries : e.id \in IdsOf(group)} IN
    (entries \ sources) \cup
        (IF tier = "compress" THEN {}
         ELSE {[e EXCEPT !.kind = "archived"] : e \in sources})

Holds(group) == IdsOf(group) \cup UNION {e.holds : e \in group}

\* (mutant: the first transaction deletes the candidates of all groups)
WritesFirstDigest(k) ==
    /\ compactor[k].phase = "writes"
    /\ LET c     == compactor[k]
           first == CHOOSE e \in c.found : \A f \in c.found : e.day <= f.day
           group == Group(c.tier, c.found, first)
           left  == c.found \ group
       IN  /\ Insert(IF c.tier = "compress" THEN "compressed" ELSE "summary",
                     NoTask, Holds(group), Replace(c.tier, c.found))
           /\ Becomes(k, IF left = {} THEN Rest ELSE [c EXCEPT !.found = left])
    /\ UNCHANGED <<completed, failing, day, syncVars, faults, blind>>

\* One transaction per group, the earliest first.
WriteDigest(k) ==
    /\ compactor[k].phase = "writes"
    /\ LET c     == compactor[k]
           first == CHOOSE e \in c.found : \A f \in c.found : e.day <= f.day
           group == Group(c.tier, c.found, first)
           left  == c.found \ group
       IN  /\ Insert(IF c.tier = "compress" THEN "compressed" ELSE "summary",
                     NoTask, Holds(group), Replace(c.tier, group))
           /\ Becomes(k, IF left = {} THEN Rest ELSE [c EXCEPT !.found = left])
    /\ UNCHANGED <<completed, failing, day, syncVars, faults, blind>>

\* A statement fails: the call ends, the groups written so far stay.
CompactionFails(k) ==
    /\ compactor[k].phase # "idle"
    /\ Fault
    /\ Becomes(k, Rest)
    /\ UNCHANGED <<dbVars, syncVars, blind>>

-----------------------------------------------------------------------------

SyncStep(s) ==
    \/ Consider(s) \/ TakeLock(s) \/ Look(s) \/ Write(s)

Next ==
    \/ \E t \in Tasks :
          \/ TaskCompletes(t) \/ TaskReopens(t) \/ TaskFails(t)
          \/ Remembers(t, "intake") \/ Remembers(t, "result")
          \/ BackoffElapses(t)
    \/ NextDay \/ Restart
    \/ \E s \in Syncers : SyncCompleted(s) \/ RetryFailed(s) \/ SyncStep(s)
    \/ \E k \in Compactors :
          \/ StartCompaction(k, "compress") \/ StartCompaction(k, "summarize")
          \/ ReadCandidates(k) \/ WriteDigest(k) \/ CompactionFails(k)

Spec == Init /\ [][Next]_vars

\* The reconciler's loop runs a batch every minute, a thread that runs gets on
\* and gets the lock, a backoff is over some day.  Nothing else is owed.
FairSpec ==
    /\ Spec
    /\ WF_vars(SyncCompleted(Loop))
    /\ \A s \in Syncers : WF_vars(SyncStep(s)) /\ SF_vars(TakeLock(s))
    /\ \A t \in Tasks : WF_vars(BackoffElapses(t))

-----------------------------------------------------------------------------
(* Properties *)

Syncs(t) == {e \in entries : e.kind = "task_result" /\ e.id.task = t}

\* memory_sync.py:9 "exactly one memory entry ... without duplicating the write
\* if called twice": two threads, a backlog and a restart make no second entry,
\* except where the look-up of the first one failed (memory_sync.py:280).
OneEntryPerTask == \A t \in Tasks : Cardinality(Syncs(t)) <= 1 + blind[t]

\* An entry of the synchroniser survives compaction.  If it did not, the next
\* batch would write it again, under a later date.
SyncedStaysSynced ==
    [][\A t \in Tasks : Syncs(t) # {} => Syncs(t)' # {}]_vars

\* No row is forgotten, however compactions overlap: it is in the table, or a
\* digest in the table was made of it (database.py:850, 1031).
NothingForgotten ==
    \A i \in written : \E e \in entries : i = e.id \/ i \in e.holds

\* The trail of a failed task is deleted or archived only by a compaction that
\* read the failures before this one was stored (database.py:783): a later one
\* leaves it alone.
FailureTrailKept ==
    [][\A e \in entries :
          e.id.task \in failing /\ e \notin entries' =>
              \E k \in Compactors : /\ compactor[k].phase = "writes"
                                    /\ e.id.task \notin compactor[k].protected]_vars

\* The tasks at the head of list_tasks, as many as a batch takes, are written
\* down sooner or later, whatever failed on the way: there is no such promise
\* for the others.
Heads == {t \in Tasks : Cardinality({u \in Tasks : Rank[u] < Rank[t]}) < Limit}

HeadsAreRemembered ==
    \A t \in Heads : (<>[](t \in completed)) => <>(Syncs(t) # {})
==============================================================================
