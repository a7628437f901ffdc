-------------------------------- MODULE Outbox --------------------------------
(***************************************************************************)
(* The worker's outbound queue (Grid/outbox.py): an SQLite file, a module  *)
(* lock around every operation, and a connection of its own for each       *)
(* thread.                                                                 *)
(*                                                                         *)
(* The lock makes an operation one step.  It does not cover the            *)
(* transaction: the driver opens one before the first INSERT, UPDATE or    *)
(* DELETE, and an operation that leaves without a commit (the ignored      *)
(* duplicate, the refused write) leaves it open on its thread's            *)
(* connection, where it holds the file's write lock or an old snapshot     *)
(* while other threads go on.  conn and view are that state.               *)
(*                                                                         *)
(* Nothing in the repository calls the queue yet: Flusher steps are the    *)
(* protocol its docstrings ask of a caller.                                *)
(***************************************************************************)
EXTENDS Naturals, FiniteSets

CONSTANTS Threads,     \* threads that use the queue
          Keys,        \* idempotency keys
          NoKey,       \* None: an entry without a key
          MaxEntries,  \* OUTBOX_MAX_ENTRIES
          MaxId,       \* bound: entries ever stored
          MaxTries     \* bound: failed attempts counted per entry

ASSUME OutboxConstantsOK ==
    /\ NoKey \notin Keys
    /\ MaxEntries \in Nat \ {0} /\ MaxId \in Nat /\ MaxTries \in Nat

VARIABLES
    rows,      \* the committed table; the ids give its order
    lastId,    \* sqlite_sequence: AUTOINCREMENT never gives an id again
    conn,      \* transaction state of each thread's connection
    view,      \* the table as an open transaction sees it
    todo,      \* rows a caller dequeued and has not tried yet
    sent,      \* rows it delivered and has not marked
    delivered, \* for observation: rows that reached the master
    ignored    \* for observation: a duplicate was ignored since the start

vars == <<rows, lastId, conn, view, todo, sent, delivered, ignored>>
callerVars == <<todo, sent, delivered>>

\* auto: no transaction.  begun: BEGIN, nothing read yet.  fresh: holds the
\* snapshot that is current, stale: one that is not.  writing: holds the lock.
ConnStates == {"auto", "begun", "fresh", "stale", "writing"}

Entries == [id : 1..MaxId, key : Keys \cup {NoKey}]
Rows == [id : 1..MaxId, key : Keys \cup {NoKey}, tries : 0..MaxTries]

TypeOK ==
    /\ rows \subseteq Rows /\ Cardinality(rows) <= MaxEntries
    /\ lastId \in 0..MaxId
    /\ conn \in [Threads -> ConnStates]
    /\ view \in [Threads -> SUBSET Rows]
    /\ todo \in [Threads -> SUBSET Entries]
    /\ sent \in [Threads -> SUBSET Entries]
    /\ delivered \subseteq Entries
    /\ ignored \in BOOLEAN

Init ==
    /\ rows = {} /\ lastId = 0
    /\ conn = [t \in Threads |-> "auto"]
    /\ view = [t \in Threads |-> {}]
    /\ todo = [t \in Threads |-> {}]
    /\ sent = [t \in Threads |-> {}]
    /\ delivered = {}
    /\ ignored = FALSE

-----------------------------------------------------------------------------
(* The connection *)

\* What a SELECT on t's connection returns.
Sees(t) == IF conn[t] \in {"auto", "begun"} THEN rows ELSE view[t]

\* A SELECT inside a transaction pins the snapshot it reads.
Pins(t) ==
    /\ conn' = [conn EXCEPT ![t] = IF @ = "begun" THEN "fresh" ELSE @]
    /\ view' = [view EXCEPT ![t] = IF conn[t] = "begun" THEN rows ELSE @]

\* One writer at a time, and none from a snapshot that is not the last.
MayWrite(t) ==
    /\ conn[t] # "stale"
    /\ \A u \in Threads \ {t} : conn[u] # "writing"

\* "database is locked": the implicit BEGIN stays behind.  The busy timeout
\* cannot help, as the thread waits under the lock the writer needs to commit.
Refused(t) ==
    /\ conn' = [conn EXCEPT ![t] = IF @ = "auto" THEN "begun" ELSE @]
    /\ UNCHANGED <<rows, view>>

Commits(t, table) ==
    /\ rows' = table
    /\ conn' = [u \in Threads |->
                   IF u = t THEN "auto"
                   ELSE IF conn[u] = "fresh" /\ table # rows THEN "stale"
                   ELSE conn[u]]
    /\ view' = [view EXCEPT ![t] = {}]

\* UPDATE or DELETE followed by commit.
Writes(t, table) == IF MayWrite(t) THEN Commits(t, table) ELSE Refused(t)

-----------------------------------------------------------------------------
(* enqueue() *)

Entry(row) == [id |-> row.id, key |-> row.key]
KeysIn(table) == {row.key : row \in table} \ {NoKey}

\* ORDER BY id ASC LIMIT 1
Oldest(table) == {row \in table : \A other \in table : row.id <= other.id}

\* (mutant: the row that is about to come is not counted)
WithRoomLate(table) ==
    IF Cardinality(table) > MaxEntries THEN table \ Oldest(table) ELSE table

\* (mutant: ORDER BY id DESC)
WithNewestEvicted(table) ==
    IF Cardinality(table) >= MaxEntries
    THEN {row \in table : \E other \in table : row.id < other.id} ELSE table

\* The capacity test deletes the oldest row before the INSERT is tried.
WithRoom(table) ==
    IF Cardinality(table) >= MaxEntries THEN table \ Oldest(table) ELSE table

\* (mutant: INTEGER PRIMARY KEY without AUTOINCREMENT)
StoreReusesIds(t, k) ==
    LET table == WithRoom(Sees(t))
        next == CHOOSE n \in 1..MaxId : \A row \in table : row.id < n /\
                    \A m \in 1..(n - 1) : \E other \in table : m <= other.id
    IN /\ MayWrite(t)
       /\ k \notin KeysIn(table)
       /\ lastId < MaxId
       /\ lastId' = lastId + 1
       /\ Commits(t, table \cup {[id |-> next, key |-> k, tries |-> 0]})
       /\ UNCHANGED <<callerVars, ignored>>

Store(t, k) ==
    /\ MayWrite(t)
    /\ k \notin KeysIn(WithRoom(Sees(t)))
    /\ lastId < MaxId
    /\ lastId' = lastId + 1
    /\ Commits(t, WithRoom(Sees(t)) \cup {[id |-> lastId + 1, key |-> k, tries |-> 0]})
    /\ UNCHANGED <<callerVars, ignored>>

\* -1: no commit and no rollback, so what WithRoom deleted stays pending and
\* the connection keeps the write lock.
IgnoreDuplicate(t, k) ==
    /\ MayWrite(t)
    /\ k \in KeysIn(WithRoom(Sees(t)))
    /\ conn' = [conn EXCEPT ![t] = "writing"]
    /\ view' = [view EXCEPT ![t] = WithRoom(Sees(t))]
    /\ ignored' = TRUE
    /\ UNCHANGED <<rows, lastId, callerVars>>

\* The count was read before the first write was refused.
EnqueueFails(t) ==
    /\ ~MayWrite(t)
    /\ IF conn[t] = "begun" THEN Pins(t) /\ UNCHANGED rows ELSE Refused(t)
    /\ UNCHANGED <<lastId, callerVars, ignored>>

Enqueue(t) ==
    \/ \E k \in Keys \cup {NoKey} : Store(t, k) \/ IgnoreDuplicate(t, k)
    \/ EnqueueFails(t)

-----------------------------------------------------------------------------
(* dequeue_all(), record_attempt(), mark_flushed(), clear_all(), close() *)

DequeueAll(t) ==
    /\ todo[t] = {} /\ sent[t] = {}
    /\ Pins(t)
    /\ todo' = [todo EXCEPT ![t] = {Entry(row) : row \in Sees(t)}]
    /\ UNCHANGED <<rows, lastId, sent, delivered, ignored>>

Delivers(t, e) ==
    /\ e \in todo[t]
    /\ delivered' = delivered \cup {e}
    /\ todo' = [todo EXCEPT ![t] = @ \ {e}]
    /\ sent' = [sent EXCEPT ![t] = @ \cup {e}]
    /\ UNCHANGED <<rows, lastId, conn, view, ignored>>

\* (tries stands for retry_count and last_attempt.)
Attempted(table, id) ==
    {[row EXCEPT !.tries = IF row.id = id THEN @ + 1 ELSE @] : row \in table}

TriesLeft(t, e) == \A row \in Sees(t) : row.id = e.id => row.tries < MaxTries

\* (mutant: the commit is forgotten)
RecordsUncommitted(t, e) ==
    /\ e \in todo[t] /\ TriesLeft(t, e)
    /\ todo' = [todo EXCEPT ![t] = @ \ {e}]
    /\ IF MayWrite(t)
       THEN /\ conn' = [conn EXCEPT ![t] = "writing"]
            /\ view' = [view EXCEPT ![t] = Attempted(Sees(t), e.id)]
            /\ UNCHANGED rows
       ELSE Refused(t)
    /\ UNCHANGED <<lastId, sent, delivered, ignored>>

\* The delivery failed, or its answer was lost.
RecordAttempt(t, e) ==
    /\ e \in todo[t] /\ TriesLeft(t, e)
    /\ todo' = [todo EXCEPT ![t] = @ \ {e}]
    /\ delivered' \in {delivered, delivered \cup {e}}
    /\ Writes(t, Attempted(Sees(t), e.id))
    /\ UNCHANGED <<lastId, sent, ignored>>

Without(table, ids) == {row \in table : row.id \notin ids}

\* Refused or not, the caller starts from a new dequeue_all.
MarkFlushed(t) ==
    /\ todo[t] = {} /\ sent[t] # {}
    /\ Writes(t, Without(Sees(t), {e.id : e \in sent[t]}))
    /\ sent' = [sent EXCEPT ![t] = {}]
    /\ UNCHANGED <<lastId, todo, delivered, ignored>>

ClearAll(t) ==
    /\ Writes(t, {})
    /\ UNCHANGED <<lastId, callerVars, ignored>>

\* Closing rolls the open transaction back.
Close(t) ==
    /\ conn' = [conn EXCEPT ![t] = "auto"]
    /\ view' = [view EXCEPT ![t] = {}]
    /\ UNCHANGED <<rows, lastId, callerVars, ignored>>

\* The worker process dies: the file keeps what was committed.
Crash ==
    /\ conn' = [t \in Threads |-> "auto"]
    /\ view' = [t \in Threads |-> {}]
    /\ todo' = [t \in Threads |-> {}]
    /\ sent' = [t \in Threads |-> {}]
    /\ ignored' = FALSE
    /\ UNCHANGED <<rows, lastId, delivered>>

-----------------------------------------------------------------------------

Operation(t) ==
    \/ Enqueue(t)
    \/ DequeueAll(t)
    \/ \E e \in todo[t] : Delivers(t, e) \/ RecordAttempt(t, e)
    \/ MarkFlushed(t)
    \/ ClearAll(t)
    \/ Close(t)

Next == (\E t \in Threads : Operation(t)) \/ Crash

Spec == Init /\ [][Next]_vars

-----------------------------------------------------------------------------
(* Properties *)

\* However many duplicates a connection ignores at capacity, the eviction it
\* left pending is one row, the oldest of a full queue (outbox.py:112), and
\* the committed queue never outgrows its limit.
OneEvictionPending ==
    /\ Cardinality(rows) <= MaxEntries
    /\ \A t \in Threads : conn[t] = "writing" =>
          \/ view[t] = rows
          \/ Cardinality(rows) = MaxEntries /\ view[t] = rows \ Oldest(rows)

\* outbox.py:7 "All writes are thread-safe via a module-level lock", as far as
\* it is true: until a duplicate is ignored, no operation leaves a transaction
\* behind and so none is refused.
LockSuffices == ~ignored => \A t \in Threads : conn[t] = "auto"

\* What leaves the queue short of clear_all was delivered, or was the oldest
\* row of a full queue: not a row with the id of a delivered one, not a row
\* another thread stored since the batch was read, and nothing in a crash.
OnlyDeliveredLeave ==
    [][(\E t \in Threads : ClearAll(t)) \/
       \A row \in rows :
          \/ \E other \in rows' : Entry(other) = Entry(row)
          \/ Entry(row) \in delivered
          \/ Cardinality(rows) = MaxEntries /\ row \in Oldest(rows)]_vars
=============================================================================
