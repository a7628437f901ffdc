----------------------------- MODULE OutboxProofs -----------------------------
(***************************************************************************)
(* Proofs about Outbox, for any threads, keys and limits: its types, that  *)
(* ignored duplicates leave one eviction pending at most, that without     *)
(* them no transaction stays open, and that only what was delivered or the *)
(* oldest row of a full queue leaves.                                      *)
(***************************************************************************)
EXTENDS Outbox, LeastNumber, FiniteSetTheorems, TLAPS

\* The parts of the inductive invariant: types without the sizes, ...
CallerTyped ==
    /\ lastId \in 0..MaxId
    /\ todo \in [Threads -> SUBSET Entries]
    /\ sent \in [Threads -> SUBSET Entries]
    /\ delivered \subseteq Entries
    /\ ignored \in BOOLEAN

TablesTyped ==
    /\ rows \subseteq Rows
    /\ conn \in [Threads -> ConnStates]
    /\ view \in [Threads -> SUBSET Rows]

Fits(table) == IsFiniteSet(table) /\ Cardinality(table) <= MaxEntries

Sized == Fits(rows) /\ \A t \in Threads : Fits(view[t])

\* ... what SQLite's locking keeps true of the connections, ...
OneWriter ==
    \A t, u \in Threads : conn[t] = "writing" /\ conn[u] = "writing" => t = u

FreshIsCurrent == \A t \in Threads : conn[t] = "fresh" => view[t] = rows

\* A table as a writer may see it: the committed one, or that without the
\* oldest row of a full queue.
NearlyCurrent(table) ==
    \/ table = rows
    \/ Cardinality(rows) = MaxEntries /\ table = rows \ Oldest(rows)

WriterIsNear == \A t \in Threads : conn[t] = "writing" => NearlyCurrent(view[t])

\* ... and what an id stands for, whoever still holds it.
EntriesIn(table) == {Entry(row) : row \in table}

Known == EntriesIn(rows) \cup
         UNION {EntriesIn(view[t]) \cup todo[t] \cup sent[t] : t \in Threads}

IdsAreUnique ==
    /\ \A e \in Known : e.id <= lastId
    /\ \A e, f \in Known : e.id = f.id => e = f

SentIsDelivered == \A t \in Threads : sent[t] \subseteq delivered

Connected == TablesTyped /\ Sized /\ OneWriter /\ FreshIsCurrent /\ WriterIsNear

BoxInv == Connected /\ CallerTyped /\ IdsAreUnique /\ SentIsDelivered

-----------------------------------------------------------------------------
(* Facts about tables *)

\* Evicting makes a table smaller.
LEMMA OldestLeaves ==
    ASSUME NEW table \in SUBSET Rows, IsFiniteSet(table), table # {}
    PROVE  /\ IsFiniteSet(table \ Oldest(table))
           /\ Cardinality(table \ Oldest(table)) < Cardinality(table)
<1> DEFINE Ids == {row.id : row \in table}
<1>1. Ids \in SUBSET Nat /\ Ids # {}
    BY DEF Rows
<1>2. PICK x \in Ids : \A y \in Ids : x <= y
    BY <1>1, LeastNatural
<1>3. PICK row \in table : row.id = x
    BY <1>2
<1>4. row \in Oldest(table)
    BY <1>2, <1>3 DEF Oldest
<1>5. table \ Oldest(table) \in SUBSET (table \ {row})
    BY <1>4
<1>6. /\ IsFiniteSet(table \ {row})
      /\ Cardinality(table \ {row}) = Cardinality(table) - 1
    BY <1>3, FS_RemoveElement
<1>7. /\ IsFiniteSet(table \ Oldest(table))
      /\ Cardinality(table \ Oldest(table)) <= Cardinality(table \ {row})
    BY <1>5, <1>6, FS_Subset
<1> QED
    BY <1>6, <1>7, FS_CardinalityType

\* After the capacity test there is room for one row.
LEMMA RoomForOne ==
    ASSUME NEW table \in SUBSET Rows, Fits(table)
    PROVE  /\ WithRoom(table) \in SUBSET table
           /\ IsFiniteSet(WithRoom(table))
           /\ Cardinality(WithRoom(table)) < MaxEntries
<1>1. Cardinality(table) \in Nat /\ MaxEntries \in Nat \ {0}
    BY FS_CardinalityType, OutboxConstantsOK DEF Fits
<1>2. CASE Cardinality(table) >= MaxEntries
    <2>1. table # {}
        BY <1>1, <1>2, FS_EmptySet
    <2>2. /\ IsFiniteSet(table \ Oldest(table))
          /\ Cardinality(table \ Oldest(table)) < Cardinality(table)
        BY <2>1, OldestLeaves DEF Fits
    <2>3. Cardinality(table \ Oldest(table)) \in Nat
        BY <2>2, FS_CardinalityType
    <2> QED
        BY <1>1, <1>2, <2>2, <2>3 DEF WithRoom, Fits
<1>3. CASE Cardinality(table) < MaxEntries
    BY <1>1, <1>3 DEF WithRoom, Fits
<1> QED
    BY <1>1, <1>2, <1>3

\* An attempt changes neither the rows' number nor what they stand for.
LEMMA AttemptKeepsEntries ==
    ASSUME NEW table \in SUBSET Rows, Fits(table), NEW id
    PROVE  /\ Fits(Attempted(table, id))
           /\ EntriesIn(Attempted(table, id)) = EntriesIn(table)
<1> DEFINE Next1(row) == [row EXCEPT !.tries = IF row.id = id THEN @ + 1 ELSE @]
           f == [row \in table |-> Next1(row)]
<1>1. f \in Surjection(table, Attempted(table, id))
    BY DEF Surjection, Attempted
<1>2. /\ IsFiniteSet(Attempted(table, id))
      /\ Cardinality(Attempted(table, id)) <= Cardinality(table)
    BY <1>1, FS_Surjection DEF Fits
<1>3. Fits(Attempted(table, id))
    BY <1>2, FS_CardinalityType, OutboxConstantsOK DEF Fits
<1>4. \A row \in table : Entry(Next1(row)) = Entry(row)
    BY DEF Rows, Entry
<1> HIDE DEF Next1
<1>5. Attempted(table, id) = {Next1(row) : row \in table}
    BY DEF Attempted, Next1
<1>6. EntriesIn(Attempted(table, id)) = EntriesIn(table)
    BY <1>4, <1>5 DEF EntriesIn
<1> QED
    BY <1>3, <1>6

-----------------------------------------------------------------------------
(* Facts about connections *)

LEMMA SeesFits ==
    ASSUME Connected, NEW t \in Threads
    PROVE  Sees(t) \in SUBSET Rows /\ Fits(Sees(t))
BY DEF Connected, TablesTyped, Sized, Sees

LEMMA WritersSeeNearly ==
    ASSUME Connected, NEW t \in Threads, MayWrite(t)
    PROVE  NearlyCurrent(Sees(t))
<1>1. conn[t] \in {"auto", "begun", "fresh", "writing"}
    BY DEF Connected, TablesTyped, ConnStates, MayWrite
<1> QED
    BY <1>1 DEF Connected, FreshIsCurrent, WriterIsNear, NearlyCurrent, Sees

\* A second duplicate finds room and evicts nothing more.
LEMMA RoomIsNear ==
    ASSUME Connected, NEW t \in Threads, MayWrite(t)
    PROVE  NearlyCurrent(WithRoom(Sees(t)))
<1>1. rows \in SUBSET Rows /\ Fits(rows)
    BY DEF Connected, TablesTyped, Sized
<1>2. Cardinality(rows) \in Nat /\ MaxEntries \in Nat \ {0}
    BY <1>1, FS_CardinalityType, OutboxConstantsOK DEF Fits
<1>3. CASE Sees(t) = rows
    BY <1>1, <1>2, <1>3 DEF WithRoom, NearlyCurrent, Fits
<1>4. CASE Cardinality(rows) = MaxEntries /\ Sees(t) = rows \ Oldest(rows)
    <2>1. rows # {}
        BY <1>2, <1>4, FS_EmptySet
    <2>2. /\ IsFiniteSet(rows \ Oldest(rows))
          /\ Cardinality(rows \ Oldest(rows)) < Cardinality(rows)
        BY <1>1, <2>1, OldestLeaves DEF Fits
    <2>3. Cardinality(rows \ Oldest(rows)) \in Nat
        BY <2>2, FS_CardinalityType
    <2>4. ~(Cardinality(Sees(t)) >= MaxEntries)
        BY <1>2, <1>4, <2>2, <2>3
    <2>5. WithRoom(Sees(t)) = Sees(t)
        BY <2>4 DEF WithRoom
    <2> QED
        BY <1>4, <2>5 DEF NearlyCurrent
<1> QED
    BY <1>3, <1>4, WritersSeeNearly DEF NearlyCurrent

LEMMA FitsEmpty == Fits({})
BY FS_EmptySet, OutboxConstantsOK DEF Fits

\* After a commit nobody holds the write lock and older snapshots are stale.
LEMMA CommitKeepsConnected ==
    ASSUME Connected, NEW t \in Threads, MayWrite(t),
           NEW table \in SUBSET Rows, Fits(table), Commits(t, table)
    PROVE  Connected'
<1>1. TablesTyped'
    <2>1. rows' \subseteq Rows
        BY DEF Commits
    <2>2. conn' \in [Threads -> ConnStates]
        BY DEF Commits, Connected, TablesTyped, ConnStates
    <2>3. view' \in [Threads -> SUBSET Rows]
        BY DEF Commits, Connected, TablesTyped
    <2> QED
        BY <2>1, <2>2, <2>3 DEF TablesTyped
<1>2. Sized'
    <2>1. rows' = table
        BY DEF Commits
    <2>2. \A u \in Threads : view'[u] = {} \/ view'[u] = view[u]
        BY DEF Commits, Connected, TablesTyped
    <2> QED
        BY <2>1, <2>2, FitsEmpty DEF Sized, Connected, Fits
<1>3. \A u \in Threads : conn'[u] # "writing"
    BY DEF Commits, MayWrite
<1>4. FreshIsCurrent'
    <2> SUFFICES ASSUME NEW u \in Threads, conn'[u] = "fresh"
                 PROVE  view'[u] = rows'
        BY DEF FreshIsCurrent
    <2>1. u # t /\ conn[u] = "fresh" /\ table = rows
        BY DEF Commits
    <2>2. view'[u] = view[u] /\ rows' = table
        BY <2>1 DEF Commits, Connected, TablesTyped
    <2> QED
        BY <2>1, <2>2 DEF Connected, FreshIsCurrent
<1> QED
    BY <1>1, <1>2, <1>3, <1>4 DEF Connected, OneWriter, WriterIsNear

LEMMA RefusalKeepsConnected ==
    ASSUME Connected, NEW t \in Threads, Refused(t)
    PROVE  Connected'
<1>1. conn' \in [Threads -> ConnStates]
    BY DEF Refused, Connected, TablesTyped, ConnStates
<1>2. \A u \in Threads : conn'[u] = conn[u] \/ conn'[u] = "begun"
    BY DEF Refused, Connected, TablesTyped
<1>3. rows' = rows /\ view' = view
    BY DEF Refused
<1> QED
    BY <1>1, <1>2, <1>3
    DEF Connected, TablesTyped, Sized, Fits, OneWriter, FreshIsCurrent, WriterIsNear,
        NearlyCurrent, Oldest

LEMMA ReadKeepsConnected ==
    ASSUME Connected, NEW t \in Threads, Pins(t), UNCHANGED rows
    PROVE  Connected'
<1>1. conn' \in [Threads -> ConnStates] /\ view' \in [Threads -> SUBSET Rows]
    BY DEF Pins, Connected, TablesTyped, ConnStates
<1>2. \A u \in Threads :
         \/ conn'[u] = conn[u] /\ view'[u] = view[u]
         \/ conn'[u] = "fresh" /\ view'[u] = rows
    BY DEF Pins, Connected, TablesTyped
<1> QED
    BY <1>1, <1>2
    DEF Connected, TablesTyped, Sized, Fits, OneWriter, FreshIsCurrent, WriterIsNear,
        NearlyCurrent, Oldest

\* What Writes leaves, whether it commits or is refused.
LEMMA WriteKeepsConnected ==
    ASSUME Connected, NEW t \in Threads,
           NEW table \in SUBSET Rows, Fits(table), Writes(t, table)
    PROVE  Connected'
BY CommitKeepsConnected, RefusalKeepsConnected DEF Writes

LEMMA AttemptIsTyped ==
    ASSUME Connected, NEW t \in Threads, NEW e \in Entries, TriesLeft(t, e)
    PROVE  Attempted(Sees(t), e.id) \in SUBSET Rows
<1> SUFFICES ASSUME NEW row \in Sees(t)
             PROVE  [row EXCEPT !.tries = IF row.id = e.id THEN @ + 1 ELSE @] \in Rows
    BY DEF Attempted
<1>1. row \in Rows
    BY SeesFits
<1>2. row.id = e.id => row.tries < MaxTries
    BY DEF TriesLeft
<1> QED
    BY <1>1, <1>2, OutboxConstantsOK DEF Rows

LEMMA FlushFits ==
    ASSUME Connected, NEW t \in Threads, NEW ids
    PROVE  Without(Sees(t), ids) \in SUBSET Rows /\ Fits(Without(Sees(t), ids))
<1>1. Without(Sees(t), ids) \in SUBSET Sees(t)
    BY DEF Without
<1>2. Sees(t) \in SUBSET Rows /\ Fits(Sees(t))
    BY SeesFits
<1>3. /\ IsFiniteSet(Without(Sees(t), ids))
      /\ Cardinality(Without(Sees(t), ids)) <= Cardinality(Sees(t))
    BY <1>1, <1>2, FS_Subset DEF Fits
<1> QED
    BY <1>1, <1>2, <1>3, FS_CardinalityType, OutboxConstantsOK DEF Fits

LEMMA StoreFits ==
    ASSUME Connected, CallerTyped, NEW t \in Threads, NEW k \in Keys \cup {NoKey},
           lastId < MaxId
    PROVE  LET table == WithRoom(Sees(t)) \cup {[id |-> lastId + 1, key |-> k, tries |-> 0]}
           IN  table \in SUBSET Rows /\ Fits(table)
<1> DEFINE new == [id |-> lastId + 1, key |-> k, tries |-> 0]
<1>1. new \in Rows
    BY OutboxConstantsOK DEF Rows, CallerTyped
<1> HIDE DEF new
<1>2. /\ WithRoom(Sees(t)) \in SUBSET Rows
      /\ IsFiniteSet(WithRoom(Sees(t)))
      /\ Cardinality(WithRoom(Sees(t))) < MaxEntries
    BY SeesFits, RoomForOne
<1>3. ASSUME NEW S, IsFiniteSet(S), Cardinality(S) < MaxEntries
      PROVE  Fits(S \cup {new})
    <2>1. Cardinality(S) \in Nat /\ MaxEntries \in Nat
        BY <1>3, FS_CardinalityType, OutboxConstantsOK
    <2>2. /\ IsFiniteSet(S \cup {new})
          /\ Cardinality(S \cup {new}) =
                IF new \in S THEN Cardinality(S) ELSE Cardinality(S) + 1
        BY <1>3, FS_AddElement
    <2> QED
        BY <1>3, <2>1, <2>2 DEF Fits
<1>4. Fits(WithRoom(Sees(t)) \cup {new})
    BY <1>2, <1>3
<1> QED
    BY <1>1, <1>2, <1>4 DEF new

-----------------------------------------------------------------------------
(* Every step keeps the connections in order *)

LEMMA DuplicateKeepsConnected ==
    ASSUME Connected, NEW t \in Threads, NEW k, IgnoreDuplicate(t, k)
    PROVE  Connected'
<1>1. WithRoom(Sees(t)) \in SUBSET Rows /\ Fits(WithRoom(Sees(t)))
    BY SeesFits, RoomForOne, FS_CardinalityType, OutboxConstantsOK DEF Fits
<1>2. /\ conn' \in [Threads -> ConnStates]
      /\ view' \in [Threads -> SUBSET Rows]
      /\ rows' = rows
    BY <1>1 DEF IgnoreDuplicate, Connected, TablesTyped, ConnStates
<1>3. conn'[t] = "writing" /\ view'[t] = WithRoom(Sees(t))
    BY DEF IgnoreDuplicate, Connected, TablesTyped
<1>4. \A u \in Threads \ {t} :
         conn'[u] = conn[u] /\ view'[u] = view[u] /\ conn[u] # "writing"
    BY DEF IgnoreDuplicate, MayWrite, Connected, TablesTyped
<1>5. Sized'
    BY <1>1, <1>2, <1>3, <1>4 DEF Connected, Sized, Fits
<1>6. OneWriter'
    BY <1>4 DEF OneWriter
<1>7. FreshIsCurrent'
    BY <1>2, <1>3, <1>4 DEF Connected, FreshIsCurrent
<1>8. WriterIsNear'
    <2>1. NearlyCurrent(WithRoom(Sees(t)))
        BY RoomIsNear DEF IgnoreDuplicate
    <2> QED
        BY <1>2, <1>3, <1>4, <2>1 DEF WriterIsNear, NearlyCurrent, Oldest
<1> QED
    BY <1>2, <1>5, <1>6, <1>7, <1>8 DEF Connected, TablesTyped

LEMMA ClosingKeepsConnected ==
    ASSUME Connected, rows' = rows,
           conn' \in [Threads -> ConnStates], view' \in [Threads -> SUBSET Rows],
           \A u \in Threads :
              \/ conn'[u] = conn[u] /\ view'[u] = view[u]
              \/ conn'[u] = "auto" /\ view'[u] = {}
    PROVE  Connected'
BY FitsEmpty
DEF Connected, TablesTyped, Sized, Fits, OneWriter, FreshIsCurrent, WriterIsNear,
    NearlyCurrent, Oldest

LEMMA StepKeepsConnected ==
    ASSUME Connected, CallerTyped, [Next]_vars
    PROVE  Connected'
<1>1. ASSUME NEW t \in Threads, Enqueue(t) PROVE Connected'
    <2>1. ASSUME NEW k \in Keys \cup {NoKey}, Store(t, k) PROVE Connected'
        BY <2>1, StoreFits, CommitKeepsConnected DEF Store
    <2>2. ASSUME NEW k \in Keys \cup {NoKey}, IgnoreDuplicate(t, k) PROVE Connected'
        BY <2>2, DuplicateKeepsConnected
    <2>3. CASE EnqueueFails(t)
        BY <2>3, ReadKeepsConnected, RefusalKeepsConnected DEF EnqueueFails
    <2> QED
        BY <1>1, <2>1, <2>2, <2>3 DEF Enqueue
<1>2. ASSUME NEW t \in Threads, DequeueAll(t) PROVE Connected'
    BY <1>2, ReadKeepsConnected DEF DequeueAll
<1>3. ASSUME NEW t \in Threads, NEW e \in todo[t], Delivers(t, e) PROVE Connected'
    BY <1>3 DEF Delivers, Connected, TablesTyped, Sized, Fits, OneWriter,
       FreshIsCurrent, WriterIsNear, NearlyCurrent, Oldest
<1>4. ASSUME NEW t \in Threads, NEW e \in todo[t], RecordAttempt(t, e)
      PROVE  Connected'
    <2>1. e \in Entries
        BY DEF CallerTyped
    <2>2. Fits(Attempted(Sees(t), e.id))
        BY SeesFits, AttemptKeepsEntries
    <2>3. Attempted(Sees(t), e.id) \in SUBSET Rows
        BY <1>4, <2>1, AttemptIsTyped DEF RecordAttempt
    <2> QED
        BY <1>4, <2>2, <2>3, WriteKeepsConnected DEF RecordAttempt
<1>5. ASSUME NEW t \in Threads, MarkFlushed(t) PROVE Connected'
    BY <1>5, FlushFits, WriteKeepsConnected DEF MarkFlushed
<1>6. ASSUME NEW t \in Threads, ClearAll(t) PROVE Connected'
    BY <1>6, FitsEmpty, WriteKeepsConnected DEF ClearAll
<1>7. ASSUME NEW t \in Threads, Close(t) PROVE Connected'
    <2>1. conn' \in [Threads -> ConnStates] /\ view' \in [Threads -> SUBSET Rows]
        BY <1>7 DEF Close, Connected, TablesTyped, ConnStates
    <2>2. \A u \in Threads : \/ conn'[u] = conn[u] /\ view'[u] = view[u]
                             \/ conn'[u] = "auto" /\ view'[u] = {}
        BY <1>7 DEF Close, Connected, TablesTyped
    <2> QED
        BY <1>7, <2>1, <2>2, ClosingKeepsConnected DEF Close
<1>8. CASE Crash
    BY <1>8, ClosingKeepsConnected DEF Crash, ConnStates
<1>9. CASE UNCHANGED vars
    BY <1>9 DEF vars, Connected, TablesTyped, Sized, Fits, OneWriter, FreshIsCurrent,
       WriterIsNear, NearlyCurrent, Oldest
<1> QED
    BY <1>1, <1>2, <1>3, <1>4, <1>5, <1>6, <1>7, <1>8, <1>9 DEF Next, Operation

-----------------------------------------------------------------------------
(* Callers and ids *)

LEMMA StepKeepsCallers ==
    ASSUME Connected, CallerTyped, [Next]_vars
    PROVE  CallerTyped'
<1>1. ASSUME NEW t \in Threads, Enqueue(t) PROVE CallerTyped'
    <2>1. ASSUME NEW k \in Keys \cup {NoKey}, Store(t, k) PROVE CallerTyped'
        BY <2>1, OutboxConstantsOK DEF Store, CallerTyped, callerVars
    <2>2. ASSUME NEW k \in Keys \cup {NoKey}, IgnoreDuplicate(t, k) PROVE CallerTyped'
        BY <2>2 DEF IgnoreDuplicate, CallerTyped, callerVars
    <2>3. CASE EnqueueFails(t)
        BY <2>3 DEF EnqueueFails, CallerTyped, callerVars
    <2> QED
        BY <1>1, <2>1, <2>2, <2>3 DEF Enqueue
<1>2. ASSUME NEW t \in Threads, DequeueAll(t) PROVE CallerTyped'
    <2>1. {Entry(row) : row \in Sees(t)} \in SUBSET Entries
        <3>1. \A row \in Rows : Entry(row) \in Entries
            BY DEF Rows, Entries, Entry
        <3> QED
            BY <3>1, SeesFits
    <2> QED
        BY <1>2, <2>1 DEF DequeueAll, CallerTyped
<1>3. ASSUME NEW t \in Threads, NEW e \in todo[t], Delivers(t, e) PROVE CallerTyped'
    <2>1. e \in Entries
        BY DEF CallerTyped
    <2> QED
        BY <1>3, <2>1 DEF Delivers, CallerTyped
<1>4. ASSUME NEW t \in Threads, NEW e \in todo[t], RecordAttempt(t, e)
      PROVE  CallerTyped'
    <2>1. e \in Entries
        BY DEF CallerTyped
    <2> QED
        BY <1>4, <2>1 DEF RecordAttempt, CallerTyped
<1>5. ASSUME NEW t \in Threads, MarkFlushed(t) \/ ClearAll(t) \/ Close(t)
      PROVE  CallerTyped'
    BY <1>5 DEF MarkFlushed, ClearAll, Close, CallerTyped, callerVars
<1>6. CASE Crash
    BY <1>6 DEF Crash, CallerTyped
<1>7. CASE UNCHANGED vars
    BY <1>7 DEF vars, CallerTyped
<1> QED
    BY <1>1, <1>2, <1>3, <1>4, <1>5, <1>6, <1>7 DEF Next, Operation

LEMMA StepKeepsSent ==
    ASSUME CallerTyped, SentIsDelivered, [Next]_vars
    PROVE  SentIsDelivered'
<1>1. ASSUME NEW t \in Threads, Enqueue(t) \/ ClearAll(t) \/ Close(t)
      PROVE  SentIsDelivered'
    BY <1>1 DEF Enqueue, Store, IgnoreDuplicate, EnqueueFails, ClearAll, Close,
       callerVars, SentIsDelivered
<1>2. ASSUME NEW t \in Threads, DequeueAll(t) PROVE SentIsDelivered'
    BY <1>2 DEF DequeueAll, SentIsDelivered
<1>3. ASSUME NEW t \in Threads, NEW e \in todo[t], Delivers(t, e)
      PROVE  SentIsDelivered'
    BY <1>3 DEF Delivers, SentIsDelivered, CallerTyped
<1>4. ASSUME NEW t \in Threads, NEW e \in todo[t], RecordAttempt(t, e)
      PROVE  SentIsDelivered'
    BY <1>4 DEF RecordAttempt, SentIsDelivered
<1>5. ASSUME NEW t \in Threads, MarkFlushed(t) PROVE SentIsDelivered'
    BY <1>5 DEF MarkFlushed, SentIsDelivered, CallerTyped
<1>6. CASE Crash
    BY <1>6 DEF Crash, SentIsDelivered
<1>7. CASE UNCHANGED vars
    BY <1>7 DEF vars, SentIsDelivered
<1> QED
    BY <1>1, <1>2, <1>3, <1>4, <1>5, <1>6, <1>7 DEF Next, Operation

\* What is known after a step, from where each part of it comes.
LEMMA KnownWithin ==
    ASSUME NEW K,
           EntriesIn(rows)' \subseteq K,
           \A t \in Threads : EntriesIn(view'[t]) \subseteq K,
           \A t \in Threads : todo'[t] \subseteq K,
           \A t \in Threads : sent'[t] \subseteq K
    PROVE  Known' \subseteq K
BY DEF Known, EntriesIn

LEMMA KnownParts ==
    /\ EntriesIn(rows) \subseteq Known
    /\ \A t \in Threads : /\ EntriesIn(view[t]) \subseteq Known
                          /\ todo[t] \subseteq Known
                          /\ sent[t] \subseteq Known
                          /\ EntriesIn(Sees(t)) \subseteq Known
<1>1. \A t \in Threads : EntriesIn(view[t]) \cup todo[t] \cup sent[t] \subseteq Known
    BY DEF Known
<1>2. EntriesIn(rows) \subseteq Known
    BY DEF Known
<1> QED
    BY <1>1, <1>2 DEF Sees

LEMMA EntriesMonotone ==
    ASSUME NEW S, NEW T, S \subseteq T
    PROVE  EntriesIn(S) \subseteq EntriesIn(T)
BY DEF EntriesIn

\* A commit of rows made from known ones.
LEMMA CommitKnows ==
    ASSUME Connected, NEW t \in Threads, NEW table, Commits(t, table), NEW K,
           Known \subseteq K, EntriesIn(table) \subseteq K
    PROVE  /\ EntriesIn(rows)' \subseteq K
           /\ \A u \in Threads : EntriesIn(view'[u]) \subseteq K
<1>1. rows' = table
    BY DEF Commits
<1>2. \A u \in Threads : view'[u] = view[u] \/ view'[u] = {}
    BY DEF Commits, Connected, TablesTyped
<1>3. EntriesIn({}) = {}
    BY DEF EntriesIn
<1>4. EntriesIn(rows)' = EntriesIn(table)
    BY <1>1 DEF EntriesIn
<1> QED
    BY <1>2, <1>3, <1>4, KnownParts

LEMMA WriteKnows ==
    ASSUME Connected, NEW t \in Threads, NEW table, Writes(t, table),
           EntriesIn(table) \subseteq Known
    PROVE  /\ EntriesIn(rows)' \subseteq Known
           /\ \A u \in Threads : EntriesIn(view'[u]) \subseteq Known
<1>1. CASE MayWrite(t)
    BY <1>1, CommitKnows DEF Writes
<1>2. CASE ~MayWrite(t)
    BY <1>2, KnownParts DEF Writes, Refused, EntriesIn
<1> QED
    BY <1>1, <1>2

LEMMA ReadKnows ==
    ASSUME Connected, NEW t \in Threads, Pins(t), UNCHANGED rows
    PROVE  /\ EntriesIn(rows)' \subseteq Known
           /\ \A u \in Threads : EntriesIn(view'[u]) \subseteq Known
<1>1. \A u \in Threads : view'[u] = view[u] \/ view'[u] = rows
    BY DEF Pins, Connected, TablesTyped
<1>2. EntriesIn(rows)' = EntriesIn(rows)
    BY DEF EntriesIn
<1> QED
    BY <1>1, <1>2, KnownParts

\* Only enqueue makes an entry known that was not.
LEMMA StepKnows ==
    ASSUME Connected, CallerTyped, [Next]_vars,
           ~ \E t \in Threads : \E k \in Keys \cup {NoKey} : Store(t, k)
    PROVE  Known' \subseteq Known /\ lastId' = lastId
<1>1. ASSUME NEW t \in Threads, NEW k, IgnoreDuplicate(t, k)
      PROVE  Known' \subseteq Known /\ lastId' = lastId
    <2>1. EntriesIn(WithRoom(Sees(t))) \subseteq Known
        <3>1. WithRoom(Sees(t)) \subseteq Sees(t)
            BY DEF WithRoom
        <3> QED
            BY <3>1, EntriesMonotone, KnownParts
    <2>2. \A u \in Threads : view'[u] = view[u] \/ view'[u] = WithRoom(Sees(t))
        BY <1>1 DEF IgnoreDuplicate, Connected, TablesTyped
    <2>3. \A u \in Threads : EntriesIn(view'[u]) \subseteq Known
        BY <2>1, <2>2, KnownParts
    <2>4. UNCHANGED <<rows, lastId, todo, sent>>
        BY <1>1 DEF IgnoreDuplicate, callerVars
    <2>5. EntriesIn(rows)' \subseteq Known
        BY <2>4, KnownParts DEF EntriesIn
    <2> QED
        BY <2>3, <2>4, <2>5, KnownParts, KnownWithin
<1>2. ASSUME NEW t \in Threads, EnqueueFails(t)
      PROVE  Known' \subseteq Known /\ lastId' = lastId
    <2>1. UNCHANGED <<rows, lastId, todo, sent>>
        BY <1>2 DEF EnqueueFails, callerVars, Refused
    <2>2. EntriesIn(rows)' \subseteq Known
        BY <2>1, KnownParts DEF EntriesIn
    <2>3. \A u \in Threads : EntriesIn(view'[u]) \subseteq Known
        <3>1. CASE conn[t] = "begun"
            BY <1>2, <3>1, ReadKnows DEF EnqueueFails
        <3>2. CASE conn[t] # "begun"
            BY <1>2, <3>2, KnownParts DEF EnqueueFails, Refused
        <3> QED
            BY <3>1, <3>2
    <2> QED
        BY <2>1, <2>2, <2>3, KnownParts, KnownWithin
<1>3. ASSUME NEW t \in Threads, DequeueAll(t)
      PROVE  Known' \subseteq Known /\ lastId' = lastId
    <2>1. /\ EntriesIn(rows)' \subseteq Known
          /\ \A u \in Threads : EntriesIn(view'[u]) \subseteq Known
        BY <1>3, ReadKnows DEF DequeueAll
    <2>2. \A u \in Threads : todo'[u] = todo[u] \/ todo'[u] = EntriesIn(Sees(t))
        BY <1>3 DEF DequeueAll, CallerTyped, EntriesIn
    <2>3. UNCHANGED <<lastId, sent>>
        BY <1>3 DEF DequeueAll
    <2> QED
        BY <2>1, <2>2, <2>3, KnownParts, KnownWithin
<1>4. ASSUME NEW t \in Threads, NEW e \in todo[t], Delivers(t, e)
      PROVE  Known' \subseteq Known /\ lastId' = lastId
    <2>1. e \in Known
        BY KnownParts
    <2>2. UNCHANGED <<rows, view, lastId>>
        BY <1>4 DEF Delivers
    <2>3. \A u \in Threads : todo'[u] \subseteq todo[u] /\ sent'[u] \subseteq sent[u] \cup {e}
        BY <1>4 DEF Delivers, CallerTyped
    <2>4. /\ EntriesIn(rows)' \subseteq Known
          /\ \A u \in Threads : EntriesIn(view'[u]) \subseteq Known
        BY <2>2, KnownParts DEF EntriesIn
    <2>5. \A u \in Threads : todo'[u] \subseteq Known /\ sent'[u] \subseteq Known
        BY <2>1, <2>3, KnownParts
    <2> QED
        BY <2>2, <2>4, <2>5, KnownWithin
<1>5. ASSUME NEW t \in Threads, NEW e \in todo[t], RecordAttempt(t, e)
      PROVE  Known' \subseteq Known /\ lastId' = lastId
    <2>1. EntriesIn(Attempted(Sees(t), e.id)) = EntriesIn(Sees(t))
        BY SeesFits, AttemptKeepsEntries
    <2>2. /\ EntriesIn(rows)' \subseteq Known
          /\ \A u \in Threads : EntriesIn(view'[u]) \subseteq Known
        BY <1>5, <2>1, KnownParts, WriteKnows DEF RecordAttempt
    <2>3. \A u \in Threads : todo'[u] \subseteq todo[u]
        BY <1>5 DEF RecordAttempt, CallerTyped
    <2>4. UNCHANGED <<lastId, sent>>
        BY <1>5 DEF RecordAttempt
    <2>5. \A u \in Threads : todo'[u] \subseteq Known /\ sent'[u] \subseteq Known
        BY <2>3, <2>4, KnownParts
    <2> QED
        BY <2>2, <2>4, <2>5, KnownWithin
<1>6. ASSUME NEW t \in Threads, MarkFlushed(t)
      PROVE  Known' \subseteq Known /\ lastId' = lastId
    <2> DEFINE table == Without(Sees(t), {e.id : e \in sent[t]})
    <2>1. EntriesIn(table) \subseteq Known
        <3>1. table \subseteq Sees(t)
            BY DEF Without
        <3> QED
            BY <3>1, EntriesMonotone, KnownParts
    <2>2. Writes(t, table)
        BY <1>6 DEF MarkFlushed
    <2> HIDE DEF table
    <2>3. /\ EntriesIn(rows)' \subseteq Known
          /\ \A u \in Threads : EntriesIn(view'[u]) \subseteq Known
        BY <2>1, <2>2, WriteKnows
    <2>4. \A u \in Threads : sent'[u] \subseteq sent[u]
        BY <1>6 DEF MarkFlushed, CallerTyped
    <2>5. UNCHANGED <<lastId, todo>>
        BY <1>6 DEF MarkFlushed
    <2>6. \A u \in Threads : todo'[u] \subseteq Known /\ sent'[u] \subseteq Known
        BY <2>4, <2>5, KnownParts
    <2> QED
        BY <2>3, <2>5, <2>6, KnownWithin
<1>7. ASSUME NEW t \in Threads, ClearAll(t)
      PROVE  Known' \subseteq Known /\ lastId' = lastId
    <2>1. EntriesIn({}) \subseteq Known
        BY DEF EntriesIn
    <2>2. /\ EntriesIn(rows)' \subseteq Known
          /\ \A u \in Threads : EntriesIn(view'[u]) \subseteq Known
        BY <1>7, <2>1, WriteKnows DEF ClearAll
    <2>3. UNCHANGED <<lastId, todo, sent>>
        BY <1>7 DEF ClearAll, callerVars
    <2> QED
        BY <2>2, <2>3, KnownParts, KnownWithin
<1>8. CASE Crash \/ \E t \in Threads : Close(t)
    <2>1. UNCHANGED <<rows, lastId>>
        BY <1>8 DEF Crash, Close
    <2>2. \A u \in Threads : view'[u] = view[u] \/ view'[u] = {}
        BY <1>8 DEF Crash, Close, Connected, TablesTyped
    <2>3. \A u \in Threads : todo'[u] \subseteq todo[u] /\ sent'[u] \subseteq sent[u]
        BY <1>8 DEF Crash, Close, callerVars
    <2>4. EntriesIn({}) = {} /\ EntriesIn(rows)' = EntriesIn(rows)
        BY <2>1 DEF EntriesIn
    <2>5. /\ EntriesIn(rows)' \subseteq Known
          /\ \A u \in Threads : EntriesIn(view'[u]) \subseteq Known
        BY <2>2, <2>4, KnownParts
    <2>6. \A u \in Threads : todo'[u] \subseteq Known /\ sent'[u] \subseteq Known
        BY <2>3, KnownParts
    <2> QED
        BY <2>1, <2>5, <2>6, KnownWithin
<1>9. CASE UNCHANGED vars
    BY <1>9 DEF vars, Known, EntriesIn
<1> QED
    BY <1>1, <1>2, <1>3, <1>4, <1>5, <1>6, <1>7, <1>8, <1>9 DEF Next, Operation, Enqueue

\* An id is given once, so that it never comes to mean another entry.
LEMMA StepKeepsIds ==
    ASSUME Connected, CallerTyped, IdsAreUnique, [Next]_vars
    PROVE  IdsAreUnique'
<1>1. ASSUME NEW t \in Threads, NEW k \in Keys \cup {NoKey}, Store(t, k)
      PROVE  IdsAreUnique'
    <2> DEFINE row == [id |-> lastId + 1, key |-> k, tries |-> 0]
               table == WithRoom(Sees(t)) \cup {row}
               K == Known \cup {Entry(row)}
    <2>1. Entry(row).id = lastId + 1 /\ lastId \in Nat /\ lastId' = lastId + 1
        BY <1>1, OutboxConstantsOK DEF Entry, Store, CallerTyped
    <2>2. EntriesIn(table) \subseteq K
        <3>1. WithRoom(Sees(t)) \subseteq Sees(t)
            BY DEF WithRoom
        <3>2. EntriesIn(WithRoom(Sees(t))) \subseteq Known
            BY <3>1, EntriesMonotone, KnownParts
        <3>3. EntriesIn(table) = EntriesIn(WithRoom(Sees(t))) \cup {Entry(row)}
            BY DEF EntriesIn
        <3> QED
            BY <3>2, <3>3
    <2>3. Commits(t, table)
        BY <1>1 DEF Store
    <2>4. UNCHANGED <<todo, sent>>
        BY <1>1 DEF Store, callerVars
    <2> HIDE DEF table, row
    <2>5. Known \subseteq K
        OBVIOUS
    <2> HIDE DEF K
    <2>6. /\ EntriesIn(rows)' \subseteq K
          /\ \A u \in Threads : EntriesIn(view'[u]) \subseteq K
        BY <2>2, <2>3, <2>5, CommitKnows
    <2>7. Known' \subseteq K
        BY <2>4, <2>5, <2>6, KnownParts, KnownWithin
    <2>8. \A e \in Known : e.id \in Nat
        <3>1. \A r \in Rows : Entry(r).id \in Nat
            BY DEF Rows, Entry
        <3>2. \A e \in Entries : e.id \in Nat
            BY DEF Entries
        <3>3. \A e \in EntriesIn(rows) : e.id \in Nat
            BY <3>1 DEF EntriesIn, Connected, TablesTyped
        <3>4. \A u \in Threads : \A e \in EntriesIn(view[u]) : e.id \in Nat
            BY <3>1 DEF EntriesIn, Connected, TablesTyped
        <3>5. \A u \in Threads : todo[u] \subseteq Entries /\ sent[u] \subseteq Entries
            BY DEF CallerTyped
        <3> QED
            BY <3>2, <3>3, <3>4, <3>5 DEF Known
    <2>9. \A e \in K : e \in Known \/ e = Entry(row)
        BY DEF K
    <2> QED
        BY <2>1, <2>7, <2>8, <2>9 DEF IdsAreUnique
<1>2. CASE ~ \E t \in Threads : \E k \in Keys \cup {NoKey} : Store(t, k)
    <2>1. Known' \subseteq Known /\ lastId' = lastId
        BY <1>2, StepKnows
    <2> QED
        BY <2>1 DEF IdsAreUnique
<1> QED
    BY <1>1, <1>2

-----------------------------------------------------------------------------
(* The inductive invariant *)

LEMMA BoxInvInit == Init => BoxInv
<1> SUFFICES ASSUME Init PROVE BoxInv
    OBVIOUS
<1>1. Connected
    BY FitsEmpty DEF Init, Connected, TablesTyped, ConnStates, Sized, OneWriter,
       FreshIsCurrent, WriterIsNear
<1>2. CallerTyped /\ SentIsDelivered
    <2>1. lastId \in 0..MaxId
        BY OutboxConstantsOK DEF Init
    <2>2. ignored \in BOOLEAN
        BY Zenon DEF Init
    <2>3. /\ todo \in [Threads -> SUBSET Entries]
          /\ sent \in [Threads -> SUBSET Entries]
          /\ delivered \subseteq Entries
        BY DEF Init
    <2> QED
        BY <2>1, <2>2, <2>3 DEF Init, CallerTyped, SentIsDelivered
<1>3. Known = {}
    BY DEF Init, Known, EntriesIn
<1> QED
    BY <1>1, <1>2, <1>3 DEF BoxInv, IdsAreUnique

LEMMA BoxInvNext == BoxInv /\ [Next]_vars => BoxInv'
BY StepKeepsConnected, StepKeepsCallers, StepKeepsIds, StepKeepsSent DEF BoxInv

LEMMA BoxInvariant == Spec => []BoxInv
BY BoxInvInit, BoxInvNext, PTL DEF Spec

\* The queue's tables, transactions and callers stay within their types, the
\* committed queue within its limit (outbox.py:112).
THEOREM TypeCorrect == Spec => []TypeOK
<1>1. BoxInv => TypeOK
    BY DEF BoxInv, Connected, TablesTyped, Sized, Fits, CallerTyped, TypeOK
<1> QED
    BY <1>1, BoxInvariant, PTL

\* However many duplicates are ignored at capacity, one eviction is pending and
\* it is the oldest row of a full queue (outbox.py:112-136).
THEOREM DuplicatesEvictOnce == Spec => []OneEvictionPending
<1>1. BoxInv => OneEvictionPending
    BY DEF BoxInv, Connected, Sized, Fits, WriterIsNear, NearlyCurrent, OneEvictionPending
<1> QED
    BY <1>1, BoxInvariant, PTL

-----------------------------------------------------------------------------

\* Rows leave a writer's table by eviction only.
LEMMA UnseenIsOldest ==
    ASSUME NEW table, NearlyCurrent(table), NEW row \in rows, row \notin table
    PROVE  Cardinality(rows) = MaxEntries /\ row \in Oldest(rows)
BY DEF NearlyCurrent

Leaves(row) ==
    \/ \E other \in rows' : Entry(other) = Entry(row)
    \/ Entry(row) \in delivered
    \/ Cardinality(rows) = MaxEntries /\ row \in Oldest(rows)

LEMMA LeavesForAReason ==
    ASSUME BoxInv, [Next]_vars, ~ \E t \in Threads : ClearAll(t), NEW row \in rows
    PROVE  Leaves(row)
<1> USE DEF BoxInv
<1>1. ASSUME NEW t \in Threads, NEW k \in Keys \cup {NoKey}, Store(t, k)
      PROVE  Leaves(row)
    <2>1. NearlyCurrent(WithRoom(Sees(t)))
        BY <1>1, RoomIsNear DEF Store
    <2>2. WithRoom(Sees(t)) \subseteq rows'
        BY <1>1 DEF Store, Commits
    <2> QED
        BY <2>1, <2>2, UnseenIsOldest DEF Leaves
<1>2. ASSUME NEW t \in Threads, NEW e \in todo[t], RecordAttempt(t, e)
      PROVE  Leaves(row)
    <2>1. CASE MayWrite(t)
        <3>1. rows' = Attempted(Sees(t), e.id)
            BY <1>2, <2>1 DEF RecordAttempt, Writes, Commits
        <3>2. EntriesIn(rows)' = EntriesIn(Sees(t))
            BY <3>1, SeesFits, AttemptKeepsEntries DEF EntriesIn
        <3>3. NearlyCurrent(Sees(t))
            BY <2>1, WritersSeeNearly
        <3>4. CASE row \in Sees(t)
            BY <3>2, <3>4 DEF EntriesIn, Leaves
        <3>5. CASE row \notin Sees(t)
            BY <3>3, <3>5, UnseenIsOldest DEF Leaves
        <3> QED
            BY <3>4, <3>5
    <2>2. CASE ~MayWrite(t)
        BY <1>2, <2>2 DEF RecordAttempt, Writes, Refused, Leaves
    <2> QED
        BY <2>1, <2>2
<1>3. ASSUME NEW t \in Threads, MarkFlushed(t) PROVE Leaves(row)
    <2>1. CASE MayWrite(t)
        <3>1. rows' = {r \in Sees(t) : r.id \notin {e.id : e \in sent[t]}}
            BY <1>3, <2>1 DEF MarkFlushed, Writes, Commits, Without
        <3>2. NearlyCurrent(Sees(t))
            BY <2>1, WritersSeeNearly
        <3>3. CASE row \notin Sees(t)
            BY <3>2, <3>3, UnseenIsOldest DEF Leaves
        <3>4. CASE row \in rows'
            BY <3>4 DEF Leaves
        <3>5. ASSUME NEW e \in sent[t], row.id = e.id PROVE Leaves(row)
            <4>1. Entry(row) \in Known /\ e \in Known
                BY KnownParts DEF EntriesIn
            <4>2. Entry(row).id = e.id
                BY <3>5 DEF Entry
            <4>3. Entry(row) = e
                BY <4>1, <4>2 DEF IdsAreUnique
            <4> QED
                BY <4>3 DEF SentIsDelivered, Leaves
        <3> QED
            BY <3>1, <3>3, <3>4, <3>5
    <2>2. CASE ~MayWrite(t)
        BY <1>3, <2>2 DEF MarkFlushed, Writes, Refused, Leaves
    <2> QED
        BY <2>1, <2>2
<1>4. ASSUME rows' = rows PROVE Leaves(row)
    BY <1>4 DEF Leaves
<1>5. ASSUME NEW t \in Threads, NEW k, IgnoreDuplicate(t, k) PROVE rows' = rows
    BY <1>5 DEF IgnoreDuplicate
<1>6. ASSUME NEW t \in Threads, EnqueueFails(t) \/ DequeueAll(t) \/ Close(t)
      PROVE  rows' = rows
    BY <1>6 DEF EnqueueFails, Refused, DequeueAll, Close
<1>7. ASSUME NEW t \in Threads, NEW e, Delivers(t, e) PROVE rows' = rows
    BY <1>7 DEF Delivers
<1>8. CASE Crash \/ UNCHANGED vars
    BY <1>4, <1>8 DEF Crash, vars
<1> QED
    BY <1>1, <1>2, <1>3, <1>4, <1>5, <1>6, <1>7, <1>8 DEF Next, Operation, Enqueue

\* Short of clear_all, what leaves the queue was delivered or was the oldest row
\* of a full queue (outbox.py:110-136 and 190-214).
THEOREM NothingElseLeaves == Spec => OnlyDeliveredLeave
<1>1. BoxInv /\ [Next]_vars =>
         [(\E t \in Threads : ClearAll(t)) \/
          \A row \in rows :
             \/ \E other \in rows' : Entry(other) = Entry(row)
             \/ Entry(row) \in delivered
             \/ Cardinality(rows) = MaxEntries /\ row \in Oldest(rows)]_vars
    BY LeavesForAReason DEF Leaves
<1> QED
    BY <1>1, BoxInvariant, PTL DEF Spec, OnlyDeliveredLeave

-----------------------------------------------------------------------------

\* Without a duplicate every operation ends its own transaction.
LEMMA LockStep ==
    ASSUME CallerTyped, conn \in [Threads -> ConnStates], LockSuffices, [Next]_vars
    PROVE  LockSuffices'
<1> SUFFICES ASSUME ~ignored' PROVE \A u \in Threads : conn'[u] = "auto"
    BY DEF LockSuffices
<1>1. CASE Crash
    BY <1>1 DEF Crash
<1> SUFFICES ASSUME ~Crash
             PROVE  \A u \in Threads : conn'[u] = "auto"
    BY <1>1
<1>2. ~ignored
    <2>1. ASSUME NEW t \in Threads, NEW k, IgnoreDuplicate(t, k) PROVE FALSE
        BY <2>1 DEF IgnoreDuplicate
    <2>2. ASSUME NEW t \in Threads, NEW k, Store(t, k) PROVE ignored' = ignored
        BY <2>2 DEF Store
    <2>3. ASSUME NEW t \in Threads, EnqueueFails(t) \/ DequeueAll(t) \/ MarkFlushed(t)
                                    \/ ClearAll(t) \/ Close(t)
          PROVE  ignored' = ignored
        BY <2>3 DEF EnqueueFails, DequeueAll, MarkFlushed, ClearAll, Close
    <2>4. ASSUME NEW t \in Threads, NEW e, Delivers(t, e) \/ RecordAttempt(t, e)
          PROVE  ignored' = ignored
        BY <2>4 DEF Delivers, RecordAttempt
    <2>5. ASSUME UNCHANGED vars PROVE ignored' = ignored
        BY <2>5 DEF vars
    <2>6. ASSUME NEW t \in Threads, Enqueue(t) PROVE ignored' = ignored
        BY <2>1, <2>2, <2>3, <2>6 DEF Enqueue
    <2>7. ASSUME NEW t \in Threads, Operation(t) PROVE ignored' = ignored
        <3>1. CASE \E e \in todo[t] : Delivers(t, e) \/ RecordAttempt(t, e)
            BY <2>4, <3>1
        <3> QED
            BY <2>3, <2>6, <2>7, <3>1 DEF Operation
    <2>8. ignored' = ignored
        BY <2>5, <2>7 DEF Next
    <2> QED
        BY <2>8
<1>3. \A u \in Threads : conn[u] = "auto"
    BY <1>2 DEF LockSuffices
<1>4. \A u \in Threads : MayWrite(u)
    BY <1>3 DEF MayWrite
<1>5. ASSUME NEW t \in Threads, NEW table, Writes(t, table)
      PROVE  \A u \in Threads : conn'[u] = "auto"
    BY <1>3, <1>4, <1>5 DEF Writes, Commits
<1>6. ASSUME NEW t \in Threads, NEW k, Store(t, k)
      PROVE  \A u \in Threads : conn'[u] = "auto"
    BY <1>3, <1>6 DEF Store, Commits
<1>7. ASSUME NEW t \in Threads, NEW k, IgnoreDuplicate(t, k) PROVE FALSE
    BY <1>7 DEF IgnoreDuplicate
<1>8. ASSUME NEW t \in Threads, EnqueueFails(t) PROVE FALSE
    BY <1>4, <1>8 DEF EnqueueFails
<1>9. ASSUME NEW t \in Threads, DequeueAll(t) \/ Close(t)
      PROVE  \A u \in Threads : conn'[u] = "auto"
    BY <1>3, <1>9 DEF DequeueAll, Pins, Close
<1>10. ASSUME NEW t \in Threads, NEW e, RecordAttempt(t, e)
       PROVE  \A u \in Threads : conn'[u] = "auto"
    BY <1>5, <1>10 DEF RecordAttempt
<1>11. ASSUME NEW t \in Threads, MarkFlushed(t) \/ ClearAll(t)
       PROVE  \A u \in Threads : conn'[u] = "auto"
    BY <1>5, <1>11 DEF MarkFlushed, ClearAll
<1>12. ASSUME NEW t \in Threads, NEW e, Delivers(t, e)
       PROVE  \A u \in Threads : conn'[u] = "auto"
    BY <1>3, <1>12 DEF Delivers
<1>13. CASE UNCHANGED vars
    BY <1>3, <1>13 DEF vars
<1> QED
    BY <1>6, <1>7, <1>8, <1>9, <1>10, <1>11, <1>12, <1>13 DEF Next, Operation, Enqueue

\* The module lock is enough as long as no duplicate was ignored (outbox.py:7).
THEOREM LockIsEnoughUntilADuplicate == Spec => []LockSuffices
<1>1. Init => LockSuffices
    BY DEF Init, LockSuffices
<1>2. BoxInv /\ LockSuffices /\ [Next]_vars => LockSuffices'
    BY LockStep DEF BoxInv, Connected, TablesTyped
<1> QED
    BY <1>1, <1>2, BoxInvariant, PTL DEF Spec
=============================================================================
