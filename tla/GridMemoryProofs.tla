--------------------------- MODULE GridMemoryProofs ---------------------------
(***************************************************************************)
(* Proofs about GridMemory, for any tasks, threads, limits and faults:     *)
(* the synchroniser writes a task down once, but where it could not see    *)
(* its first entry; no compaction loses a row, touches a synchronised one  *)
(* or the trail of a failure it had read; and all of it is well typed.     *)
(***************************************************************************)
EXTENDS GridMemory, FiniteSetTheorems, SequenceTheorems, TLAPS

Shaped(e) == e = [id |-> e.id, kind |-> e.kind, day |-> e.day, holds |-> e.holds]

\* The rows of the table, and those a compactor has read
Found == UNION {compactor[k].found : k \in Compactors}
Known == entries \cup Found

\* A row is numbered by the rows before it, and no row ever leaves "written".
Numbered ==
    \A kind \in Kinds, t \in Tasks \cup {NoTask} :
        /\ IsFiniteSet(Copies(kind, t))
        /\ \A i \in Copies(kind, t) :
              i.copy \in Nat /\ i.copy <= Cardinality(Copies(kind, t))

\* What a row was made of is settled when it gets its id, so that what a
\* compactor has read does not grow stale in this respect.
Settled ==
    /\ \A e \in Known : e.id \in written
    /\ \A e, f \in Known : e.id = f.id => e.holds = f.holds

Planning ==
    compactor = [k \in Compactors |->
        [phase |-> compactor[k].phase, tier |-> compactor[k].tier,
         protected |-> compactor[k].protected, found |-> compactor[k].found]]

RowsInv ==
    /\ IsFiniteSet(entries)
    /\ \A e \in entries : Shaped(e)
    /\ Numbered
    /\ Settled
    /\ NothingForgotten
    /\ Planning

\* The thread that looks or writes holds the lock; while it writes, the task
\* has no entry, or one that a failing look-up missed.
LockInv ==
    /\ completed \in SUBSET Tasks
    /\ blind \in [Tasks -> Nat]
    /\ syncer = [s \in Syncers |-> syncer[s]]
    /\ \A s \in Syncers : syncer[s].phase \in {"looks", "writes"} =>
          lock = s /\ Head(Queue(s)) \in Tasks
    /\ \A s \in Syncers : syncer[s].phase = "writes" =>
          Cardinality(Syncs(Head(Queue(s)))) <= blind[Head(Queue(s))]
    /\ OneEntryPerTask

MemInv == RowsInv /\ LockInv

-----------------------------------------------------------------------------
(* Rows *)

LEMMA SyncsFinite ==
    ASSUME IsFiniteSet(entries), NEW t
    PROVE  IsFiniteSet(Syncs(t)) /\ Cardinality(Syncs(t)) \in Nat
<1>1. Syncs(t) \in SUBSET entries
    BY DEF Syncs
<1> QED
    BY <1>1, FS_Subset, FS_CardinalityType

\* An insertion gives a new id.
LEMMA InsertFresh ==
    ASSUME Numbered, NEW kind \in Kinds, NEW t \in Tasks \cup {NoTask},
           NEW holds, NEW others, Insert(kind, t, holds, others)
    PROVE  /\ \E id : /\ id \notin written /\ id.kind = kind /\ id.task = t
                      /\ written' = written \cup {id}
                      /\ entries' = others \cup
                            {[id |-> id, kind |-> kind, day |-> day, holds |-> holds]}
           /\ Numbered'
<1>1. PICK C : C = Copies(kind, t)
    OBVIOUS
<1>2. IsFiniteSet(C) /\ \A i \in C : i.copy \in Nat /\ i.copy <= Cardinality(C)
    BY <1>1 DEF Numbered
<1>3. PICK n : n = Cardinality(C) + 1
    OBVIOUS
<1>4. PICK id : id = [kind |-> kind, task |-> t, copy |-> n]
    OBVIOUS
<1>5. id.kind = kind /\ id.task = t /\ id.copy = n
    BY <1>4
<1>6. Cardinality(C) \in Nat
    BY <1>2, FS_CardinalityType
<1>7. id \notin C
    BY <1>2, <1>3, <1>5, <1>6
<1>8. id \notin written
    BY <1>1, <1>5, <1>7 DEF Copies
<1>9. /\ written' = written \cup {id}
      /\ entries' = others \cup
            {[id |-> id, kind |-> kind, day |-> day, holds |-> holds]}
    BY <1>1, <1>3, <1>4 DEF Insert
<1>10. Copies(kind, t)' = C \cup {id}
    BY <1>1, <1>5, <1>9 DEF Copies
<1>11. IsFiniteSet(C \cup {id}) /\ Cardinality(C \cup {id}) = n
    BY <1>2, <1>3, <1>7, FS_AddElement
<1>12. \A i \in C \cup {id} : i.copy \in Nat /\ i.copy <= n
    BY <1>2, <1>3, <1>5, <1>6
<1>13. Numbered'
    <2> SUFFICES ASSUME NEW k \in Kinds, NEW u \in Tasks \cup {NoTask}
                 PROVE  /\ IsFiniteSet(Copies(k, u)')
                        /\ \A i \in Copies(k, u)' :
                              i.copy \in Nat /\ i.copy <= Cardinality(Copies(k, u)')
        BY DEF Numbered
    <2>1. CASE k = kind /\ u = t
        BY <1>10, <1>11, <1>12, <2>1
    <2>2. CASE ~(k = kind /\ u = t)
        <3>1. Copies(k, u)' = Copies(k, u)
            BY <1>5, <1>9, <2>2 DEF Copies
        <3> QED
            BY <3>1 DEF Numbered
    <2> QED
        BY <2>1, <2>2
<1> QED
    BY <1>5, <1>8, <1>9, <1>13

\* A step that leaves the table alone, and learns of no other rows.
LEMMA RowsStay ==
    ASSUME RowsInv, UNCHANGED <<entries, written>>, Planning', Found' \subseteq Known
    PROVE  RowsInv'
<1>1. Numbered'
    BY DEF RowsInv, Numbered, Copies
<1>2. NothingForgotten'
    BY DEF RowsInv, NothingForgotten
<1>3. Known' \subseteq Known
    BY DEF Known
<1>4. Settled'
    BY <1>3 DEF RowsInv, Settled
<1> QED
    BY <1>1, <1>2, <1>4 DEF RowsInv

\* A step that inserts a row and may take others out of the table, provided the
\* new row holds what is lost.
LEMMA InsertKeeps ==
    ASSUME RowsInv, NEW kind \in Kinds, NEW t \in Tasks \cup {NoTask},
           NEW holds, NEW others, Insert(kind, t, holds, others),
           IsFiniteSet(others),
           \A o \in others :
               Shaped(o) /\ \E e \in entries : o.id = e.id /\ o.holds = e.holds,
           \A e \in entries :
               \/ \E o \in others : o.id = e.id /\ o.holds = e.holds
               \/ e.id \in holds /\ e.holds \subseteq holds,
           Planning', Found' \subseteq Found
    PROVE  RowsInv'
<1>1. PICK id :
        /\ id \notin written
        /\ written' = written \cup {id}
        /\ entries' = others \cup {[id |-> id, kind |-> kind, day |-> day, holds |-> holds]}
    BY InsertFresh DEF RowsInv
<1>2. PICK row : row = [id |-> id, kind |-> kind, day |-> day, holds |-> holds]
    OBVIOUS
<1>3. row.id = id /\ row.holds = holds /\ Shaped(row) /\ entries' = others \cup {row}
    BY <1>1, <1>2 DEF Shaped
<1>4. IsFiniteSet(entries')
    BY <1>3, FS_AddElement
<1>5. \A e \in entries' : Shaped(e)
    BY <1>3
<1>6. Numbered'
    BY InsertFresh DEF RowsInv
<1>7. Settled'
    <2>1. ASSUME NEW e \in Known', e # row
          PROVE  \E f \in Known : e.id = f.id /\ e.holds = f.holds
        BY <1>3, <2>1 DEF Known
    <2>2. ASSUME NEW e \in Known' PROVE e.id \in written'
        <3>1. CASE e = row
            BY <1>1, <1>3, <3>1
        <3>2. CASE e # row
            BY <1>1, <2>1, <3>2 DEF RowsInv, Settled
        <3> QED
            BY <3>1, <3>2
    <2>3. ASSUME NEW e \in Known', NEW f \in Known', e.id = f.id
          PROVE  e.holds = f.holds
        <3>1. CASE e # row /\ f # row
            <4>1. PICK x \in Known : e.id = x.id /\ e.holds = x.holds
                BY <2>1, <3>1
            <4>2. PICK y \in Known : f.id = y.id /\ f.holds = y.holds
                BY <2>1, <3>1
            <4> QED
                BY <2>3, <4>1, <4>2 DEF RowsInv, Settled
        <3>2. ASSUME NEW x \in Known', x # row PROVE x.id # id
            BY <1>1, <2>1, <3>2 DEF RowsInv, Settled
        <3> QED
            BY <1>3, <2>3, <3>1, <3>2
    <2> QED
        BY <2>2, <2>3 DEF Settled
<1>8. NothingForgotten'
    <2> SUFFICES ASSUME NEW i \in written'
                 PROVE  \E e \in entries' : i = e.id \/ i \in e.holds
        BY DEF NothingForgotten
    <2>1. CASE i = id
        BY <1>3, <2>1
    <2>2. CASE i \in written
        <3>1. PICK e \in entries : i = e.id \/ i \in e.holds
            BY <2>2 DEF RowsInv, NothingForgotten
        <3>2. CASE \E o \in others : o.id = e.id /\ o.holds = e.holds
            BY <1>3, <3>1, <3>2
        <3>3. CASE e.id \in holds /\ e.holds \subseteq holds
            BY <1>3, <3>1, <3>3
        <3> QED
            BY <3>2, <3>3
    <2> QED
        BY <1>1, <2>1, <2>2
<1> QED
    BY <1>4, <1>5, <1>6, <1>7, <1>8 DEF RowsInv

-----------------------------------------------------------------------------
(* The compactors *)

Working(p, tier, prot, found) ==
    [phase |-> p, tier |-> tier, protected |-> prot, found |-> found]

IsWorking(c) == c = Working(c.phase, c.tier, c.protected, c.found)

LEMMA CompactorIs ==
    ASSUME Planning, NEW k \in Compactors, NEW c, c = compactor[k]
    PROVE  IsWorking(c)
BY DEF Planning, Working, IsWorking

LEMMA PhaseSet ==
    ASSUME NEW c, IsWorking(c), NEW x
    PROVE  [c EXCEPT !.phase = x] = Working(x, c.tier, c.protected, c.found)
BY DEF IsWorking, Working

LEMMA FoundSet ==
    ASSUME NEW c, IsWorking(c), NEW x
    PROVE  [c EXCEPT !.found = x] = Working(c.phase, c.tier, c.protected, x)
BY DEF IsWorking, Working

LEMMA CompactorMoves ==
    ASSUME Planning, NEW k \in Compactors,
           NEW p, NEW tier, NEW prot, NEW found,
           Becomes(k, Working(p, tier, prot, found))
    PROVE  /\ Planning'
           /\ Found' \subseteq Found \cup found
           /\ found \subseteq compactor[k].found => Found' \subseteq Found
<1> PICK r : r = Working(p, tier, prot, found)
    OBVIOUS
<1>1. compactor' = [j \in Compactors |-> IF j = k THEN r ELSE compactor[j]]
    BY DEF Planning, Becomes
<1>2. r = [phase |-> r.phase, tier |-> r.tier, protected |-> r.protected, found |-> r.found]
      /\ r.found = found
    BY DEF Working
<1>3. Planning'
    <2>1. ASSUME NEW j \in Compactors
          PROVE  compactor'[j] = [phase |-> compactor'[j].phase, tier |-> compactor'[j].tier,
                                  protected |-> compactor'[j].protected,
                                  found |-> compactor'[j].found]
        <3>1. CASE j = k
            BY <1>1, <1>2, <3>1
        <3>2. CASE j # k
            <4>1. compactor'[j] = compactor[j]
                BY <1>1, <3>2
            <4> QED
                BY <4>1, CompactorIs DEF Working, IsWorking
        <3> QED
            BY <3>1, <3>2
    <2>2. compactor' = [j \in Compactors |-> compactor'[j]]
        BY <1>1
    <2> QED
        BY <2>1, <2>2 DEF Planning
<1>4. \A j \in Compactors : compactor'[j].found = IF j = k THEN found ELSE compactor[j].found
    BY <1>1, <1>2
<1> QED
    BY <1>3, <1>4 DEF Found

LEMMA StartStep ==
    ASSUME NEW k \in Compactors, NEW tier, StartCompaction(k, tier)
    PROVE  Becomes(k, Working("protected", tier, failing, {}))
<1>1. PICK a : a = [Rest EXCEPT !.phase = "protected"]
    OBVIOUS
<1>2. a = Working("protected", "compress", {}, {})
    BY <1>1 DEF Rest, Working
<1>3. PICK b : b = [a EXCEPT !.tier = tier]
    OBVIOUS
<1>4. b = Working("protected", tier, {}, {})
    BY <1>2, <1>3 DEF Working
<1>5. [b EXCEPT !.protected = failing] = Working("protected", tier, failing, {})
    BY <1>4 DEF Working
<1> QED
    BY <1>1, <1>3, <1>5 DEF StartCompaction

LEMMA StartCompactionKeeps ==
    ASSUME RowsInv, NEW k \in Compactors, NEW tier, StartCompaction(k, tier)
    PROVE  RowsInv'
<1>1. Becomes(k, Working("protected", tier, failing, {}))
    BY StartStep
<1>2. Planning' /\ Found' \subseteq Found
    BY <1>1, CompactorMoves DEF RowsInv
<1> QED
    BY <1>2, RowsStay DEF StartCompaction, dbVars, Known

LEMMA ReadCandidatesKeeps ==
    ASSUME RowsInv, NEW k \in Compactors, ReadCandidates(k)
    PROVE  RowsInv'
<1> PICK c : c = compactor[k]
    OBVIOUS
<1>1. CASE Becomes(k, Rest)
    <2>1. Becomes(k, Working("idle", "compress", {}, {}))
        BY <1>1 DEF Rest, Working
    <2>2. Planning' /\ Found' \subseteq Found
        BY <2>1, CompactorMoves DEF RowsInv
    <2> QED
        BY <2>2, RowsStay DEF ReadCandidates, dbVars, Known
<1>2. CASE Becomes(k, [c EXCEPT !.phase = "writes", !.found = Candidates(c)])
    <2> PICK found : found = Candidates(c)
        OBVIOUS
    <2>1. found \subseteq entries
        BY DEF Candidates
    <2>2. PICK a : a = [c EXCEPT !.phase = "writes"]
        OBVIOUS
    <2>3. a = Working("writes", c.tier, c.protected, c.found)
        BY <2>2, CompactorIs, PhaseSet DEF RowsInv
    <2>4. Becomes(k, Working("writes", c.tier, c.protected, found))
        <3>1. [a EXCEPT !.found = found] = Working("writes", c.tier, c.protected, found)
            BY <2>3 DEF Working
        <3> QED
            BY <1>2, <2>2, <3>1
    <2>5. Planning' /\ Found' \subseteq Found \cup found
        BY <2>4, CompactorMoves DEF RowsInv
    <2> QED
        BY <2>1, <2>5, RowsStay DEF ReadCandidates, dbVars, Known
<1> QED
    BY <1>1, <1>2 DEF ReadCandidates

LEMMA CompactionFailsKeeps ==
    ASSUME RowsInv, NEW k \in Compactors, CompactionFails(k)
    PROVE  RowsInv'
<1>1. Becomes(k, Working("idle", "compress", {}, {}))
    BY DEF CompactionFails, Rest, Working
<1>2. Planning' /\ Found' \subseteq Found
    BY <1>1, CompactorMoves DEF RowsInv
<1> QED
    BY <1>2, RowsStay DEF CompactionFails, dbVars, Known

\* The table after a transaction of a compactor, but for the digest: nothing
\* in it is new, and what is gone was read.
LEMMA Replaced ==
    ASSUME RowsInv, NEW tier, NEW group \in SUBSET Found, NEW others,
           others = Replace(tier, group)
    PROVE  /\ IsFiniteSet(others)
           /\ \A o \in others :
                 /\ Shaped(o)
                 /\ \E e \in entries : o.id = e.id /\ o.holds = e.holds
                 /\ o.kind = "archived" \/ o \in entries
           /\ \A e \in entries :
                 \/ \E o \in others : o.id = e.id /\ o.holds = e.holds
                 \/ e.id \in Holds(group) /\ e.holds \subseteq Holds(group)
<1> PICK sources : sources = {e \in entries : e.id \in IdsOf(group)}
    OBVIOUS
<1> DEFINE archive(e) == [e EXCEPT !.kind = "archived"]
<1>1. others = (entries \ sources) \cup
                  (IF tier = "compress" THEN {} ELSE {archive(e) : e \in sources})
    BY DEF Replace
<1>2. \A e \in sources :
          Shaped(archive(e)) /\ archive(e).id = e.id /\ archive(e).holds = e.holds
          /\ archive(e).kind = "archived"
    BY DEF RowsInv, Shaped
<1>3. sources \in SUBSET entries /\ (entries \ sources) \in SUBSET entries
    OBVIOUS
<1>4. IsFiniteSet(sources) /\ IsFiniteSet(entries \ sources)
    BY <1>3, FS_Subset DEF RowsInv
<1>5. IsFiniteSet({archive(e) : e \in sources})
    <2> DEFINE f == [e \in sources |-> archive(e)]
    <2>1. f \in Surjection(sources, {archive(e) : e \in sources})
        BY DEF Surjection
    <2> QED
        BY <1>4, <2>1, FS_Surjection
<1>6. IsFiniteSet(others)
    <2>1. CASE tier = "compress"
        <3>1. others = entries \ sources
            BY <1>1, <2>1
        <3> QED
            BY <1>4, <3>1
    <2>2. CASE tier # "compress"
        <3>1. PICK archived : archived = {archive(e) : e \in sources}
            OBVIOUS
        <3>2. PICK kept : kept = entries \ sources
            OBVIOUS
        <3>3. others = kept \cup archived
            BY <1>1, <2>2, <3>1, <3>2
        <3>4. IsFiniteSet(kept) /\ IsFiniteSet(archived)
            BY <1>4, <1>5, <3>1, <3>2
        <3>5. IsFiniteSet(kept \cup archived)
            BY <3>4, FS_Union
        <3> QED
            BY <3>3, <3>5
    <2> QED
        BY <2>1, <2>2
<1> HIDE DEF archive
<1>7. ASSUME NEW o \in others
      PROVE  /\ Shaped(o)
             /\ \E e \in entries : o.id = e.id /\ o.holds = e.holds
             /\ o.kind = "archived" \/ o \in entries
    <2>1. CASE o \in entries
        BY <2>1 DEF RowsInv
    <2>2. CASE \E e \in sources : o = archive(e)
        BY <1>2, <2>2
    <2> QED
        BY <1>1, <2>1, <2>2
<1>8. ASSUME NEW e \in entries
      PROVE  \/ \E o \in others : o.id = e.id /\ o.holds = e.holds
             \/ e.id \in Holds(group) /\ e.holds \subseteq Holds(group)
    <2>1. CASE e \notin sources
        BY <1>1, <2>1
    <2>2. CASE e \in sources
        <3>1. PICK f \in group : f.id = e.id
            BY <2>2 DEF IdsOf
        <3>2. f.holds = e.holds
            BY <3>1 DEF RowsInv, Settled, Known
        <3> QED
            BY <3>1, <3>2 DEF Holds, IdsOf
    <2> QED
        BY <2>1, <2>2
<1> QED
    BY <1>6, <1>7, <1>8

\* A transaction is about some of the rows the compactor has listed.
LEMMA DigestStep ==
    ASSUME NEW k \in Compactors, WriteDigest(k), NEW c, c = compactor[k]
    PROVE  \E group, left, kind :
              /\ group \in SUBSET c.found /\ left = c.found \ group
              /\ kind \in {"compressed", "summary"}
              /\ Insert(kind, NoTask, Holds(group), Replace(c.tier, group))
              /\ Becomes(k, IF left = {} THEN Rest ELSE [c EXCEPT !.found = left])
<1>1. PICK first : first = CHOOSE e \in c.found : \A f \in c.found : e.day <= f.day
    OBVIOUS
<1>2. PICK group : group = Group(c.tier, c.found, first)
    OBVIOUS
<1>3. group \in SUBSET c.found
    BY <1>2 DEF Group
<1>4. PICK kind : kind = IF c.tier = "compress" THEN "compressed" ELSE "summary"
    OBVIOUS
<1>5. Insert(kind, NoTask, Holds(group), Replace(c.tier, group))
    BY <1>1, <1>2, <1>4 DEF WriteDigest
<1>6. Becomes(k, IF c.found \ group = {} THEN Rest
                 ELSE [c EXCEPT !.found = c.found \ group])
    BY <1>1, <1>2 DEF WriteDigest
<1>7. kind \in {"compressed", "summary"}
    BY <1>4
<1> QED
    BY <1>3, <1>5, <1>6, <1>7

LEMMA WriteDigestRows ==
    ASSUME RowsInv, NEW k \in Compactors, WriteDigest(k)
    PROVE  /\ RowsInv'
           /\ \A e \in entries' : e.kind = "task_result" => e \in entries
<1> PICK c : c = compactor[k]
    OBVIOUS
<1>1. PICK group, left, kind :
        /\ group \in SUBSET c.found /\ left = c.found \ group
        /\ kind \in {"compressed", "summary"}
        /\ Insert(kind, NoTask, Holds(group), Replace(c.tier, group))
        /\ Becomes(k, IF left = {} THEN Rest ELSE [c EXCEPT !.found = left])
    BY DigestStep
<1>2. PICK others : others = Replace(c.tier, group)
    OBVIOUS
<1>3. group \in SUBSET Found
    BY <1>1 DEF Found
<1>4. Planning' /\ Found' \subseteq Found
    <2>1. CASE left = {}
        <3>1. Becomes(k, Working("idle", "compress", {}, {}))
            BY <1>1, <2>1 DEF Rest, Working
        <3> QED
            BY <3>1, CompactorMoves DEF RowsInv
    <2>2. CASE left # {}
        <3>1. [c EXCEPT !.found = left] = Working(c.phase, c.tier, c.protected, left)
            <4>1. IsWorking(c)
                BY CompactorIs DEF RowsInv
            <4> QED
                BY <4>1, FoundSet
        <3>2. Becomes(k, Working(c.phase, c.tier, c.protected, left))
            BY <1>1, <2>2, <3>1
        <3>3. left \subseteq c.found
            BY <1>1
        <3> QED
            BY <3>2, <3>3, CompactorMoves DEF RowsInv
    <2> QED
        BY <2>1, <2>2
<1>5. kind \in Kinds /\ kind # "task_result" /\ NoTask \in Tasks \cup {NoTask}
    BY <1>1 DEF Kinds
<1>6. /\ IsFiniteSet(others)
      /\ \A o \in others :
            /\ Shaped(o)
            /\ \E e \in entries : o.id = e.id /\ o.holds = e.holds
            /\ o.kind = "archived" \/ o \in entries
      /\ \A e \in entries :
            \/ \E o \in others : o.id = e.id /\ o.holds = e.holds
            \/ e.id \in Holds(group) /\ e.holds \subseteq Holds(group)
    BY <1>2, <1>3, Replaced
<1>7. PICK holds : holds = Holds(group)
    OBVIOUS
<1>8. Insert(kind, NoTask, holds, others)
    BY <1>1, <1>2, <1>7
<1>9. RowsInv'
    BY <1>4, <1>5, <1>6, <1>7, <1>8, InsertKeeps
<1>10. \A e \in entries' : e.kind = "task_result" => e \in entries
    <2>1. PICK id :
            /\ id \notin written
            /\ written' = written \cup {id}
            /\ entries' = others \cup
                  {[id |-> id, kind |-> kind, day |-> day, holds |-> holds]}
        BY <1>5, <1>8, InsertFresh DEF RowsInv
    <2> QED
        BY <1>5, <1>6, <2>1
<1> QED
    BY <1>9, <1>10

LEMMA TableStill ==
    ASSUME RowsInv, UNCHANGED <<entries, written, compactor>>
    PROVE  RowsInv'
<1>1. Planning' /\ Found' \subseteq Known
    BY DEF RowsInv, Planning, Known, Found
<1> QED
    BY <1>1, RowsStay

LEMMA PlainInsert ==
    ASSUME RowsInv, NEW kind \in Kinds, NEW t \in Tasks \cup {NoTask},
           Insert(kind, t, {}, entries), UNCHANGED compactor
    PROVE  RowsInv'
<1>1. Planning' /\ Found' \subseteq Found
    BY DEF RowsInv, Planning, Found
<1>2. IsFiniteSet(entries) /\ \A e \in entries : Shaped(e)
    BY DEF RowsInv
<1> QED
    BY <1>1, <1>2, InsertKeeps

-----------------------------------------------------------------------------
(* The lock *)

\* No thread but s looks or writes.
Alone(s) == \A r \in Syncers \ {s} : syncer[r].phase \notin {"looks", "writes"}

LEMMA HolderAlone ==
    ASSUME LockInv, NEW s \in Syncers, lock \in {s, NoSyncer}
    PROVE  Alone(s)
BY ConstantsOK DEF LockInv, Alone

LEMMA SyncerMoves ==
    ASSUME LockInv, NEW s \in Syncers, NEW p, NEW q, Set(s, p, q)
    PROVE  /\ syncer' = [r \in Syncers |-> syncer'[r]]
           /\ syncer'[s].phase = p /\ Queue(s)' = q
           /\ \A r \in Syncers \ {s} : syncer'[r] = syncer[r] /\ Queue(r)' = Queue(r)
<1> PICK new : new = [phase |-> p, queue |-> q]
    OBVIOUS
<1>1. syncer' = [r \in Syncers |-> IF r = s THEN new ELSE syncer[r]]
    BY DEF LockInv, Set
<1>2. new.phase = p /\ new.queue = q
    OBVIOUS
<1>3. syncer'[s] = new /\ \A r \in Syncers \ {s} : syncer'[r] = syncer[r]
    BY <1>1
<1>4. syncer' = [r \in Syncers |-> syncer'[r]]
    BY <1>1
<1> QED
    BY <1>2, <1>3, <1>4 DEF Queue

\* A step that brings no synchronised entry and moves no thread.
LEMMA ThreadsStay ==
    ASSUME RowsInv, LockInv, UNCHANGED <<lock, syncer, blind>>,
           completed' \in SUBSET Tasks,
           \A e \in entries' : e.kind = "task_result" => e \in entries
    PROVE  LockInv'
<1>1. ASSUME NEW t \in Tasks PROVE Cardinality(Syncs(t)') <= Cardinality(Syncs(t))
    <2>1. PICK S : S = Syncs(t)
        OBVIOUS
    <2>2. Syncs(t)' \in SUBSET S
        BY <2>1 DEF Syncs
    <2>3. IsFiniteSet(S)
        BY <2>1, SyncsFinite DEF RowsInv
    <2> QED
        BY <2>1, <2>2, <2>3, FS_Subset
<1>2. ASSUME NEW t \in Tasks
      PROVE  /\ Cardinality(Syncs(t)) \in Nat /\ Cardinality(Syncs(t)') \in Nat
    <2>1. PICK S : S = Syncs(t)
        OBVIOUS
    <2>2. PICK T : T = Syncs(t)'
        OBVIOUS
    <2>3. T \in SUBSET S
        BY <2>1, <2>2 DEF Syncs
    <2>4. IsFiniteSet(S)
        BY <2>1, SyncsFinite DEF RowsInv
    <2>5. IsFiniteSet(T)
        BY <2>3, <2>4, FS_Subset
    <2> QED
        BY <2>1, <2>2, <2>4, <2>5, FS_CardinalityType
<1>3. \A t \in Tasks : blind[t] \in Nat /\ blind'[t] = blind[t]
    BY DEF LockInv
<1>4. OneEntryPerTask'
    <2> SUFFICES ASSUME NEW t \in Tasks
                 PROVE  Cardinality(Syncs(t)') <= 1 + blind'[t]
        BY DEF OneEntryPerTask
    <2>1. Cardinality(Syncs(t)) <= 1 + blind[t]
        BY DEF LockInv, OneEntryPerTask
    <2> QED
        BY <1>1, <1>2, <1>3, <2>1
<1>5. ASSUME NEW s \in Syncers, syncer'[s].phase = "writes",
             NEW t, t = Head(Queue(s))
      PROVE  Cardinality(Syncs(t)') <= blind'[t]
    <2>1. t \in Tasks /\ Cardinality(Syncs(t)) <= blind[t]
        BY <1>5 DEF LockInv
    <2> QED
        BY <1>1, <1>2, <1>3, <2>1
<1>6. \A s \in Syncers : Queue(s)' = Queue(s)
    BY DEF Queue
<1> QED
    BY <1>4, <1>5, <1>6 DEF LockInv, Syncs

\* A thread moves on, and no longer looks or writes.
LEMMA QuietMove ==
    ASSUME LockInv, NEW s \in Syncers, NEW p \in {"idle", "batch", "wants"}, NEW q,
           Set(s, p, q), lock' = lock \/ Alone(s), UNCHANGED <<completed, entries, blind>>
    PROVE  LockInv'
<1>1. OneEntryPerTask'
    BY DEF LockInv, OneEntryPerTask, Syncs
<1>2. ASSUME NEW r \in Syncers, syncer'[r].phase \in {"looks", "writes"}
      PROVE  /\ lock' = r /\ Head(Queue(r)') \in Tasks
             /\ syncer'[r].phase = "writes" =>
                   Cardinality(Syncs(Head(Queue(r)'))) <= blind[Head(Queue(r)')]
    <2>1. r # s
        BY <1>2, SyncerMoves
    <2>2. syncer'[r] = syncer[r] /\ Queue(r)' = Queue(r)
        BY <2>1, SyncerMoves
    <2>3. lock' = lock
        BY <1>2, <2>1, <2>2 DEF Alone
    <2> QED
        BY <1>2, <2>2, <2>3 DEF LockInv
<1>3. syncer' = [r \in Syncers |-> syncer'[r]]
    BY SyncerMoves
<1> QED
    BY <1>1, <1>2, <1>3 DEF LockInv, Syncs

\* The thread that holds the lock, or just got it, looks or writes.
LEMMA HolderMoves ==
    ASSUME LockInv, NEW s \in Syncers, Alone(s), NEW p \in {"looks", "writes"}, NEW q,
           Set(s, p, q), lock' = s, UNCHANGED <<completed, entries>>,
           Head(q) \in Tasks, blind' \in [Tasks -> Nat],
           \A t \in Tasks : blind[t] <= blind'[t],
           p = "writes" => Cardinality(Syncs(Head(q))) <= blind'[Head(q)],
           IsFiniteSet(entries)
    PROVE  LockInv'
<1>1. OneEntryPerTask'
    <2> SUFFICES ASSUME NEW t \in Tasks PROVE Cardinality(Syncs(t)') <= 1 + blind'[t]
        BY DEF OneEntryPerTask
    <2>1. Cardinality(Syncs(t)) <= 1 + blind[t] /\ Cardinality(Syncs(t)) \in Nat
        BY SyncsFinite DEF LockInv, OneEntryPerTask
    <2>2. Syncs(t)' = Syncs(t)
        BY DEF Syncs
    <2>3. blind[t] \in Nat /\ blind'[t] \in Nat
        BY DEF LockInv
    <2> QED
        BY <2>1, <2>2, <2>3
<1>2. ASSUME NEW r \in Syncers, syncer'[r].phase \in {"looks", "writes"}
      PROVE  /\ lock' = r /\ Head(Queue(r)') \in Tasks
             /\ syncer'[r].phase = "writes" =>
                   Cardinality(Syncs(Head(Queue(r)'))) <= blind'[Head(Queue(r)')]
    <2>1. r = s
        BY <1>2, SyncerMoves DEF Alone
    <2> QED
        BY <2>1, SyncerMoves
<1>3. syncer' = [r \in Syncers |-> syncer'[r]]
    BY SyncerMoves
<1> QED
    BY <1>1, <1>2, <1>3 DEF LockInv, Syncs

-----------------------------------------------------------------------------
(* The steps *)

LEMMA OutsideKeeps ==
    ASSUME MemInv,
           \/ \E t \in Tasks : \/ TaskCompletes(t) \/ TaskReopens(t)
                              \/ TaskFails(t) \/ BackoffElapses(t)
           \/ NextDay \/ UNCHANGED vars
    PROVE  MemInv'
<1>1. UNCHANGED <<entries, written, compactor, lock, syncer, blind>>
    BY DEF TaskCompletes, TaskReopens, TaskFails, BackoffElapses, NextDay, vars,
           dbVars, syncVars
<1>2. completed' \in SUBSET Tasks
    BY DEF TaskCompletes, TaskReopens, TaskFails, BackoffElapses, NextDay, vars,
           dbVars, syncVars, MemInv, LockInv
<1> QED
    BY <1>1, <1>2, TableStill, ThreadsStay DEF MemInv

LEMMA RemembersKeeps ==
    ASSUME MemInv, NEW t \in Tasks, NEW kind \in {"intake", "result"}, Remembers(t, kind)
    PROVE  MemInv'
<1>1. kind \in Kinds /\ t \in Tasks \cup {NoTask}
    BY DEF Kinds
<1>2. /\ Insert(kind, t, {}, entries)
      /\ UNCHANGED <<completed, compactor, lock, syncer, blind>>
    BY DEF Remembers, syncVars
<1>3. RowsInv'
    BY <1>1, <1>2, PlainInsert DEF MemInv
<1>4. PICK id :
        entries' = entries \cup {[id |-> id, kind |-> kind, day |-> day, holds |-> {}]}
    <2>1. Numbered
        BY DEF MemInv, RowsInv
    <2>2. PICK holds : holds = {}
        OBVIOUS
    <2>3. Insert(kind, t, holds, entries)
        BY <1>2, <2>2
    <2>4. PICK id :
            /\ id \notin written /\ id.kind = kind /\ id.task = t
            /\ written' = written \cup {id}
            /\ entries' = entries \cup
                  {[id |-> id, kind |-> kind, day |-> day, holds |-> holds]}
        BY <1>1, <2>1, <2>3, InsertFresh
    <2> QED
        BY <2>2, <2>4
<1>5. \A e \in entries' : e.kind = "task_result" => e \in entries
    BY <1>4
<1>6. LockInv'
    BY <1>2, <1>5, ThreadsStay DEF MemInv, LockInv
<1> QED
    BY <1>3, <1>6 DEF MemInv

LEMMA CompactorKeeps ==
    ASSUME MemInv, NEW k \in Compactors,
           \/ \E tier \in {"compress", "summarize"} : StartCompaction(k, tier)
           \/ ReadCandidates(k) \/ WriteDigest(k) \/ CompactionFails(k)
    PROVE  MemInv'
<1>1. RowsInv'
    BY StartCompactionKeeps, ReadCandidatesKeeps, CompactionFailsKeeps,
       WriteDigestRows DEF MemInv
<1>2. UNCHANGED <<completed, lock, syncer, blind>>
    BY DEF StartCompaction, ReadCandidates, WriteDigest, CompactionFails, dbVars, syncVars
<1>3. \A e \in entries' : e.kind = "task_result" => e \in entries
    <2>1. CASE WriteDigest(k)
        BY <2>1, WriteDigestRows DEF MemInv
    <2>2. CASE UNCHANGED entries
        BY <2>2
    <2> QED
        BY <2>1, <2>2 DEF StartCompaction, ReadCandidates, CompactionFails, dbVars
<1>4. LockInv'
    BY <1>2, <1>3, ThreadsStay DEF MemInv, LockInv
<1> QED
    BY <1>1, <1>4 DEF MemInv

LEMMA BatchKeeps ==
    ASSUME MemInv, NEW s \in Syncers,
           SyncCompleted(s) \/ RetryFailed(s) \/ Consider(s)
    PROVE  MemInv'
<1>1. UNCHANGED <<completed, entries, written, compactor, lock, blind>>
    BY DEF SyncCompleted, RetryFailed, Consider, dbVars
<1>2. UNCHANGED syncer
      \/ \E p, q : p \in {"idle", "batch", "wants"} /\ Set(s, p, q)
    <2>1. CASE SyncCompleted(s)
        BY <2>1 DEF SyncCompleted
    <2>2. CASE RetryFailed(s)
        BY <2>2 DEF RetryFailed
    <2>3. CASE Consider(s)
        <3>1. \/ Set(s, "idle", <<>>) \/ Set(s, "batch", Tail(Queue(s)))
              \/ Set(s, "wants", Queue(s))
            BY <2>3 DEF Consider
        <3> QED
            BY <3>1
    <2> QED
        BY <2>1, <2>2, <2>3
<1>3. LockInv'
    <2>1. CASE UNCHANGED syncer
        BY <1>1, <2>1, ThreadsStay DEF MemInv, LockInv
    <2>2. ASSUME NEW p \in {"idle", "batch", "wants"}, NEW q, Set(s, p, q)
          PROVE  LockInv'
        BY <1>1, <2>2, QuietMove DEF MemInv
    <2> QED
        BY <1>2, <2>1, <2>2
<1> QED
    BY <1>1, <1>3, TableStill DEF MemInv

LEMMA TakeLockKeeps ==
    ASSUME MemInv, NEW s \in Syncers, TakeLock(s) PROVE MemInv'
<1>1. UNCHANGED <<completed, entries, written, compactor, blind>> /\ lock = NoSyncer
    BY DEF TakeLock, dbVars
<1>2. Alone(s)
    BY <1>1, HolderAlone DEF MemInv
<1>3. PICK q : q = Queue(s)
    OBVIOUS
<1>4. CASE Head(q) \in completed /\ lock' = s /\ Set(s, "looks", q)
    <2>1. lock' = s /\ Set(s, "looks", q)
        BY <1>4
    <2>2. Head(q) \in Tasks /\ \A t \in Tasks : blind[t] <= blind'[t]
        BY <1>1, <1>4 DEF MemInv, LockInv
    <2>3. blind' \in [Tasks -> Nat] /\ IsFiniteSet(entries)
        BY <1>1 DEF MemInv, LockInv, RowsInv
    <2>4. LockInv'
        BY <1>1, <1>2, <2>1, <2>2, <2>3, HolderMoves DEF MemInv
    <2> QED
        BY <1>1, <2>4, TableStill DEF MemInv
<1>5. CASE Set(s, "batch", Tail(q)) /\ UNCHANGED lock
    <2>1. PICK r : Set(s, "batch", r)
        BY <1>5
    <2>2. lock' = lock
        BY <1>5
    <2>3. LockInv'
        BY <1>1, <2>1, <2>2, QuietMove DEF MemInv
    <2> QED
        BY <1>1, <2>3, TableStill DEF MemInv
<1> QED
    BY <1>3, <1>4, <1>5 DEF TakeLock, ReadTask

LEMMA LookKeeps ==
    ASSUME MemInv, NEW s \in Syncers, Look(s) PROVE MemInv'
<1>1. UNCHANGED <<completed, entries, written, compactor>> /\ syncer[s].phase = "looks"
    BY DEF Look, dbVars
<1>2. lock = s /\ Head(Queue(s)) \in Tasks /\ Alone(s)
    BY <1>1, HolderAlone DEF MemInv, LockInv
<1>3. PICK t, q : t = Head(Queue(s)) /\ q = Queue(s)
    OBVIOUS
<1>4. Cardinality(Syncs(t)) \in Nat /\ blind[t] \in Nat /\ IsFiniteSet(entries)
    BY <1>2, <1>3, SyncsFinite DEF MemInv, LockInv, RowsInv
<1>5. LockInv'
    <2>1. CASE LetGo(s) /\ UNCHANGED blind
        <3>1. PICK r : Set(s, "batch", r)
            BY <2>1 DEF LetGo
        <3> QED
            BY <1>1, <1>2, <2>1, <3>1, QuietMove DEF MemInv
    <2>2. CASE ~HasSync(t) /\ Set(s, "writes", q) /\ UNCHANGED <<lock, blind>>
        <3>1. Syncs(t) = {}
            BY <2>2 DEF HasSync, Syncs
        <3>2. Cardinality(Syncs(t)) <= blind'[t]
            BY <1>4, <2>2, <3>1, FS_EmptySet
        <3>3. blind' \in [Tasks -> Nat] /\ \A u \in Tasks : blind[u] <= blind'[u]
            BY <2>2 DEF MemInv, LockInv
        <3> QED
            BY <1>1, <1>2, <1>3, <1>4, <2>2, <3>2, <3>3, HolderMoves DEF MemInv
    <2>3. CASE /\ blind' = [blind EXCEPT ![t] = @ + 1]
               /\ Set(s, "writes", q) /\ UNCHANGED lock
        <3>1. blind' \in [Tasks -> Nat] /\ blind'[t] = blind[t] + 1
            BY <1>2, <1>3, <2>3 DEF MemInv, LockInv
        <3>2. \A u \in Tasks : blind[u] <= blind'[u]
            BY <1>2, <1>3, <2>3 DEF MemInv, LockInv
        <3>3. Cardinality(Syncs(t)) <= blind'[t]
            BY <1>2, <1>3, <1>4, <3>1 DEF MemInv, LockInv, OneEntryPerTask
        <3> QED
            BY <1>1, <1>2, <1>3, <1>4, <2>3, <3>1, <3>2, <3>3, HolderMoves DEF MemInv
    <2> QED
        BY <1>3, <2>1, <2>2, <2>3 DEF Look
<1> QED
    BY <1>1, <1>5, TableStill DEF MemInv

LEMMA WriteKeeps ==
    ASSUME MemInv, NEW s \in Syncers, Write(s) PROVE MemInv'
<1>1. /\ UNCHANGED <<completed, compactor, blind>> /\ syncer[s].phase = "writes"
      /\ LetGo(s)
    BY DEF Write
<1>2. lock = s /\ Head(Queue(s)) \in Tasks /\ Alone(s)
    BY <1>1, HolderAlone DEF MemInv, LockInv
<1>3. PICK t : t = Head(Queue(s))
    OBVIOUS
<1>4. PICK r : Set(s, "batch", r)
    BY <1>1 DEF LetGo
<1>5. CASE UNCHANGED <<entries, written>>
    <2>1. LockInv'
        BY <1>1, <1>2, <1>4, <1>5, QuietMove DEF MemInv
    <2> QED
        BY <1>1, <1>5, <2>1, TableStill DEF MemInv
<1>6. CASE Insert("task_result", t, {}, entries)
    <2>1. "task_result" \in Kinds /\ t \in Tasks \cup {NoTask} /\ t \in Tasks
        BY <1>2, <1>3 DEF Kinds
    <2>2. RowsInv'
        BY <1>1, <1>6, <2>1, PlainInsert DEF MemInv
    <2>3. PICK id, row :
            /\ id.kind = "task_result" /\ id.task = t
            /\ row = [id |-> id, kind |-> "task_result", day |-> day, holds |-> {}]
            /\ entries' = entries \cup {row}
        <3>1. Numbered
            BY DEF MemInv, RowsInv
        <3>2. PICK holds, kind : holds = {} /\ kind = "task_result"
            OBVIOUS
        <3>3. Insert(kind, t, holds, entries) /\ kind \in Kinds
            BY <1>6, <2>1, <3>2
        <3>4. PICK id :
                /\ id \notin written /\ id.kind = kind /\ id.task = t
                /\ written' = written \cup {id}
                /\ entries' = entries \cup
                      {[id |-> id, kind |-> kind, day |-> day, holds |-> holds]}
            BY <2>1, <3>1, <3>3, InsertFresh
        <3> QED
            BY <3>2, <3>4
    <2>4. row.kind = "task_result" /\ row.id.task = t
        BY <2>3
    <2>5. PICK S : S = Syncs(t)
        OBVIOUS
    <2>6. Syncs(t)' = S \cup {row}
        BY <2>3, <2>4, <2>5 DEF Syncs
    <2>7. ASSUME NEW u \in Tasks, u # t PROVE Syncs(u)' = Syncs(u)
        BY <2>3, <2>4, <2>7 DEF Syncs
    <2>8. IsFiniteSet(S) /\ Cardinality(S) \in Nat
        BY <2>5, SyncsFinite DEF MemInv, RowsInv
    <2>9. Cardinality(S \cup {row}) <= Cardinality(S) + 1
        <3>1. Cardinality(S \cup {row}) =
                  IF row \in S THEN Cardinality(S) ELSE Cardinality(S) + 1
            BY <2>8, FS_AddElement
        <3> QED
            BY <2>8, <3>1
    <2>10. Cardinality(S) <= blind[t] /\ blind[t] \in Nat
        BY <1>1, <1>2, <1>3, <2>5 DEF MemInv, LockInv
    <2>11. Cardinality(S \cup {row}) \in Nat
        BY <2>8, FS_AddElement, FS_CardinalityType
    <2>12. Cardinality(S \cup {row}) <= 1 + blind[t]
        BY <2>8, <2>9, <2>10, <2>11
    <2>13. OneEntryPerTask'
        <3> SUFFICES ASSUME NEW u \in Tasks PROVE Cardinality(Syncs(u)') <= 1 + blind'[u]
            BY DEF OneEntryPerTask
        <3>1. CASE u = t
            BY <1>1, <2>6, <2>12, <3>1
        <3>2. CASE u # t
            BY <1>1, <2>7, <3>2 DEF MemInv, LockInv, OneEntryPerTask
        <3> QED
            BY <3>1, <3>2
    <2>14. \A x \in Syncers : syncer'[x].phase \notin {"looks", "writes"}
        BY <1>2, <1>4, SyncerMoves DEF MemInv, Alone
    <2>15. syncer' = [x \in Syncers |-> syncer'[x]]
        BY <1>4, SyncerMoves DEF MemInv
    <2>16. LockInv'
        BY <1>1, <2>13, <2>14, <2>15 DEF MemInv, LockInv
    <2> QED
        BY <2>2, <2>16 DEF MemInv
<1> QED
    BY <1>3, <1>5, <1>6 DEF Write

LEMMA RestartKeeps ==
    ASSUME MemInv, Restart PROVE MemInv'
<1>1. UNCHANGED <<completed, entries, written, compactor, blind>>
    BY DEF Restart, dbVars
<1>2. syncer' = [s \in Syncers |-> Idle] /\ Idle.phase = "idle"
    BY DEF Restart, Idle
<1>3. OneEntryPerTask'
    BY <1>1 DEF MemInv, LockInv, OneEntryPerTask, Syncs
<1>4. LockInv'
    BY <1>1, <1>2, <1>3 DEF MemInv, LockInv
<1> QED
    BY <1>1, <1>4, TableStill DEF MemInv

LEMMA InitMem == Init => MemInv
<1> SUFFICES ASSUME Init PROVE MemInv
    OBVIOUS
<1>1. IsFiniteSet(entries) /\ entries = {} /\ written = {}
    BY FS_EmptySet DEF Init
<1>2. \A kind, t : Copies(kind, t) = {}
    BY <1>1 DEF Copies
<1>3. Numbered
    BY <1>2, FS_EmptySet DEF Numbered
<1>4. Rest = [phase |-> Rest.phase, tier |-> Rest.tier,
              protected |-> Rest.protected, found |-> Rest.found] /\ Rest.found = {}
    BY DEF Rest
<1>5. compactor = [k \in Compactors |-> Rest]
    BY DEF Init
<1>6. Planning
    BY <1>4, <1>5 DEF Planning
<1>7. Found = {}
    BY <1>4, <1>5 DEF Found
<1>8. RowsInv
    BY <1>1, <1>3, <1>6, <1>7 DEF RowsInv, Settled, Known, NothingForgotten
<1>9. OneEntryPerTask
    <2> SUFFICES ASSUME NEW t \in Tasks PROVE Cardinality(Syncs(t)) <= 1 + blind[t]
        BY DEF OneEntryPerTask
    <2>1. Syncs(t) = {} /\ blind[t] = 0
        BY <1>1 DEF Init, Syncs
    <2> QED
        BY <2>1, FS_EmptySet
<1>10. LockInv
    BY <1>9 DEF Init, Idle, LockInv
<1> QED
    BY <1>8, <1>10 DEF MemInv

\* The invariant is kept by every step of every party.
THEOREM MemoryInvariant == Spec => []MemInv
<1>1. MemInv /\ [Next]_vars => MemInv'
    <2> SUFFICES ASSUME MemInv, [Next]_vars PROVE MemInv'
        OBVIOUS
    <2>1. ASSUME NEW s \in Syncers, SyncCompleted(s) \/ RetryFailed(s) \/ SyncStep(s)
          PROVE  MemInv'
        BY <2>1, BatchKeeps, TakeLockKeeps, LookKeeps, WriteKeeps DEF SyncStep
    <2>2. ASSUME NEW k \in Compactors,
                 \/ StartCompaction(k, "compress") \/ StartCompaction(k, "summarize")
                 \/ ReadCandidates(k) \/ WriteDigest(k) \/ CompactionFails(k)
          PROVE  MemInv'
        BY <2>2, CompactorKeeps
    <2>3. ASSUME NEW t \in Tasks, Remembers(t, "intake") \/ Remembers(t, "result")
          PROVE  MemInv'
        BY <2>3, RemembersKeeps
    <2>4. CASE Restart
        BY <2>4, RestartKeeps
    <2>5. CASE \/ \E t \in Tasks : \/ TaskCompletes(t) \/ TaskReopens(t)
                                   \/ TaskFails(t) \/ BackoffElapses(t)
               \/ NextDay \/ UNCHANGED vars
        BY <2>5, OutsideKeeps
    <2> QED
        BY <2>1, <2>2, <2>3, <2>4, <2>5 DEF Next
<1> QED
    BY <1>1, InitMem, PTL DEF Spec

\* However many threads synchronise, fail, retry and restart, a task has one
\* entry, and one more for each look-up that could not see it
\* (memory_sync.py:280).
THEOREM WrittenOnce == Spec => []OneEntryPerTask
<1>1. MemInv => OneEntryPerTask
    BY DEF MemInv, LockInv
<1> QED
    BY <1>1, MemoryInvariant, PTL

\* However compactions overlap each other and the writers, and wherever they
\* fail, no row is lost from the table and the digests (database.py:850, 1031).
THEOREM NoRowIsLost == Spec => []NothingForgotten
<1>1. MemInv => NothingForgotten
    BY DEF MemInv, RowsInv
<1> QED
    BY <1>1, MemoryInvariant, PTL

-----------------------------------------------------------------------------
(* What a compactor may touch *)

\* A row keeps the kind it was written as until it is archived.
Named == \A e \in entries : e.kind \in {e.id.kind, "archived"}

\* What a compactor has listed is no entry of the synchroniser, and of no task
\* whose failure it had read.  The list is never longer than the reading was,
\* so this outlives whatever became of the rows since.
Spared ==
    \A k \in Compactors : \A f \in compactor[k].found :
        /\ f.id.kind # "task_result"
        /\ f.id.task \notin compactor[k].protected

TrailInv == Named /\ Spared

\* A caller's new record: its list keeps to what Spared asks.
LEMMA SparedMoves ==
    ASSUME Planning, Spared, NEW k \in Compactors,
           NEW p, NEW tier, NEW prot, NEW found,
           Becomes(k, Working(p, tier, prot, found)),
           \A f \in found : f.id.kind # "task_result" /\ f.id.task \notin prot
    PROVE  Spared'
<1> PICK r : r = Working(p, tier, prot, found)
    OBVIOUS
<1>1. compactor' = [j \in Compactors |-> IF j = k THEN r ELSE compactor[j]]
    BY DEF Planning, Becomes
<1>2. r.found = found /\ r.protected = prot
    BY DEF Working
<1>3. ASSUME NEW j \in Compactors, NEW f \in compactor'[j].found
      PROVE  f.id.kind # "task_result" /\ f.id.task \notin compactor'[j].protected
    <2>1. CASE j = k
        BY <1>1, <1>2, <1>3, <2>1
    <2>2. CASE j # k
        <3>1. compactor'[j] = compactor[j]
            BY <1>1, <2>2
        <3> QED
            BY <1>3, <3>1 DEF Spared
    <2> QED
        BY <2>1, <2>2
<1> QED
    BY <1>3 DEF Spared

LEMMA RestSpares ==
    ASSUME RowsInv, Spared, NEW k \in Compactors, Becomes(k, Rest)
    PROVE  Spared'
<1>1. Becomes(k, Working("idle", "compress", {}, {}))
    BY DEF Rest, Working
<1> QED
    BY <1>1, SparedMoves DEF RowsInv

LEMMA StartCompactionSpares ==
    ASSUME RowsInv, Spared, NEW k \in Compactors, NEW tier, StartCompaction(k, tier)
    PROVE  Spared'
<1>1. Becomes(k, Working("protected", tier, failing, {}))
    BY StartStep
<1> QED
    BY <1>1, SparedMoves DEF RowsInv

LEMMA ReadCandidatesSpares ==
    ASSUME RowsInv, TrailInv, NEW k \in Compactors, ReadCandidates(k)
    PROVE  Spared'
<1> PICK c : c = compactor[k]
    OBVIOUS
<1>1. CASE Becomes(k, Rest)
    BY <1>1, RestSpares DEF TrailInv
<1>2. CASE Becomes(k, [c EXCEPT !.phase = "writes", !.found = Candidates(c)])
    <2> PICK found : found = Candidates(c)
        OBVIOUS
    <2>1. \A f \in found : /\ f \in entries /\ f.kind \in Eligible(c.tier)
                           /\ f.id.task \notin c.protected
        BY DEF Candidates
    <2>2. \A f \in found : f.id.kind # "task_result" /\ f.id.task \notin c.protected
        <3>1. Eligible(c.tier) \subseteq {"intake", "result", "compressed"}
            BY DEF Eligible
        <3> QED
            BY <2>1, <3>1 DEF TrailInv, Named
    <2>3. PICK a : a = [c EXCEPT !.phase = "writes"]
        OBVIOUS
    <2>4. a = Working("writes", c.tier, c.protected, c.found)
        BY <2>3, CompactorIs, PhaseSet DEF RowsInv
    <2>5. [a EXCEPT !.found = found] = Working("writes", c.tier, c.protected, found)
        BY <2>4 DEF Working
    <2>6. Becomes(k, Working("writes", c.tier, c.protected, found))
        BY <1>2, <2>3, <2>5
    <2> QED
        BY <2>2, <2>6, SparedMoves DEF RowsInv, TrailInv
<1> QED
    BY <1>1, <1>2 DEF ReadCandidates

\* What a transaction of a compactor leaves of its list, and of the table.
LEMMA WriteDigestSpares ==
    ASSUME RowsInv, TrailInv, NEW k \in Compactors, WriteDigest(k)
    PROVE  /\ TrailInv'
           /\ compactor[k].phase = "writes"
           /\ \A e \in entries \ entries' : \E f \in compactor[k].found : f.id = e.id
<1> PICK c : c = compactor[k]
    OBVIOUS
<1>1. PICK group, left, kind :
        /\ group \in SUBSET c.found /\ left = c.found \ group
        /\ kind \in {"compressed", "summary"}
        /\ Insert(kind, NoTask, Holds(group), Replace(c.tier, group))
        /\ Becomes(k, IF left = {} THEN Rest ELSE [c EXCEPT !.found = left])
    BY DigestStep
<1>2. PICK others : others = Replace(c.tier, group)
    OBVIOUS
<1>3. Spared'
    <2>1. CASE left = {}
        BY <1>1, <2>1, RestSpares DEF TrailInv
    <2>2. CASE left # {}
        <3>1. IsWorking(c)
            BY CompactorIs DEF RowsInv
        <3>2. Becomes(k, Working(c.phase, c.tier, c.protected, left))
            BY <1>1, <2>2, <3>1, FoundSet
        <3>3. \A f \in left : f.id.kind # "task_result" /\ f.id.task \notin c.protected
            BY <1>1 DEF TrailInv, Spared
        <3> QED
            BY <3>2, <3>3, SparedMoves DEF RowsInv, TrailInv
    <2> QED
        BY <2>1, <2>2
<1>4. PICK id, row :
        /\ id.kind = kind
        /\ row = [id |-> id, kind |-> kind, day |-> day, holds |-> Holds(group)]
        /\ entries' = others \cup {row}
    <2>1. PICK holds : holds = Holds(group)
        OBVIOUS
    <2>2. Insert(kind, NoTask, holds, others)
        BY <1>1, <1>2, <2>1
    <2>3. kind \in Kinds /\ NoTask \in Tasks \cup {NoTask}
        BY <1>1 DEF Kinds
    <2>4. PICK id :
            /\ id.kind = kind
            /\ entries' = others \cup
                  {[id |-> id, kind |-> kind, day |-> day, holds |-> holds]}
        BY <2>2, <2>3, InsertFresh DEF RowsInv
    <2> QED
        BY <2>1, <2>4
<1>5. \A o \in others : o.kind = "archived" \/ o \in entries
    <2>1. group \in SUBSET Found
        BY <1>1 DEF Found
    <2> QED
        BY <1>2, <2>1, Replaced
<1>6. Named'
    <2>1. row.id = id /\ row.kind = kind
        BY <1>4
    <2> QED
        BY <1>4, <1>5, <2>1 DEF TrailInv, Named
<1>7. ASSUME NEW e \in entries \ entries' PROVE \E f \in c.found : f.id = e.id
    <2>1. e \notin others
        BY <1>4, <1>7
    <2>2. e.id \in IdsOf(group)
        BY <1>2, <1>7, <2>1 DEF Replace
    <2> QED
        BY <1>1, <2>2 DEF IdsOf
<1>8. c.phase = "writes"
    BY DEF WriteDigest
<1> QED
    BY <1>3, <1>6, <1>7, <1>8 DEF TrailInv

\* The steps of everybody else add a row at most.
LEMMA OthersAdd ==
    ASSUME MemInv, Named, [Next]_vars, \A k \in Compactors : ~WriteDigest(k)
    PROVE  Named' /\ entries \subseteq entries'
<1>1. ASSUME NEW kind \in Kinds, NEW t \in Tasks, Insert(kind, t, {}, entries)
      PROVE  Named' /\ entries \subseteq entries'
    <2>1. PICK holds : holds = {}
        OBVIOUS
    <2>2. Insert(kind, t, holds, entries)
        BY <1>1, <2>1
    <2>3. PICK id :
            /\ id.kind = kind
            /\ entries' = entries \cup
                  {[id |-> id, kind |-> kind, day |-> day, holds |-> holds]}
        BY <2>2, InsertFresh DEF MemInv, RowsInv
    <2>4. PICK row : row = [id |-> id, kind |-> kind, day |-> day, holds |-> holds]
        OBVIOUS
    <2>5. row.id = id /\ row.kind = kind /\ entries' = entries \cup {row}
        BY <2>3, <2>4
    <2> QED
        BY <2>3, <2>5 DEF Named
<1>2. CASE UNCHANGED entries
    BY <1>2 DEF Named
<1>3. ASSUME NEW t \in Tasks, Remembers(t, "intake") \/ Remembers(t, "result")
      PROVE  Named' /\ entries \subseteq entries'
    BY <1>1, <1>3 DEF Remembers, Kinds
<1>4. ASSUME NEW s \in Syncers, Write(s)
      PROVE  Named' /\ entries \subseteq entries'
    <2>1. Head(Queue(s)) \in Tasks /\ "task_result" \in Kinds
        BY <1>4 DEF Write, MemInv, LockInv, Kinds
    <2> QED
        BY <1>1, <1>2, <1>4, <2>1 DEF Write
<1>5. CASE UNCHANGED vars
    BY <1>2, <1>5 DEF vars
<1>6. ASSUME NEW t \in Tasks,
             \/ TaskCompletes(t) \/ TaskReopens(t) \/ TaskFails(t) \/ BackoffElapses(t)
      PROVE  UNCHANGED entries
    BY <1>6 DEF TaskCompletes, TaskReopens, TaskFails, BackoffElapses, dbVars
<1>7. NextDay \/ Restart => UNCHANGED entries
    BY DEF NextDay, Restart, dbVars
<1>8. ASSUME NEW s \in Syncers,
             \/ SyncCompleted(s) \/ RetryFailed(s) \/ Consider(s)
             \/ TakeLock(s) \/ Look(s)
      PROVE  UNCHANGED entries
    BY <1>8 DEF SyncCompleted, RetryFailed, Consider, TakeLock, Look, dbVars
<1>9. ASSUME NEW k \in Compactors,
             \/ StartCompaction(k, "compress") \/ StartCompaction(k, "summarize")
             \/ ReadCandidates(k) \/ CompactionFails(k)
      PROVE  UNCHANGED entries
    BY <1>9 DEF StartCompaction, ReadCandidates, CompactionFails, dbVars
<1> QED
    BY <1>2, <1>3, <1>4, <1>5, <1>6, <1>7, <1>8, <1>9 DEF Next, SyncStep

LEMMA CompactorsIdle ==
    ASSUME Spared, [Next]_vars,
           \A k \in Compactors :
               /\ ~StartCompaction(k, "compress") /\ ~StartCompaction(k, "summarize")
               /\ ~ReadCandidates(k) /\ ~WriteDigest(k) /\ ~CompactionFails(k)
    PROVE  Spared'
<1>1. compactor' = compactor
    BY DEF Next, SyncStep, TaskCompletes, TaskReopens, TaskFails, Remembers,
           BackoffElapses, NextDay, Restart, SyncCompleted, RetryFailed, Consider,
           TakeLock, ReadTask, Look, Write, vars
<1> QED
    BY <1>1 DEF Spared

\* A row is of the kind it was written as or archived, and what a compactor has
\* listed, at any of its steps, is no task result and belongs to no task whose
\* failure it had read.
THEOREM TrailInvariant == Spec => []TrailInv
<1>1. Init => TrailInv
    BY DEF Init, Rest, TrailInv, Named, Spared
<1>2. MemInv /\ TrailInv /\ [Next]_vars => TrailInv'
    <2> SUFFICES ASSUME MemInv, TrailInv, [Next]_vars PROVE TrailInv'
        OBVIOUS
    <2>1. ASSUME NEW k \in Compactors, WriteDigest(k) PROVE TrailInv'
        BY <2>1, WriteDigestSpares DEF MemInv
    <2>2. CASE \A k \in Compactors : ~WriteDigest(k)
        <3>1. Named'
            BY <2>2, OthersAdd DEF TrailInv
        <3>2. ASSUME NEW k \in Compactors,
                     StartCompaction(k, "compress") \/ StartCompaction(k, "summarize")
              PROVE  Spared'
            BY <3>2, StartCompactionSpares DEF MemInv, TrailInv
        <3>3. ASSUME NEW k \in Compactors, ReadCandidates(k) PROVE Spared'
            BY <3>3, ReadCandidatesSpares DEF MemInv
        <3>4. ASSUME NEW k \in Compactors, CompactionFails(k) PROVE Spared'
            BY <3>4, RestSpares DEF MemInv, TrailInv, CompactionFails
        <3>5. Spared'
            BY <2>2, <3>2, <3>3, <3>4, CompactorsIdle DEF TrailInv
        <3> QED
            BY <3>1, <3>5 DEF TrailInv
    <2> QED
        BY <2>1, <2>2
<1> QED
    BY <1>1, <1>2, MemoryInvariant, PTL DEF Spec

\* Only a compactor takes a row out of the table, or changes it, and then one
\* that was on its list.
LEMMA WhatGoes ==
    ASSUME MemInv, TrailInv, [Next]_vars, NEW e \in entries, e \notin entries'
    PROVE  \E k \in Compactors : /\ compactor[k].phase = "writes"
                                 /\ \E f \in compactor[k].found : f.id = e.id
<1>1. PICK k \in Compactors : WriteDigest(k)
    BY OthersAdd DEF TrailInv
<1> QED
    BY <1>1, WriteDigestSpares DEF MemInv

\* No compaction takes away or archives the synchroniser's entry of a task,
\* whatever it read and however long ago (memory_sync.py:280).
THEOREM SyncedEntriesStay == Spec => SyncedStaysSynced
<1>1. MemInv /\ TrailInv /\ [Next]_vars
        => [\A t \in Tasks : Syncs(t) # {} => Syncs(t)' # {}]_vars
    <2> SUFFICES ASSUME MemInv, TrailInv, [Next]_vars, NEW t \in Tasks,
                        NEW e \in Syncs(t)
                 PROVE  Syncs(t)' # {}
        OBVIOUS
    <2>1. e \in entries /\ e.kind = "task_result" /\ e.id.task = t
        BY DEF Syncs
    <2>2. e.id.kind = "task_result"
        BY <2>1 DEF TrailInv, Named
    <2>3. e \in entries'
        BY <2>1, <2>2, WhatGoes DEF TrailInv, Spared
    <2> QED
        BY <2>1, <2>3 DEF Syncs
<1> QED
    BY <1>1, MemoryInvariant, TrailInvariant, PTL DEF Spec, SyncedStaysSynced

\* The trail of a failed task is touched only by a compaction that read the
\* failures before this one was stored (database.py:783).
THEOREM TrailIsKept == Spec => FailureTrailKept
<1>1. MemInv /\ TrailInv /\ [Next]_vars
        => [\A e \in entries :
              e.id.task \in failing /\ e \notin entries' =>
                  \E k \in Compactors : /\ compactor[k].phase = "writes"
                                        /\ e.id.task \notin compactor[k].protected]_vars
    <2> SUFFICES ASSUME MemInv, TrailInv, [Next]_vars, NEW e \in entries, e \notin entries'
                 PROVE  \E k \in Compactors : /\ compactor[k].phase = "writes"
                                              /\ e.id.task \notin compactor[k].protected
        OBVIOUS
    <2> QED
        BY WhatGoes DEF TrailInv, Spared
<1> QED
    BY <1>1, MemoryInvariant, TrailInvariant, PTL DEF Spec, FailureTrailKept
-----------------------------------------------------------------------------
(* Types *)

\* Rows are rows, also those a compactor has read, and the table has no id
\* twice.
RowTypes ==
    /\ \A e \in Known : IsRow(e)
    /\ \A e, f \in entries : e.id = f.id => e = f
    /\ written \in SUBSET Ids
    /\ day \in 0..MaxDay

BacklogTypes ==
    /\ backlog \in Seq(Tasks) /\ IsInjective(backlog)
    /\ waiting \in SUBSET ToSet(backlog)

\* A thread that has a task in hand has it at the head of its queue.
ThreadTypes ==
    /\ lock \in Syncers \cup {NoSyncer}
    /\ \A s \in Syncers :
          /\ syncer[s] \in [phase : {"idle", "batch", "wants", "looks", "writes"},
                            queue : Seq(Tasks)]
          /\ syncer[s].phase \in {"wants", "looks", "writes"} => Queue(s) # <<>>

CompactorTypes ==
    \A k \in Compactors :
        /\ compactor[k].phase \in {"idle", "protected", "writes"}
        /\ compactor[k].tier \in {"compress", "summarize"}
        /\ compactor[k].protected \in SUBSET Tasks

\* The batch counts the completed tasks.
TaskTypes ==
    /\ IsFiniteSet(completed)
    /\ failing \in SUBSET Tasks
    /\ faults \in 0..MaxFaults

TypeInv ==
    /\ RowTypes /\ BacklogTypes /\ ThreadTypes
    /\ CompactorTypes /\ TaskTypes

LEMMA TypesFollow == MemInv /\ TypeInv => TypeOK
<1> SUFFICES ASSUME MemInv, TypeInv PROVE TypeOK
    OBVIOUS
<1> PICK F : F = {compactor[k].found : k \in Compactors}
    OBVIOUS
<1>1. compactor \in [Compactors ->
          [phase : {"idle", "protected", "writes"}, tier : {"compress", "summarize"},
           protected : SUBSET Tasks, found : F]]
    <2>1. ASSUME NEW k \in Compactors
          PROVE  compactor[k] \in
                    [phase : {"idle", "protected", "writes"}, tier : {"compress", "summarize"},
                     protected : SUBSET Tasks, found : F]
        <3> PICK c : c = compactor[k]
            OBVIOUS
        <3>1. c = Working(c.phase, c.tier, c.protected, c.found)
            BY CompactorIs DEF MemInv, RowsInv, IsWorking
        <3>2. /\ c.phase \in {"idle", "protected", "writes"}
              /\ c.tier \in {"compress", "summarize"}
              /\ c.protected \in SUBSET Tasks
              /\ c.found \in F
            BY DEF TypeInv, CompactorTypes
        <3> QED
            BY <3>1, <3>2 DEF Working
    <2>2. compactor = [k \in Compactors |-> compactor[k]]
        BY DEF MemInv, RowsInv, Planning
    <2> QED
        BY <2>1, <2>2
<1>2. \A k \in Compactors : \A e \in compactor[k].found : IsRow(e)
    BY DEF TypeInv, RowTypes, Known, Found
<1>3. \A e \in entries : IsRow(e)
    BY DEF TypeInv, RowTypes, Known
<1>4. ToSet(backlog) \in SUBSET Tasks
    BY DEF TypeInv, BacklogTypes, ToSet
<1>5. syncer \in [Syncers -> [phase : {"idle", "batch", "wants", "looks", "writes"},
                              queue : Seq(Tasks)]]
    BY DEF TypeInv, ThreadTypes, MemInv, LockInv
<1>6. /\ completed \in SUBSET Tasks /\ blind \in [Tasks -> Nat]
    BY DEF MemInv, LockInv
<1>7. /\ failing \in SUBSET Tasks /\ faults \in 0..MaxFaults
    BY DEF TypeInv, TaskTypes
<1>8. /\ \A e, f \in entries : e.id = f.id => e = f
      /\ written \in SUBSET Ids /\ day \in 0..MaxDay
    BY DEF TypeInv, RowTypes
<1>9. lock \in Syncers \cup {NoSyncer} /\ IsInjective(backlog)
      /\ waiting \in SUBSET ToSet(backlog)
    BY DEF TypeInv, ThreadTypes, BacklogTypes
<1> QED
    BY <1>1, <1>2, <1>3, <1>4, <1>5, <1>6, <1>7, <1>8, <1>9 DEF TypeOK

\* The nth of the tasks in order exists: no two tasks have as many before them,
\* and none as many as there are tasks.
LEMMA BatchTyped ==
    ASSUME IsFiniteSet(completed), completed \in SUBSET Tasks
    PROVE  Batch \in Seq(Tasks)
<1> PICK size : size = Cardinality(completed)
    OBVIOUS
<1>1. size \in Nat /\ IsFiniteSet(1..size) /\ Cardinality(1..size) = size
    <2>1. size \in Nat
        BY FS_CardinalityType
    <2> QED
        BY <2>1, FS_Interval
<1> DEFINE before(t) == {u \in completed : Rank[u] < Rank[t]}
<1>2. ASSUME NEW t \in completed
      PROVE  Ahead(t) \in Nat /\ Ahead(t) + 1 \in 1..size
    <2>1. before(t) \in SUBSET completed /\ t \notin before(t)
        BY ConstantsOK
    <2>2. PICK B : B = before(t)
        OBVIOUS
    <2>3. IsFiniteSet(B) /\ Cardinality(B) <= size
        BY <2>1, <2>2, FS_Subset
    <2>4. Cardinality(B) # size
        BY <2>1, <2>2, FS_Subset
    <2>5. Cardinality(B) \in Nat
        BY <2>3, FS_CardinalityType
    <2>6. Ahead(t) = Cardinality(B)
        BY <2>2 DEF Ahead
    <2> QED
        BY <1>1, <2>3, <2>4, <2>5, <2>6
<1>3. ASSUME NEW t \in completed, NEW u \in completed, Rank[t] < Rank[u]
      PROVE  Ahead(t) # Ahead(u)
    <2>1. PICK B, C : B = before(t) /\ C = before(u)
        OBVIOUS
    <2>2. t \in C /\ t \notin B
        BY <1>3, <2>1, ConstantsOK
    <2>3. Rank[t] \in Nat /\ Rank[u] \in Nat /\ \A x \in completed : Rank[x] \in Nat
        BY ConstantsOK
    <2>4. B \in SUBSET C
        BY <1>3, <2>1, <2>3
    <2>5. C \in SUBSET completed
        BY <2>1
    <2>6. IsFiniteSet(C)
        BY <2>5, FS_Subset
    <2>7. Cardinality(B) # Cardinality(C)
        BY <2>2, <2>4, <2>6, FS_Subset
    <2> QED
        BY <2>1, <2>7 DEF Ahead
<1>4. PICK f : f = [t \in completed |-> Ahead(t) + 1]
    OBVIOUS
<1>5. f \in [completed -> 1..size]
    BY <1>2, <1>4
<1>6. ASSUME NEW t \in completed, NEW u \in completed, f[t] = f[u] PROVE t = u
    <2>1. Ahead(t) = Ahead(u)
        BY <1>2, <1>4, <1>6
    <2>2. ~(Rank[t] < Rank[u]) /\ ~(Rank[u] < Rank[t])
        BY <1>3, <2>1
    <2>3. Rank[t] \in Nat /\ Rank[u] \in Nat
        BY ConstantsOK
    <2>4. Rank[t] = Rank[u]
        BY <2>2, <2>3
    <2> QED
        BY <2>4, ConstantsOK
<1>7. f \in Injection(completed, 1..size)
    BY <1>5, <1>6 DEF Injection, IsInjective
<1>8. f \in Surjection(completed, 1..size)
    BY <1>1, <1>7, FS_Injection
<1>9. ASSUME NEW n \in 1..size PROVE \E t \in completed : Ahead(t) = n - 1
    <2>1. PICK t \in completed : f[t] = n
        BY <1>8 DEF Surjection
    <2>2. Ahead(t) + 1 = n /\ Ahead(t) \in Nat
        BY <1>2, <1>4, <2>1
    <2> QED
        BY <1>1, <2>2
<1>10. PICK m : m = IF size < Limit THEN size ELSE Limit
    OBVIOUS
<1>11. m \in Nat /\ m <= size
    BY <1>1, <1>10, ConstantsOK
<1>12. ASSUME NEW n \in 1..m
       PROVE  (CHOOSE t \in completed : Ahead(t) = n - 1) \in Tasks
    <2>1. n \in 1..size
        BY <1>1, <1>11
    <2>2. \E t \in completed : Ahead(t) = n - 1
        BY <1>9, <2>1
    <2>3. (CHOOSE t \in completed : Ahead(t) = n - 1) \in completed
        BY <2>2
    <2> QED
        BY <2>3
<1>13. PICK b : b = [n \in 1..m |-> CHOOSE t \in completed : Ahead(t) = n - 1]
    OBVIOUS
<1>14. b \in [1..m -> Tasks]
    BY <1>12, <1>13
<1>15. Batch = b
    BY <1>10, <1>13 DEF Batch
<1>16. b \in Seq(Tasks)
    BY <1>11, <1>14
<1> QED
    BY <1>15, <1>16

\* Taking out one element of a sequence.
LEMMA WithoutOne ==
    ASSUME NEW S, NEW seq \in Seq(S), NEW n, n = Len(seq), NEW i \in 1..n
    PROVE  /\ RemoveAt(seq, i) \in Seq(S)
           /\ Len(RemoveAt(seq, i)) = n - 1
           /\ \A j \in 1..(n - 1) :
                 RemoveAt(seq, i)[j] = IF j < i THEN seq[j] ELSE seq[j + 1]
<1>1. n \in Nat /\ i \in Nat /\ 1 <= i /\ i <= n /\ \A j \in 1..n : seq[j] \in S
    OBVIOUS
<1>2. PICK left : left = SubSeq(seq, 1, i - 1)
    OBVIOUS
<1>3. PICK right : right = SubSeq(seq, i + 1, n)
    OBVIOUS
<1>4. /\ left \in Seq(S) /\ Len(left) = i - 1
      /\ \A j \in 1..(i - 1) : left[j] = seq[j]
    <2>1. 1 \in Int /\ i - 1 \in Int /\ \A j \in 1..(i - 1) : seq[j] \in S
        BY <1>1
    <2>2. /\ left \in Seq(S)
          /\ Len(left) = IF 1 <= i - 1 THEN i - 1 - 1 + 1 ELSE 0
          /\ \A j \in 1..(i - 1 - 1 + 1) : left[j] = seq[1 + j - 1]
        BY <1>2, <2>1, SubSeqProperties
    <2>3. Len(left) = i - 1
        BY <1>1, <2>2
    <2>4. ASSUME NEW j \in 1..(i - 1) PROVE left[j] = seq[j]
        <3>1. j \in 1..(i - 1 - 1 + 1) /\ 1 + j - 1 = j
            BY <1>1
        <3>2. left[j] = seq[1 + j - 1]
            BY <2>2, <3>1
        <3> QED
            BY <3>1, <3>2
    <2> QED
        BY <2>2, <2>3, <2>4
<1>5. /\ right \in Seq(S) /\ Len(right) = n - i
      /\ \A j \in 1..(n - i) : right[j] = seq[j + i]
    <2>1. i + 1 \in Int /\ n \in Int /\ \A j \in (i + 1)..n : seq[j] \in S
        BY <1>1
    <2>2. /\ right \in Seq(S)
          /\ Len(right) = IF i + 1 <= n THEN n - (i + 1) + 1 ELSE 0
          /\ \A j \in 1..(n - (i + 1) + 1) : right[j] = seq[(i + 1) + j - 1]
        BY <1>3, <2>1, SubSeqProperties
    <2>3. Len(right) = n - i
        BY <1>1, <2>2
    <2>4. ASSUME NEW j \in 1..(n - i) PROVE right[j] = seq[j + i]
        <3>1. j \in 1..(n - (i + 1) + 1) /\ (i + 1) + j - 1 = j + i
            BY <1>1
        <3>2. right[j] = seq[(i + 1) + j - 1]
            BY <2>2, <3>1
        <3> QED
            BY <3>1, <3>2
    <2> QED
        BY <2>2, <2>3, <2>4
<1>6. PICK rest : rest = left \o right
    OBVIOUS
<1>7. /\ rest \in Seq(S) /\ Len(rest) = Len(left) + Len(right)
      /\ \A j \in 1..(Len(left) + Len(right)) :
            rest[j] = IF j <= Len(left) THEN left[j] ELSE right[j - Len(left)]
    BY <1>4, <1>5, <1>6, ConcatProperties
<1>8. Len(left) + Len(right) = n - 1
    BY <1>1, <1>4, <1>5
<1>9. ASSUME NEW j \in 1..(n - 1)
      PROVE  rest[j] = IF j < i THEN seq[j] ELSE seq[j + 1]
    <2>1. rest[j] = IF j <= i - 1 THEN left[j] ELSE right[j - (i - 1)]
        BY <1>4, <1>7, <1>8
    <2>2. CASE j < i
        <3>1. j \in 1..(i - 1) /\ j <= i - 1
            BY <1>1, <2>2
        <3> QED
            BY <1>4, <2>1, <2>2, <3>1
    <2>3. CASE ~(j < i)
        <3>1. PICK m : m = j - (i - 1)
            OBVIOUS
        <3>2. ~(j <= i - 1) /\ m \in 1..(n - i) /\ m + i = j + 1
            BY <1>1, <2>3, <3>1
        <3>3. rest[j] = right[m]
            BY <2>1, <3>1, <3>2
        <3>4. right[m] = seq[m + i]
            BY <1>5, <3>2
        <3> QED
            BY <2>3, <3>2, <3>3, <3>4
    <2> QED
        BY <2>2, <2>3
<1>10. RemoveAt(seq, i) = rest
    BY <1>2, <1>3, <1>6 DEF RemoveAt
<1> QED
    BY <1>7, <1>8, <1>9, <1>10

\* A task leaves the backlog once, and nothing else does.
LEMMA ForgetTypes ==
    ASSUME BacklogTypes, NEW t, Forget(t)
    PROVE  BacklogTypes'
<1>1. PICK n : n = Len(backlog)
    OBVIOUS
<1>2. backlog \in Seq(Tasks) /\ n \in Nat /\ DOMAIN backlog = 1..n
    BY <1>1 DEF BacklogTypes
<1>3. waiting' = waiting \ {t}
    BY DEF Forget
<1>4. CASE t \in ToSet(backlog)
    <2>1. PICK i \in 1..n : backlog[i] = t /\ backlog' = RemoveAt(backlog, i)
        BY <1>2, <1>4 DEF Forget
    <2>2. PICK rest : rest = RemoveAt(backlog, i)
        OBVIOUS
    <2>3. /\ rest \in Seq(Tasks) /\ Len(rest) = n - 1
          /\ \A j \in 1..(n - 1) :
                rest[j] = IF j < i THEN backlog[j] ELSE backlog[j + 1]
        <3>1. PICK seq : seq = backlog
            OBVIOUS
        <3>2. seq \in Seq(Tasks) /\ n = Len(seq) /\ i \in 1..n
            BY <1>1, <1>2, <3>1
        <3>3. /\ RemoveAt(seq, i) \in Seq(Tasks) /\ Len(RemoveAt(seq, i)) = n - 1
              /\ \A j \in 1..(n - 1) :
                    RemoveAt(seq, i)[j] = IF j < i THEN seq[j] ELSE seq[j + 1]
            BY <3>2, WithoutOne
        <3> QED
            BY <2>2, <3>1, <3>3
    <2>4. \A x, y \in 1..n : backlog[x] = backlog[y] => x = y
        BY <1>2 DEF BacklogTypes, IsInjective
    <2>5. DOMAIN rest = 1..(n - 1)
        BY <2>3
    <2>6. ASSUME NEW x \in 1..(n - 1)
          PROVE  \/ x < i /\ x \in 1..n /\ rest[x] = backlog[x]
                 \/ ~(x < i) /\ x + 1 \in 1..n /\ rest[x] = backlog[x + 1]
        BY <1>2, <2>3
    <2>7. ASSUME NEW x \in 1..(n - 1), NEW y \in 1..(n - 1), rest[x] = rest[y]
          PROVE  x = y
        <3>1. CASE x < i /\ y < i
            BY <2>4, <2>6, <2>7, <3>1
        <3>2. CASE x < i /\ ~(y < i)
            <4>1. x = y + 1
                BY <2>4, <2>6, <2>7, <3>2
            <4> QED
                BY <3>2, <4>1
        <3>3. CASE ~(x < i) /\ y < i
            <4>1. x + 1 = y
                BY <2>4, <2>6, <2>7, <3>3
            <4> QED
                BY <3>3, <4>1
        <3>4. CASE ~(x < i) /\ ~(y < i)
            <4>1. x + 1 = y + 1
                BY <2>4, <2>6, <2>7, <3>4
            <4> QED
                BY <4>1
        <3> QED
            BY <3>1, <3>2, <3>3, <3>4
    <2>8. ASSUME NEW u \in waiting, u # t PROVE u \in ToSet(rest)
        <3>1. PICK x \in 1..n : backlog[x] = u
            BY <1>2 DEF BacklogTypes, ToSet
        <3>2. x # i
            BY <2>1, <2>8, <3>1
        <3>3. PICK y \in 1..(n - 1) : rest[y] = backlog[x]
            <4>1. CASE x < i
                <5>1. x \in 1..(n - 1)
                    BY <1>2, <4>1
                <5>2. rest[x] = backlog[x]
                    BY <2>6, <4>1, <5>1
                <5> QED
                    BY <5>1, <5>2
            <4>2. CASE ~(x < i)
                <5>1. PICK y : y = x - 1
                    OBVIOUS
                <5>2. y \in 1..(n - 1) /\ ~(y < i) /\ y + 1 = x
                    BY <1>2, <3>2, <4>2, <5>1
                <5>3. rest[y] = backlog[y + 1]
                    BY <2>6, <5>2
                <5> QED
                    BY <5>2, <5>3
            <4> QED
                BY <4>1, <4>2
        <3> QED
            BY <2>5, <3>1, <3>3 DEF ToSet
    <2>9. IsInjective(rest)
        BY <2>5, <2>7 DEF IsInjective
    <2>10. waiting' \in SUBSET ToSet(rest)
        BY <1>3, <2>8 DEF BacklogTypes
    <2>11. backlog' = rest
        BY <2>1, <2>2
    <2> QED
        BY <2>3, <2>9, <2>10, <2>11 DEF BacklogTypes
<1>5. CASE t \notin ToSet(backlog)
    <2>1. backlog' = backlog
        BY <1>5 DEF Forget
    <2> QED
        BY <1>3, <2>1 DEF BacklogTypes
<1> QED
    BY <1>4, <1>5

\* What failed again keeps its place, what failed for the first time is last.
LEMMA NoteFailure ==
    ASSUME BacklogTypes, NEW t \in Tasks, waiting' = waiting \cup {t},
           backlog' = IF t \in ToSet(backlog) THEN backlog ELSE Append(backlog, t)
    PROVE  BacklogTypes'
<1> PICK n : n = Len(backlog)
    OBVIOUS
<1>1. backlog \in Seq(Tasks) /\ n \in Nat /\ DOMAIN backlog = 1..n
    BY DEF BacklogTypes
<1>2. CASE t \in ToSet(backlog)
    BY <1>2 DEF BacklogTypes
<1>3. CASE t \notin ToSet(backlog)
    <2> PICK more : more = Append(backlog, t)
        OBVIOUS
    <2>1. /\ more \in Seq(Tasks) /\ Len(more) = n + 1
          /\ \A i \in 1..n : more[i] = backlog[i]
          /\ more[n + 1] = t
        BY <1>1, AppendProperties
    <2>2. DOMAIN more = 1..(n + 1)
        BY <2>1
    <2>3. \A i \in 1..n : backlog[i] # t
        BY <1>1, <1>3 DEF ToSet
    <2>4. \A i, j \in 1..n : backlog[i] = backlog[j] => i = j
        BY <1>1 DEF BacklogTypes, IsInjective
    <2>5. \A i \in 1..(n + 1) : i \in 1..n \/ i = n + 1
        BY <1>1
    <2>6. \A i, j \in 1..(n + 1) : more[i] = more[j] => i = j
        BY <2>1, <2>3, <2>4, <2>5
    <2>7. IsInjective(more)
        BY <2>2, <2>6 DEF IsInjective
    <2>8. \A i \in 1..n : i \in 1..(n + 1) /\ n + 1 \in 1..(n + 1)
        BY <1>1
    <2>9. n + 1 \in 1..(n + 1)
        BY <1>1
    <2>10. t \in ToSet(more)
        BY <2>1, <2>2, <2>9 DEF ToSet
    <2>11. ASSUME NEW u \in waiting PROVE u \in ToSet(more)
        <3>1. PICK i \in 1..n : backlog[i] = u
            BY <1>1 DEF BacklogTypes, ToSet
        <3> QED
            BY <2>1, <2>2, <2>8, <3>1 DEF ToSet
    <2>12. backlog' = more
        BY <1>3
    <2> QED
        BY <2>1, <2>7, <2>10, <2>11, <2>12 DEF BacklogTypes
<1> QED
    BY <1>2, <1>3

\* A thread's new place, with a task in hand where it needs one.
LEMMA ThreadTyped ==
    ASSUME LockInv, ThreadTypes, NEW s \in Syncers,
           NEW p \in {"idle", "batch", "wants", "looks", "writes"}, NEW q \in Seq(Tasks),
           p \in {"wants", "looks", "writes"} => q # <<>>,
           Set(s, p, q), lock' \in Syncers \cup {NoSyncer}
    PROVE  ThreadTypes'
<1> PICK new : new = [phase |-> p, queue |-> q]
    OBVIOUS
<1>1. syncer' = [r \in Syncers |-> IF r = s THEN new ELSE syncer[r]]
    BY DEF LockInv, Set
<1>2. /\ new \in [phase : {"idle", "batch", "wants", "looks", "writes"}, queue : Seq(Tasks)]
      /\ new.phase = p /\ new.queue = q
    OBVIOUS
<1>3. ASSUME NEW r \in Syncers
      PROVE  /\ syncer'[r] \in [phase : {"idle", "batch", "wants", "looks", "writes"},
                                queue : Seq(Tasks)]
             /\ syncer'[r].phase \in {"wants", "looks", "writes"} => Queue(r)' # <<>>
    <2>1. CASE r = s
        <3>1. syncer'[r] = new
            BY <1>1, <2>1
        <3> QED
            BY <1>2, <3>1 DEF Queue
    <2>2. CASE r # s
        <3>1. syncer'[r] = syncer[r]
            BY <1>1, <2>2
        <3> QED
            BY <3>1 DEF ThreadTypes, Queue
    <2> QED
        BY <2>1, <2>2
<1> QED
    BY <1>3 DEF ThreadTypes

LEMMA QueueTyped ==
    ASSUME ThreadTypes, NEW s \in Syncers
    PROVE  Queue(s) \in Seq(Tasks)
BY DEF ThreadTypes, Queue

LEMMA TailTyped ==
    ASSUME NEW q \in Seq(Tasks), q # <<>>
    PROVE  Head(q) \in Tasks /\ Tail(q) \in Seq(Tasks)
BY HeadTailProperties

\* A step that leaves the table alone and reads no more than it.
LEMMA RowsTyped ==
    ASSUME RowTypes, UNCHANGED <<entries, written>>, day' \in 0..MaxDay,
           Found' \subseteq Known
    PROVE  RowTypes'
<1>1. Known' \subseteq Known
    BY DEF Known
<1> QED
    BY <1>1 DEF RowTypes

\* A row that is inserted gets an id that no other row of the table has.
LEMMA InsertTyped ==
    ASSUME RowsInv, RowTypes, NEW kind \in Kinds, NEW t \in Tasks \cup {NoTask},
           NEW holds \in SUBSET Ids, NEW others, Insert(kind, t, holds, others),
           \A o \in others : IsRow(o) /\ \E e \in entries : o.id = e.id,
           \A o, p \in others : o.id = p.id => o = p,
           UNCHANGED day, Found' \subseteq Found
    PROVE  RowTypes'
<1>1. PICK C : C = Copies(kind, t)
    OBVIOUS
<1>2. IsFiniteSet(C)
    BY <1>1 DEF RowsInv, Numbered
<1>3. PICK n : n = Cardinality(C) + 1
    OBVIOUS
<1>4. n \in Nat /\ 1 <= n
    <2>1. Cardinality(C) \in Nat
        BY <1>2, FS_CardinalityType
    <2> QED
        BY <1>3, <2>1
<1>5. PICK id : id = [kind |-> kind, task |-> t, copy |-> n]
    OBVIOUS
<1>6. PICK row : row = [id |-> id, kind |-> kind, day |-> day, holds |-> holds]
    OBVIOUS
<1>7. n <= MaxCopies /\ entries' = others \cup {row} /\ written' = written \cup {id}
    BY <1>1, <1>3, <1>5, <1>6 DEF Insert
<1>8. id \in Ids
    <2>1. n \in 1..MaxCopies
        BY <1>4, <1>7, ConstantsOK
    <2> QED
        BY <1>5, <2>1 DEF Ids
<1>9. row.id = id /\ IsRow(row)
    BY <1>6, <1>8 DEF IsRow, RowTypes
<1>10. id \notin written
    <2>1. \A i \in C : i.copy \in Nat /\ i.copy <= Cardinality(C)
        BY <1>1 DEF RowsInv, Numbered
    <2>2. Cardinality(C) \in Nat
        BY <1>2, FS_CardinalityType
    <2>3. id.copy = n /\ id.kind = kind /\ id.task = t
        BY <1>5
    <2>4. id \notin C
        BY <1>3, <2>1, <2>2, <2>3
    <2> QED
        BY <1>1, <2>3, <2>4 DEF Copies
<1>11. \A o \in others : o.id \in written
    BY DEF RowsInv, Settled, Known
<1>12. \A e, f \in entries' : e.id = f.id => e = f
    BY <1>7, <1>9, <1>10, <1>11
<1>13. \A e \in Known' : IsRow(e)
    <2>1. Known' \subseteq others \cup {row} \cup Known
        BY <1>7 DEF Known
    <2> QED
        BY <1>9, <2>1 DEF RowTypes
<1> QED
    BY <1>7, <1>8, <1>12, <1>13 DEF RowTypes

LEMMA PlainInsertTyped ==
    ASSUME RowsInv, RowTypes, NEW kind \in Kinds, NEW t \in Tasks \cup {NoTask},
           Insert(kind, t, {}, entries), UNCHANGED <<compactor, day>>
    PROVE  RowTypes'
<1>1. Found' \subseteq Found
    BY DEF Found
<1>2. \A e \in entries : IsRow(e)
    BY DEF RowTypes, Known
<1>3. \A e, f \in entries : e.id = f.id => e = f
    BY DEF RowTypes
<1>4. PICK holds \in SUBSET Ids : holds = {}
    OBVIOUS
<1>5. Insert(kind, t, holds, entries)
    BY <1>4
<1> QED
    BY <1>1, <1>2, <1>3, <1>5, InsertTyped

\* Archiving changes a row's kind, and keeps its id to itself.
LEMMA ReplacedTyped ==
    ASSUME RowTypes, NEW tier, NEW group \in SUBSET Found, NEW others,
           others = Replace(tier, group)
    PROVE  /\ \A o \in others : IsRow(o) /\ \E e \in entries : o.id = e.id
           /\ \A o, p \in others : o.id = p.id => o = p
           /\ Holds(group) \in SUBSET Ids
<1> PICK sources : sources = {e \in entries : e.id \in IdsOf(group)}
    OBVIOUS
<1> DEFINE archive(e) == [e EXCEPT !.kind = "archived"]
<1>1. \A e \in entries : IsRow(e)
    BY DEF RowTypes, Known
<1>2. ASSUME NEW e \in entries
      PROVE  IsRow(archive(e)) /\ archive(e).id = e.id
    <2>1. IsRow(e)
        BY <1>1
    <2>2. archive(e) = [id |-> e.id, kind |-> "archived", day |-> e.day, holds |-> e.holds]
        BY <2>1 DEF IsRow
    <2>3. PICK a : a = archive(e)
        OBVIOUS
    <2>4. /\ a.id = e.id /\ a.kind = "archived" /\ a.day = e.day /\ a.holds = e.holds
          /\ a = [id |-> a.id, kind |-> a.kind, day |-> a.day, holds |-> a.holds]
        BY <2>2, <2>3
    <2>5. "archived" \in Kinds
        BY DEF Kinds
    <2>6. IsRow(a)
        BY <2>1, <2>4, <2>5 DEF IsRow
    <2> QED
        BY <2>3, <2>4, <2>6
<1>3. others = (entries \ sources) \cup
                  (IF tier = "compress" THEN {} ELSE {archive(e) : e \in sources})
    BY DEF Replace
<1> HIDE DEF archive
<1>4. ASSUME NEW o \in others
      PROVE  \/ o \in entries \ sources
             \/ \E e \in sources : o = archive(e)
    BY <1>3
<1>5. ASSUME NEW o \in others
      PROVE  IsRow(o) /\ \E e \in entries : o.id = e.id
    BY <1>1, <1>2, <1>4
<1>6. \A e, f \in entries : e.id = f.id => e = f
    BY DEF RowTypes
<1>7. \A e \in entries, f \in sources : e.id = f.id => e \in sources
    OBVIOUS
<1>8. ASSUME NEW o \in others, NEW p \in others, o.id = p.id PROVE o = p
    <2>1. CASE o \in entries \ sources /\ p \in entries \ sources
        BY <1>6, <1>8, <2>1
    <2>2. ASSUME NEW e \in sources, o = archive(e), NEW f \in sources, p = archive(f)
          PROVE  o = p
        <3>1. e.id = f.id
            BY <1>2, <1>8, <2>2
        <3> QED
            BY <1>6, <2>2, <3>1
    <2>3. ASSUME NEW e \in sources, o = archive(e), p \in entries \ sources
          PROVE  FALSE
        BY <1>2, <1>7, <1>8, <2>3
    <2>4. ASSUME NEW f \in sources, p = archive(f), o \in entries \ sources
          PROVE  FALSE
        BY <1>2, <1>7, <1>8, <2>4
    <2> QED
        BY <1>4, <2>1, <2>2, <2>3, <2>4
<1>9. \A e \in group : e.id \in Ids /\ e.holds \in SUBSET Ids
    BY DEF RowTypes, Known, IsRow
<1>10. Holds(group) \in SUBSET Ids
    BY <1>9 DEF Holds, IdsOf
<1> QED
    BY <1>5, <1>8, <1>10

LEMMA CompactorTyped ==
    ASSUME Planning, CompactorTypes, NEW k \in Compactors,
           NEW p \in {"idle", "protected", "writes"},
           NEW tier \in {"compress", "summarize"}, NEW prot \in SUBSET Tasks, NEW found,
           Becomes(k, Working(p, tier, prot, found))
    PROVE  CompactorTypes'
<1> PICK r : r = Working(p, tier, prot, found)
    OBVIOUS
<1>1. compactor' = [j \in Compactors |-> IF j = k THEN r ELSE compactor[j]]
    BY DEF Planning, Becomes
<1>2. r.phase = p /\ r.tier = tier /\ r.protected = prot
    BY DEF Working
<1>3. ASSUME NEW j \in Compactors
      PROVE  /\ compactor'[j].phase \in {"idle", "protected", "writes"}
             /\ compactor'[j].tier \in {"compress", "summarize"}
             /\ compactor'[j].protected \in SUBSET Tasks
    <2>1. CASE j = k
        <3>1. compactor'[j] = r
            BY <1>1, <2>1
        <3> QED
            BY <1>2, <3>1
    <2>2. CASE j # k
        <3>1. compactor'[j] = compactor[j]
            BY <1>1, <2>2
        <3> QED
            BY <3>1 DEF CompactorTypes
    <2> QED
        BY <2>1, <2>2
<1> QED
    BY <1>3 DEF CompactorTypes

LEMMA RestTyped ==
    ASSUME Planning, CompactorTypes, NEW k \in Compactors, Becomes(k, Rest)
    PROVE  CompactorTypes' /\ Found' \subseteq Found
<1>1. Becomes(k, Working("idle", "compress", {}, {}))
    BY DEF Rest, Working
<1>2. CompactorTypes'
    BY <1>1, CompactorTyped
<1>3. Found' \subseteq Found
    BY <1>1, CompactorMoves
<1> QED
    BY <1>2, <1>3

LEMMA FaultTyped ==
    ASSUME TaskTypes, Fault
    PROVE  faults' \in 0..MaxFaults
BY ConstantsOK DEF TaskTypes, Fault

LEMMA BatchTypes ==
    ASSUME MemInv, TypeInv, NEW s \in Syncers,
           SyncCompleted(s) \/ RetryFailed(s) \/ Consider(s) \/ TakeLock(s)
    PROVE  TypeInv'
<1>1. UNCHANGED <<completed, failing, entries, written, day, backlog, waiting, compactor>>
    BY DEF SyncCompleted, RetryFailed, Consider, TakeLock, dbVars
<1>2. PICK own : own = Queue(s)
    OBVIOUS
<1>3. own \in Seq(Tasks) /\ s \in Syncers \cup {NoSyncer} /\ <<>> \in Seq(Tasks)
    BY <1>2, QueueTyped DEF TypeInv
<1>4. own # <<>> => Tail(own) \in Seq(Tasks)
    BY <1>3, TailTyped
<1>5. lock' \in Syncers \cup {NoSyncer}
    BY DEF SyncCompleted, RetryFailed, Consider, TakeLock, ReadTask, TypeInv, ThreadTypes
<1>6. ASSUME NEW p \in {"idle", "batch", "wants", "looks", "writes"},
             NEW q \in Seq(Tasks), p \in {"wants", "looks", "writes"} => q # <<>>,
             Set(s, p, q)
      PROVE  ThreadTypes'
    BY <1>5, <1>6, ThreadTyped DEF MemInv, TypeInv
<1>7. ThreadTypes'
    <2>1. CASE SyncCompleted(s)
        <3>1. Batch \in Seq(Tasks)
            BY BatchTyped DEF TypeInv, TaskTypes, MemInv, LockInv
        <3>2. Set(s, "batch", Batch) \/ UNCHANGED <<lock, syncer>>
            BY <2>1 DEF SyncCompleted
        <3>3. CASE UNCHANGED <<lock, syncer>>
            <4>1. ThreadTypes /\ lock' = lock /\ syncer' = syncer
                BY <3>3 DEF TypeInv
            <4> QED
                BY <4>1 DEF ThreadTypes, Queue
        <3> QED
            BY <1>6, <3>1, <3>2, <3>3
    <2>2. CASE RetryFailed(s)
        <3>1. backlog \in Seq(Tasks) /\ Set(s, "batch", backlog)
            BY <2>2 DEF RetryFailed, TypeInv, BacklogTypes
        <3> QED
            BY <1>6, <3>1
    <2>3. CASE Consider(s)
        <3>1. \/ Set(s, "idle", <<>>)
              \/ own # <<>> /\ Set(s, "batch", Tail(own))
              \/ own # <<>> /\ Set(s, "wants", own)
            BY <1>2, <2>3 DEF Consider
        <3>2. CASE Set(s, "idle", <<>>)
            BY <1>6, <1>3, <3>2
        <3>3. CASE own # <<>> /\ Set(s, "batch", Tail(own))
            BY <1>6, <1>4, <3>3
        <3>4. CASE own # <<>> /\ Set(s, "wants", own)
            BY <1>6, <1>3, <3>4
        <3> QED
            BY <3>1, <3>2, <3>3, <3>4
    <2>4. CASE TakeLock(s)
        <3>1. own # <<>>
            BY <1>2, <2>4 DEF TakeLock, TypeInv, ThreadTypes
        <3>2. Set(s, "looks", own) \/ Set(s, "batch", Tail(own))
            BY <1>2, <2>4 DEF TakeLock, ReadTask
        <3>3. CASE Set(s, "looks", own)
            BY <1>6, <1>3, <3>1, <3>3
        <3>4. CASE Set(s, "batch", Tail(own))
            BY <1>6, <1>4, <3>1, <3>4
        <3> QED
            BY <3>2, <3>3, <3>4
    <2> QED
        BY <2>1, <2>2, <2>3, <2>4
<1>8. RowTypes'
    BY <1>1 DEF TypeInv, RowTypes, Known, Found
<1>9. BacklogTypes' /\ CompactorTypes'
    BY <1>1 DEF TypeInv, BacklogTypes, CompactorTypes
<1>10. faults' \in 0..MaxFaults
    <2>1. UNCHANGED faults \/ Fault
        BY DEF SyncCompleted, RetryFailed, Consider, TakeLock, ReadTask
    <2> QED
        BY <2>1, FaultTyped DEF TypeInv, TaskTypes
<1>11. TaskTypes'
    BY <1>1, <1>10 DEF TypeInv, TaskTypes
<1> QED
    BY <1>7, <1>8, <1>9, <1>11 DEF TypeInv

LEMMA LookTypes ==
    ASSUME MemInv, TypeInv, NEW s \in Syncers, Look(s)
    PROVE  TypeInv'
<1>1. UNCHANGED <<completed, failing, entries, written, day, compactor>>
    BY DEF Look, dbVars
<1>2. PICK own : own = Queue(s)
    OBVIOUS
<1>3. own \in Seq(Tasks) /\ own # <<>>
    BY <1>2, QueueTyped DEF TypeInv, ThreadTypes, Look
<1>4. Head(own) \in Tasks /\ Tail(own) \in Seq(Tasks)
    BY <1>3, TailTyped
<1>5. \/ Forget(Head(own)) /\ LetGo(s) /\ UNCHANGED faults
      \/ Set(s, "writes", own) /\ UNCHANGED <<lock, backlog, waiting, faults>>
      \/ Fault /\ Set(s, "writes", own) /\ UNCHANGED <<lock, backlog, waiting>>
    BY <1>2 DEF Look
<1>6. BacklogTypes'
    <2>1. CASE Forget(Head(own))
        BY <2>1, ForgetTypes DEF TypeInv
    <2>2. CASE UNCHANGED <<backlog, waiting>>
        BY <2>2 DEF TypeInv, BacklogTypes
    <2> QED
        BY <1>5, <2>1, <2>2
<1>7. ThreadTypes'
    <2>1. CASE LetGo(s)
        <3>1. Set(s, "batch", Tail(own)) /\ lock' \in Syncers \cup {NoSyncer}
            BY <1>2, <2>1 DEF LetGo
        <3> QED
            BY <1>4, <3>1, ThreadTyped DEF MemInv, TypeInv
    <2>2. CASE Set(s, "writes", own) /\ UNCHANGED lock
        <3>1. lock' \in Syncers \cup {NoSyncer}
            BY <2>2 DEF TypeInv, ThreadTypes
        <3> QED
            BY <1>3, <2>2, <3>1, ThreadTyped DEF MemInv, TypeInv
    <2> QED
        BY <1>5, <2>1, <2>2
<1>8. faults' \in 0..MaxFaults
    BY <1>5, FaultTyped DEF TypeInv, TaskTypes
<1>9. RowTypes'
    BY <1>1 DEF TypeInv, RowTypes, Known, Found
<1>10. CompactorTypes' /\ TaskTypes'
    BY <1>1, <1>8 DEF TypeInv, CompactorTypes, TaskTypes
<1> QED
    BY <1>6, <1>7, <1>9, <1>10 DEF TypeInv

LEMMA WriteTypes ==
    ASSUME MemInv, TypeInv, NEW s \in Syncers, Write(s)
    PROVE  TypeInv'
<1>1. UNCHANGED <<completed, failing, day, compactor>> /\ LetGo(s)
    BY DEF Write
<1>2. PICK own : own = Queue(s)
    OBVIOUS
<1>3. own \in Seq(Tasks) /\ own # <<>>
    BY <1>2, QueueTyped DEF TypeInv, ThreadTypes, Write
<1>4. PICK t : t = Head(own)
    OBVIOUS
<1>5. t \in Tasks /\ Tail(own) \in Seq(Tasks)
    BY <1>3, <1>4, TailTyped
<1>6. \/ Insert("task_result", t, {}, entries) /\ Forget(t) /\ UNCHANGED faults
      \/ /\ Fault
         /\ backlog' = IF t \in ToSet(backlog) THEN backlog ELSE Append(backlog, t)
         /\ waiting' = waiting \cup {t}
         /\ UNCHANGED <<entries, written>>
    BY <1>2, <1>4 DEF Write
<1>7. BacklogTypes'
    BY <1>5, <1>6, ForgetTypes, NoteFailure DEF TypeInv
<1>8. ThreadTypes'
    <2>1. Set(s, "batch", Tail(own)) /\ lock' \in Syncers \cup {NoSyncer}
        BY <1>1, <1>2 DEF LetGo
    <2> QED
        BY <1>5, <2>1, ThreadTyped DEF MemInv, TypeInv
<1>9. RowTypes'
    <2>1. CASE Insert("task_result", t, {}, entries)
        <3>1. PICK kind : kind = "task_result"
            OBVIOUS
        <3>2. kind \in Kinds /\ t \in Tasks \cup {NoTask} /\ Insert(kind, t, {}, entries)
            BY <1>5, <2>1, <3>1 DEF Kinds
        <3> QED
            BY <1>1, <3>2, PlainInsertTyped DEF MemInv, TypeInv
    <2>2. CASE UNCHANGED <<entries, written>>
        BY <1>1, <2>2 DEF TypeInv, RowTypes, Known, Found
    <2> QED
        BY <1>6, <2>1, <2>2
<1>10. faults' \in 0..MaxFaults
    BY <1>6, FaultTyped DEF TypeInv, TaskTypes
<1>11. CompactorTypes' /\ TaskTypes'
    BY <1>1, <1>10 DEF TypeInv, CompactorTypes, TaskTypes
<1> QED
    BY <1>7, <1>8, <1>9, <1>11 DEF TypeInv

LEMMA RestartTypes ==
    ASSUME MemInv, TypeInv, Restart
    PROVE  TypeInv'
<1>1. UNCHANGED <<completed, failing, entries, written, day, compactor>>
    BY DEF Restart, dbVars
<1>2. backlog' = <<>> /\ waiting' = {} /\ lock' = NoSyncer
    BY DEF Restart
<1>3. BacklogTypes'
    BY <1>2 DEF BacklogTypes, IsInjective, ToSet
<1>4. ThreadTypes'
    <2>1. syncer' = [s \in Syncers |-> Idle]
        BY DEF Restart
    <2>2. /\ Idle \in [phase : {"idle", "batch", "wants", "looks", "writes"},
                       queue : Seq(Tasks)]
          /\ Idle.phase = "idle"
        BY DEF Idle
    <2> QED
        BY <1>2, <2>1, <2>2 DEF ThreadTypes
<1>5. faults' \in 0..MaxFaults
    BY FaultTyped DEF TypeInv, Restart
<1>6. RowTypes'
    BY <1>1 DEF TypeInv, RowTypes, Known, Found
<1>7. CompactorTypes' /\ TaskTypes'
    BY <1>1, <1>5 DEF TypeInv, CompactorTypes, TaskTypes
<1> QED
    BY <1>3, <1>4, <1>6, <1>7 DEF TypeInv

LEMMA OutsideTypes ==
    ASSUME MemInv, TypeInv,
           \/ \E t \in Tasks :
                 \/ TaskCompletes(t) \/ TaskReopens(t) \/ TaskFails(t) \/ BackoffElapses(t)
                 \/ Remembers(t, "intake") \/ Remembers(t, "result")
           \/ NextDay \/ UNCHANGED vars
    PROVE  TypeInv'
<1>1. UNCHANGED <<lock, syncer, backlog, compactor>>
    BY DEF TaskCompletes, TaskReopens, TaskFails, BackoffElapses, Remembers, NextDay, vars,
           dbVars, syncVars
<1>2. TaskTypes'
    <2>1. ASSUME NEW t \in Tasks, TaskCompletes(t) PROVE TaskTypes'
        <3>1. IsFiniteSet(completed \cup {t})
            BY FS_AddElement DEF TypeInv, TaskTypes
        <3> QED
            BY <2>1, <3>1 DEF TaskCompletes, TypeInv, TaskTypes
    <2>2. ASSUME NEW t \in Tasks, TaskReopens(t) PROVE TaskTypes'
        <3>1. IsFiniteSet(completed \ {t})
            BY FS_RemoveElement DEF TypeInv, TaskTypes
        <3>2. faults' \in 0..MaxFaults
            BY <2>2, FaultTyped DEF TaskReopens, TypeInv
        <3> QED
            BY <2>2, <3>1, <3>2 DEF TaskReopens, TypeInv, TaskTypes
    <2>3. ASSUME NEW t \in Tasks, TaskFails(t) PROVE TaskTypes'
        BY <2>3 DEF TaskFails, TypeInv, TaskTypes
    <2>4. CASE UNCHANGED <<completed, failing, faults>>
        BY <2>4 DEF TypeInv, TaskTypes
    <2> QED
        BY <2>1, <2>2, <2>3, <2>4 DEF BackoffElapses, Remembers, NextDay, vars, dbVars
<1>3. BacklogTypes'
    <2>1. waiting' \subseteq waiting
        BY DEF TaskCompletes, TaskReopens, TaskFails, BackoffElapses, Remembers, NextDay, vars,
               dbVars, syncVars
    <2> QED
        BY <1>1, <2>1 DEF TypeInv, BacklogTypes
<1>4. ThreadTypes' /\ CompactorTypes'
    BY <1>1 DEF TypeInv, ThreadTypes, CompactorTypes, Queue
<1>5. RowTypes'
    <2>1. ASSUME NEW t \in Tasks, NEW kind \in {"intake", "result"}, Remembers(t, kind)
          PROVE  RowTypes'
        <3>1. kind \in Kinds /\ t \in Tasks \cup {NoTask}
            BY DEF Kinds
        <3>2. Insert(kind, t, {}, entries) /\ UNCHANGED <<compactor, day>>
            BY <2>1 DEF Remembers
        <3> QED
            BY <3>1, <3>2, PlainInsertTyped DEF MemInv, TypeInv
    <2>2. CASE UNCHANGED <<entries, written>> /\ day' \in 0..MaxDay
        <3>1. Found' \subseteq Known
            BY <1>1 DEF Found, Known
        <3> QED
            BY <2>2, <3>1, RowsTyped DEF TypeInv
    <2>3. CASE NextDay
        <3>1. day' \in 0..MaxDay
            BY <2>3, ConstantsOK DEF NextDay, TypeInv, RowTypes
        <3> QED
            BY <2>2, <2>3, <3>1 DEF NextDay
    <2>4. CASE UNCHANGED <<entries, written, day>>
        BY <2>2, <2>4 DEF TypeInv, RowTypes
    <2> QED
        BY <2>1, <2>3, <2>4 DEF TaskCompletes, TaskReopens, TaskFails, BackoffElapses, vars, dbVars
<1> QED
    BY <1>2, <1>3, <1>4, <1>5 DEF TypeInv

LEMMA StartCompactionTypes ==
    ASSUME MemInv, TypeInv, NEW k \in Compactors, NEW tier \in {"compress", "summarize"},
           StartCompaction(k, tier)
    PROVE  CompactorTypes' /\ Found' \subseteq Found
<1>1. Becomes(k, Working("protected", tier, failing, {}))
    BY StartStep
<1>2. failing \in SUBSET Tasks /\ CompactorTypes /\ Planning
    BY DEF TypeInv, TaskTypes, MemInv, RowsInv
<1>3. CompactorTypes'
    BY <1>1, <1>2, CompactorTyped
<1>4. Found' \subseteq Found
    BY <1>1, <1>2, CompactorMoves
<1> QED
    BY <1>3, <1>4

LEMMA ReadCandidatesTypes ==
    ASSUME MemInv, TypeInv, NEW k \in Compactors, ReadCandidates(k)
    PROVE  CompactorTypes' /\ Found' \subseteq Known
<1> PICK c : c = compactor[k]
    OBVIOUS
<1>1. Planning /\ CompactorTypes
    BY DEF MemInv, RowsInv, TypeInv
<1>2. CASE Becomes(k, Rest)
    BY <1>1, <1>2, RestTyped DEF Known
<1>3. CASE Becomes(k, [c EXCEPT !.phase = "writes", !.found = Candidates(c)])
    <2> PICK found : found = Candidates(c)
        OBVIOUS
    <2>1. found \subseteq entries
        BY DEF Candidates
    <2>2. PICK a : a = [c EXCEPT !.phase = "writes"]
        OBVIOUS
    <2>3. a = Working("writes", c.tier, c.protected, c.found)
        BY <1>1, <2>2, CompactorIs, PhaseSet
    <2>4. [a EXCEPT !.found = found] = Working("writes", c.tier, c.protected, found)
        BY <2>3 DEF Working
    <2>5. Becomes(k, Working("writes", c.tier, c.protected, found))
        BY <1>3, <2>2, <2>4
    <2>6. c.tier \in {"compress", "summarize"} /\ c.protected \in SUBSET Tasks
        BY <1>1 DEF CompactorTypes
    <2>7. CompactorTypes'
        BY <1>1, <2>5, <2>6, CompactorTyped
    <2>8. Found' \subseteq Found \cup found
        BY <1>1, <2>5, CompactorMoves
    <2> QED
        BY <2>1, <2>7, <2>8 DEF Known
<1> QED
    BY <1>2, <1>3 DEF ReadCandidates

LEMMA WriteDigestTypes ==
    ASSUME MemInv, TypeInv, NEW k \in Compactors, WriteDigest(k)
    PROVE  CompactorTypes' /\ RowTypes'
<1> PICK c : c = compactor[k]
    OBVIOUS
<1>1. Planning /\ CompactorTypes /\ RowTypes /\ RowsInv
    BY DEF MemInv, RowsInv, TypeInv
<1>2. PICK group, left, kind :
        /\ group \in SUBSET c.found /\ left = c.found \ group
        /\ kind \in {"compressed", "summary"}
        /\ Insert(kind, NoTask, Holds(group), Replace(c.tier, group))
        /\ Becomes(k, IF left = {} THEN Rest ELSE [c EXCEPT !.found = left])
    BY DigestStep
<1>3. CompactorTypes' /\ Found' \subseteq Found
    <2>1. CASE left = {}
        <3>1. Becomes(k, Rest)
            BY <1>2, <2>1
        <3> QED
            BY <1>1, <3>1, RestTyped
    <2>2. CASE left # {}
        <3>1. [c EXCEPT !.found = left] = Working(c.phase, c.tier, c.protected, left)
            <4>1. IsWorking(c)
                BY <1>1, CompactorIs
            <4> QED
                BY <4>1, FoundSet
        <3>2. Becomes(k, Working(c.phase, c.tier, c.protected, left))
            BY <1>2, <2>2, <3>1
        <3>3. /\ c.phase \in {"idle", "protected", "writes"}
              /\ c.tier \in {"compress", "summarize"} /\ c.protected \in SUBSET Tasks
            BY <1>1 DEF CompactorTypes
        <3>4. CompactorTypes'
            BY <1>1, <3>2, <3>3, CompactorTyped
        <3>5. left \subseteq c.found
            BY <1>2
        <3>6. Found' \subseteq Found
            BY <1>1, <3>2, <3>5, CompactorMoves
        <3> QED
            BY <3>4, <3>6
    <2> QED
        BY <2>1, <2>2
<1>4. RowTypes'
    <2>1. group \in SUBSET Found
        BY <1>2 DEF Found
    <2>2. PICK others : others = Replace(c.tier, group)
        OBVIOUS
    <2>3. PICK holds : holds = Holds(group)
        OBVIOUS
    <2>4. /\ \A o \in others : IsRow(o) /\ \E e \in entries : o.id = e.id
          /\ \A o, p \in others : o.id = p.id => o = p
          /\ holds \in SUBSET Ids
        BY <1>1, <2>1, <2>2, <2>3, ReplacedTyped
    <2>5. kind \in Kinds /\ NoTask \in Tasks \cup {NoTask}
        BY <1>2 DEF Kinds
    <2>6. Insert(kind, NoTask, holds, others)
        BY <1>2, <2>2, <2>3
    <2>7. UNCHANGED day
        BY DEF WriteDigest
    <2> QED
        BY <1>1, <1>3, <2>4, <2>5, <2>6, <2>7, InsertTyped
<1> QED
    BY <1>3, <1>4

LEMMA CompactorStepTypes ==
    ASSUME MemInv, TypeInv, NEW k \in Compactors,
           \/ \E tier \in {"compress", "summarize"} : StartCompaction(k, tier)
           \/ ReadCandidates(k) \/ WriteDigest(k) \/ CompactionFails(k)
    PROVE  TypeInv'
<1>1. UNCHANGED <<completed, failing, lock, syncer, backlog, waiting, day>>
    BY DEF StartCompaction, ReadCandidates, WriteDigest, CompactionFails, dbVars, syncVars
<1>2. faults' \in 0..MaxFaults
    BY FaultTyped DEF StartCompaction, ReadCandidates, WriteDigest, CompactionFails,
       TypeInv, TaskTypes
<1>3. TaskTypes' /\ BacklogTypes' /\ ThreadTypes'
    BY <1>1, <1>2 DEF TypeInv, TaskTypes, BacklogTypes, ThreadTypes, Queue
<1>4. CompactorTypes' /\ RowTypes'
    <2>1. CASE WriteDigest(k)
        BY <2>1, WriteDigestTypes
    <2>2. CASE ~WriteDigest(k)
        <3>1. UNCHANGED <<entries, written>> /\ day' \in 0..MaxDay
            BY <2>2 DEF StartCompaction, ReadCandidates, CompactionFails, dbVars, TypeInv, RowTypes
        <3>2. CompactorTypes' /\ Found' \subseteq Known
            <4>1. CASE CompactionFails(k)
                <5>1. Becomes(k, Rest) /\ Planning /\ CompactorTypes
                    BY <4>1 DEF CompactionFails, MemInv, RowsInv, TypeInv
                <5> QED
                    BY <5>1, RestTyped DEF Known
            <4>2. CASE \E tier \in {"compress", "summarize"} : StartCompaction(k, tier)
                BY <4>2, StartCompactionTypes DEF Known
            <4> QED
                BY <2>2, <4>1, <4>2, ReadCandidatesTypes
        <3>3. RowTypes'
            BY <3>1, <3>2, RowsTyped DEF TypeInv
        <3> QED
            BY <3>2, <3>3
    <2> QED
        BY <2>1, <2>2
<1> QED
    BY <1>3, <1>4 DEF TypeInv

LEMMA InitTypes == Init => TypeInv
<1> SUFFICES ASSUME Init PROVE TypeInv
    OBVIOUS
<1>1. Rest.phase = "idle" /\ Rest.tier = "compress" /\ Rest.protected = {} /\ Rest.found = {}
    BY DEF Rest
<1>2. compactor = [k \in Compactors |-> Rest]
    BY DEF Init
<1>3. RowTypes
    <2>1. Known = {}
        BY <1>1, <1>2 DEF Init, Known, Found
    <2> QED
        BY <2>1, ConstantsOK DEF Init, RowTypes, Known
<1>4. BacklogTypes
    BY DEF Init, BacklogTypes, IsInjective, ToSet
<1>5. ThreadTypes
    <2>1. /\ Idle \in [phase : {"idle", "batch", "wants", "looks", "writes"},
                       queue : Seq(Tasks)]
          /\ Idle.phase = "idle"
        BY DEF Idle
    <2> QED
        BY <2>1 DEF Init, ThreadTypes
<1>6. CompactorTypes
    BY <1>1, <1>2 DEF CompactorTypes
<1>7. TaskTypes
    BY ConstantsOK, FS_EmptySet DEF Init, TaskTypes
<1> QED
    BY <1>3, <1>4, <1>5, <1>6, <1>7 DEF TypeInv

\* Every row, queue and list has its type, whatever is inserted, archived,
\* forgotten or appended: the table has no id twice, the backlog no task twice
\* (memory_sync.py:317), and only what is in the backlog waits.
THEOREM TypeCorrect == Spec => []TypeOK
<1>1. MemInv /\ TypeInv /\ [Next]_vars => TypeInv'
    <2> SUFFICES ASSUME MemInv, TypeInv, [Next]_vars PROVE TypeInv'
        OBVIOUS
    <2>1. ASSUME NEW s \in Syncers, SyncCompleted(s) \/ RetryFailed(s) \/ SyncStep(s)
          PROVE  TypeInv'
        BY <2>1, BatchTypes, LookTypes, WriteTypes DEF SyncStep
    <2>2. ASSUME NEW k \in Compactors,
                 \/ StartCompaction(k, "compress") \/ StartCompaction(k, "summarize")
                 \/ ReadCandidates(k) \/ WriteDigest(k) \/ CompactionFails(k)
          PROVE  TypeInv'
        BY <2>2, CompactorStepTypes
    <2>3. CASE Restart
        BY <2>3, RestartTypes
    <2>4. CASE \/ \E t \in Tasks :
                     \/ TaskCompletes(t) \/ TaskReopens(t) \/ TaskFails(t)
                     \/ BackoffElapses(t)
                     \/ Remembers(t, "intake") \/ Remembers(t, "result")
               \/ NextDay \/ UNCHANGED vars
        BY <2>4, OutsideTypes
    <2> QED
        BY <2>1, <2>2, <2>3, <2>4 DEF Next
<1> QED
    BY <1>1, InitTypes, TypesFollow, MemoryInvariant, PTL DEF Spec
===============================================================================
