---------------------------- MODULE InternRegistry ----------------------------
(***************************************************************************)
(* The registry of tag sets of an index whose objects share them: a hash   *)
(* table with chained buckets that doubles when it is full.  The sets of   *)
(* the old table move over a few at a time: whoever attaches or loses an   *)
(* object moves some, and the index's worker moves the rest once it is     *)
(* woken.  Tables and sets are allocated with idx->obj_mtx released, so an *)
(* attach looks again at everything when it comes back.                    *)
(*                                                                         *)
(* Every action is one critical section of idx->obj_mtx, with what its     *)
(* thread frees or wakes afterwards.  Objects with one tag, which have no  *)
(* set, are left out.  The worker is that of an index without periodic     *)
(* sweeps, which sleeps until it is woken.                                 *)
(***************************************************************************)
EXTENDS Naturals, Sequences, FiniteSets, SequencesExt

CONSTANTS
    Objects,            \* object cores
    Threads,            \* attaching threads
    TagSets,            \* sets of two tags or more
    Large,              \* those beyond TAG_INTERN_LOOKUP_FIRST_MAX_FOLDS
    Hash,               \* cachetag_intern_hash
    Nodes,              \* addresses of set structures
    NoNode, NoTags,
    InitialBuckets,     \* TAG_INTERN_INITIAL_BUCKETS
    MaxBuckets,         \* bound on the size of a table
    MigrateSteps,       \* TAG_INTERN_MIGRATE_STEPS
    BatchSteps          \* TAG_RESIZE_INTERN_BATCH_STEPS

ASSUME LargeSets == Large \subseteq TagSets /\ NoTags \notin TagSets
ASSUME HashNat == Hash \in [TagSets -> Nat]
ASSUME Addresses == NoNode \notin Nodes \cup Objects
ASSUME Finite == /\ IsFiniteSet(Objects) /\ IsFiniteSet(Nodes)
                 /\ IsFiniteSet(Threads)
ASSUME Sizes == {InitialBuckets, MaxBuckets, MigrateSteps, BatchSteps}
                    \subseteq Nat \ {0}

VARIABLES
    reg,        \* intern_buckets, intern_old_buckets, intern_migrate_cursor,
                \* intern_sets and intern_generation
    tags, refs, \* of each set structure; NoTags when it is not allocated
    tables,     \* number of allocated tables
    set, asked, \* of each object: its record's set, and the tags it was
                \* attached with (NoTags without a record)
    thr,        \* the attaching threads
    worker,     \* the index's worker
    wakeup,     \* idx->resize_wakeup
    retired     \* idx->retired

vars == <<reg, tags, refs, tables, set, asked, thr, worker, wakeup, retired>>

NewTable(size) == [b \in 1 .. size |-> <<>>]
NoTable == <<>>
NoRegistry == [primary |-> NoTable, old |-> NoTable, cursor |-> 1,
               sets |-> 0, generation |-> 0]
Migrating(R) == R.old # NoTable

Idle == [pc |-> "idle", obj |-> NoNode, tags |-> NoTags, cand |-> NoNode,
         size |-> 0, generation |-> 0, failed |-> FALSE, spent |-> FALSE,
         tables |-> 0, wake |-> FALSE]

Init ==
    /\ reg = NoRegistry
    /\ tags = [n \in Nodes |-> NoTags] /\ refs = [n \in Nodes |-> 0]
    /\ tables = 0
    /\ set = [o \in Objects |-> NoNode]
    /\ asked = [o \in Objects |-> NoTags]
    /\ thr = [t \in Threads |-> Idle]
    /\ worker = "asleep" /\ wakeup = FALSE
    /\ retired = FALSE

Allocated == {n \in Nodes : tags[n] # NoTags}
Tracked == {o \in Objects : set[o] # NoNode}
InTable(T) == UNION {Range(T[b]) : b \in DOMAIN T}
Published == InTable(reg.primary) \cup InTable(reg.old)

(***************************************************************************)
(* The table                                                               *)
(***************************************************************************)
BucketFor(T, n) == (Hash[tags[n]] % Len(T)) + 1

(* The set of these tags in the table's bucket for them.                   *)
InBucket(T, s) ==
    {n \in Allocated : /\ T # NoTable
                       /\ n \in Range(T[(Hash[s] % Len(T)) + 1])
                       /\ tags[n] = s}

LookupPrimary(R, s) == InBucket(R.primary, s)
Lookup(R, s) ==
    IF InBucket(R.primary, s) # {} THEN InBucket(R.primary, s)
    ELSE InBucket(R.old, s)

Push(T, n) == [T EXCEPT ![BucketFor(T, n)] = <<n>> \o @]

FinishAway(R) == IF Migrating(R) /\ R.cursor > Len(R.old)
                 THEN [R EXCEPT !.old = NoTable] ELSE R

Finish(R) == IF Migrating(R) /\ R.cursor > Len(R.old)
             THEN [R EXCEPT !.old = NoTable, !.cursor = 1] ELSE R

MigrateInPlace(R) ==
    IF ~Migrating(R) \/ R.cursor > Len(R.old) THEN Finish(R)
    ELSE IF R.old[R.cursor] = <<>> THEN [R EXCEPT !.cursor = @ + 1]
    ELSE [R EXCEPT !.primary[R.cursor] = <<Head(R.old[R.cursor])>> \o @,
                   !.old[R.cursor] = Tail(@)]

(* One step moves one set, or moves on to the next bucket.                 *)
MigrateStep(R) ==
    IF ~Migrating(R) \/ R.cursor > Len(R.old) THEN Finish(R)
    ELSE IF R.old[R.cursor] = <<>> THEN [R EXCEPT !.cursor = @ + 1]
    ELSE [R EXCEPT !.primary = Push(@, Head(R.old[R.cursor])),
                   !.old[R.cursor] = Tail(@)]

Migrate(R, steps) ==
    LET r[i \in 0 .. steps] == IF i = 0 THEN R ELSE MigrateStep(r[i - 1])
    IN  Finish(r[steps])

(* The old table that this migration did away with.                        *)
Dropped(R, steps) ==
    IF Migrating(R) /\ ~Migrating(Migrate(R, steps)) THEN 1 ELSE 0

(* Whether an insertion must wait for a table, and for which size.         *)
PrepareInsert(R) ==
    IF R.primary = NoTable THEN InitialBuckets
    ELSE IF \/ R.sets + 1 <= Len(R.primary)
            \/ Migrating(R)
            \/ 2 * Len(R.primary) > MaxBuckets
         THEN 0 ELSE 2 * Len(R.primary)

(* A table is taken if the registry is as it was when it was asked for.    *)
Welcome(R, w) ==
    /\ ~Migrating(R)
    /\ w.generation = R.generation
    /\ IF R.primary = NoTable THEN w.size = InitialBuckets
       ELSE w.size = 2 * Len(R.primary) /\ R.sets + 1 > Len(R.primary)

PublishTable(R, size) ==
    [R EXCEPT !.old = R.primary, !.primary = NewTable(size), !.cursor = 1,
              !.generation = @ + 1]

Publish(R, n) == [R EXCEPT !.primary = Push(@, n), !.sets = @ + 1]

Unchain(q, n) ==
    RemoveAt(q, CHOOSE i \in DOMAIN q : /\ q[i] = n
                                        /\ \A j \in 1 .. i - 1 : q[j] # n)
Without(T, n) == [T EXCEPT ![BucketFor(T, n)] = Unchain(@, n)]

(* A set without references is taken out of the table that has it.         *)
Unlink(R, n) ==
    IF n \in InBucket(R.primary, tags[n])
    THEN [R EXCEPT !.primary = Without(@, n), !.sets = @ - 1]
    ELSE [R EXCEPT !.old = Without(@, n), !.sets = @ - 1]

Release(R, n) == IF refs[n] > 1 THEN R ELSE Unlink(R, n)

(* Several, one after the other.                                           *)
UnlinkAll(R, q) ==
    LET r[i \in 0 .. Len(q)] ==
            IF i = 0 THEN R ELSE Unlink(r[i - 1], q[i])
    IN  r[Len(q)]

(***************************************************************************)
(* Attaching an object: cachetag_record_attach_purgemap_take               *)
(***************************************************************************)
At(t, pc) == thr[t].pc = pc

(* calloc.  It does not matter which address it returns: nobody keeps that *)
(* of a set that was freed.                                                *)
NewNode == CHOOSE n \in Nodes : n \notin Allocated
Room == Allocated # Nodes

(* What a thread that is done still has to free, or to do.                 *)
Done(w, pc, wake) ==
    [Idle EXCEPT !.pc = pc, !.cand = w.cand, !.tables = w.tables,
                 !.wake = wake]
Goes(t, w) == thr' = [thr EXCEPT ![t] = w]

(* A large set's structure is allocated first.                             *)
Begin(t, o, s) ==
    /\ At(t, "idle")
    /\ set[o] = NoNode
    /\ \A u \in Threads : thr[u].obj # o
    /\ LET w == [Idle EXCEPT !.pc = "try", !.obj = o, !.tags = s]
       IN  IF s \notin Large THEN Goes(t, w) /\ UNCHANGED tags
           ELSE /\ Room
                /\ tags' = [tags EXCEPT ![NewNode] = s]
                /\ Goes(t, [w EXCEPT !.cand = NewNode])
    /\ UNCHANGED <<reg, refs, tables, set, asked, worker, wakeup, retired>>

(* The rest of the critical section, from a registry R: the index may have *)
(* been retired, or the object may have no place in the other tables.      *)
Refused(t, R, w) ==
    /\ reg' = R
    /\ Goes(t, Done(w, "leave", FALSE))
    /\ UNCHANGED <<tags, refs, set, asked>>

EnterAlone(t, R, w, n) ==
    /\ reg' = R
    /\ set' = [set EXCEPT ![w.obj] = n]
    /\ asked' = [asked EXCEPT ![w.obj] = w.tags]
    /\ refs' = [refs EXCEPT ![n] = 1]
    /\ Goes(t, Done(w, "entered", Migrating(R)))
    /\ UNCHANGED tags

Enter(t, R, w, n) ==
    /\ reg' = R
    /\ set' = [set EXCEPT ![w.obj] = n]
    /\ asked' = [asked EXCEPT ![w.obj] = w.tags]
    /\ refs' = [refs EXCEPT ![n] = @ + 1]
    /\ Goes(t, Done(w, "entered", Migrating(R)))
    /\ UNCHANGED tags

(* With size = 0 there is a table: an attach gives up when its allocation  *)
(* of the first one fails.                                                 *)
Insert(t, R, w) ==
    LET size == IF w.failed THEN 0 ELSE PrepareInsert(R)
    IN  \/ /\ size # 0
           /\ reg' = R
           /\ Goes(t, [w EXCEPT !.pc = "table", !.size = size,
                                !.generation = R.generation])
           /\ UNCHANGED <<tags, refs, set, asked>>
        \/ /\ size = 0
           /\ w.cand = NoNode
           /\ reg' = R
           /\ Goes(t, [w EXCEPT !.pc = "node"])
           /\ UNCHANGED <<tags, refs, set, asked>>
        \/ /\ size = 0
           /\ w.cand # NoNode
           /\ Enter(t, Publish(R, w.cand), [w EXCEPT !.cand = NoNode], w.cand)

(* An attach helps with a migration once.                                  *)
Share(R, w) == IF w.spent THEN R ELSE Migrate(R, MigrateSteps)
AfterShare(R, w) ==
    [w EXCEPT !.spent = @ \/ Migrating(R),
              !.tables = @ + IF w.spent THEN 0 ELSE Dropped(R, MigrateSteps)]

Intern(t, R, w) ==
    LET found == Lookup(R, w.tags)
    IN  IF found # {} THEN \E n \in found : Enter(t, R, w, n)
        ELSE Insert(t, R, w)

Again(t, R, w) ==
    \/ Refused(t, R, w)
    \/ /\ ~retired
       /\ Intern(t, Share(R, w), AfterShare(R, w))

Try(t) ==
    /\ At(t, "try")
    /\ Again(t, reg, thr[t])
    /\ UNCHANGED <<tables, worker, wakeup, retired>>

(* The side map is in the middle of a migration of its own: the thread     *)
(* does the worker's work.                                                 *)
Help(t) ==
    /\ At(t, "try")
    /\ ~retired
    /\ Migrating(reg)
    /\ reg' = Migrate(reg, BatchSteps)
    /\ tables' = tables - Dropped(reg, BatchSteps)
    /\ UNCHANGED <<tags, refs, set, asked, thr, worker, wakeup, retired>>

(* A thread comes back with a table: it is published and used at once, or  *)
(* it is freed.                                                            *)
TableReady(t) ==
    /\ At(t, "table")
    /\ LET w == [thr[t] EXCEPT !.pc = "try", !.size = 0, !.generation = 0]
       IN  IF Welcome(reg, thr[t])
           THEN /\ tables' = tables + 1
                /\ Again(t, PublishTable(reg, thr[t].size), w)
           ELSE /\ Goes(t, w)
                /\ UNCHANGED <<reg, tags, refs, tables, set, asked>>
    /\ UNCHANGED <<worker, wakeup, retired>>

(* There is no memory for it: the first table is needed, a larger one is   *)
(* not.                                                                    *)
TableFails(t) ==
    /\ At(t, "table")
    /\ IF reg.primary = NoTable THEN Goes(t, Done(thr[t], "leave", FALSE))
       ELSE Goes(t, [thr[t] EXCEPT !.pc = "try", !.size = 0,
                                   !.generation = 0, !.failed = TRUE])
    /\ UNCHANGED <<reg, tags, refs, tables, set, asked, worker, wakeup,
                   retired>>

NodeReady(t) ==
    /\ At(t, "node")
    /\ Room
    /\ tags' = [tags EXCEPT ![NewNode] = thr[t].tags]
    /\ Goes(t, [thr[t] EXCEPT !.pc = "try", !.cand = NewNode])
    /\ UNCHANGED <<reg, refs, tables, set, asked, worker, wakeup, retired>>

NodeFails(t) ==
    /\ At(t, "node")
    /\ Goes(t, Done(thr[t], "leave", FALSE))
    /\ UNCHANGED <<reg, tags, refs, tables, set, asked, worker, wakeup,
                   retired>>

(* The lock is gone: what is left over is freed, and the worker is told of *)
(* a migration; one that failed looks for it once more.                    *)
WakesEntered(w) == w.wake
Wakes(w) == IF w.pc = "entered" THEN w.wake ELSE Migrating(reg)
LeaveCandidate(t) ==
    /\ thr[t].pc \in {"leave", "entered"}
    /\ tables' = tables - thr[t].tables
    /\ wakeup' = (wakeup \/ Wakes(thr[t]))
    /\ Goes(t, Idle)
    /\ UNCHANGED <<reg, tags, refs, set, asked, worker, retired>>

Leave(t) ==
    /\ thr[t].pc \in {"leave", "entered"}
    /\ tags' = [n \in Nodes |-> IF n = thr[t].cand THEN NoTags ELSE tags[n]]
    /\ tables' = tables - thr[t].tables
    /\ wakeup' = (wakeup \/ Wakes(thr[t]))
    /\ Goes(t, Idle)
    /\ UNCHANGED <<reg, refs, set, asked, worker, retired>>

AttachStep(t) ==
    Try(t) \/ Help(t) \/ TableReady(t) \/ TableFails(t) \/ NodeReady(t)
        \/ NodeFails(t) \/ Leave(t)

(***************************************************************************)
(* Losing objects                                                          *)
(***************************************************************************)
HoldersOf(n, lost) == {o \in lost : set[o] = n}
Freed(lost) ==
    {n \in Allocated : /\ HoldersOf(n, lost) # {}
                       /\ refs[n] = Cardinality(HoldersOf(n, lost))}

Forget(lost) ==
    /\ refs' = [n \in Nodes |-> refs[n] - Cardinality(HoldersOf(n, lost))]
    /\ tags' = [n \in Nodes |-> IF n \in Freed(lost) THEN NoTags ELSE tags[n]]
    /\ set' = [o \in Objects |-> IF o \in lost THEN NoNode ELSE set[o]]
    /\ asked' = [o \in Objects |-> IF o \in lost THEN NoTags ELSE asked[o]]

(* cachetag_record_invalidate.                                             *)
Invalidate(o) ==
    /\ o \in Tracked
    /\ reg' = Release(Migrate(reg, MigrateSteps), set[o])
    /\ tables' = tables - Dropped(reg, MigrateSteps)
    /\ Forget({o})
    /\ UNCHANGED <<thr, worker, wakeup, retired>>

SweepKill(o) ==
    /\ o \in Tracked
    /\ reg' = Release(reg, set[o])
    /\ Forget({o})
    /\ UNCHANGED <<tables, thr, worker, wakeup, retired>>

(* cachetag_index_retire, which loses the objects in the order of their    *)
(* records: the worker goes on.                                            *)
Retire ==
    /\ ~retired
    /\ retired' = TRUE
    /\ \E q \in SetToSeqs(Freed(Tracked)) : reg' = UnlinkAll(reg, q)
    /\ Forget(Tracked)
    /\ UNCHANGED <<tables, thr, worker, wakeup>>

(* A namespace goes cold, or its index is deleted: the worker is stopped,  *)
(* all objects are killed, and the tables are freed with what is in them.  *)
(* No request uses the index.  Another worker, or another index, follows;  *)
(* as no thread remembers a generation, the count of them starts again.    *)
DetachAll ==
    /\ \A t \in Threads : At(t, "idle")
    /\ reg' = NoRegistry
    /\ tables' = tables - Cardinality({T \in {"primary", "old"} :
                                          reg[T] # NoTable})
    /\ tags' = [n \in Nodes |-> IF n \in Published THEN NoTags ELSE tags[n]]
    /\ refs' = [n \in Nodes |-> refs[n] - Cardinality(HoldersOf(n, Tracked))]
    /\ set' = [o \in Objects |-> NoNode]
    /\ asked' = [o \in Objects |-> NoTags]
    /\ worker' = "asleep"
    /\ retired' = FALSE
    /\ UNCHANGED <<thr, wakeup>>

(***************************************************************************)
(* The worker                                                              *)
(***************************************************************************)
WorkerWakes ==
    /\ worker = "asleep"
    /\ wakeup
    /\ wakeup' = FALSE
    /\ worker' = "busy"
    /\ UNCHANGED <<reg, tags, refs, tables, set, asked, thr, retired>>

WorkerBatch ==
    /\ worker = "busy"
    /\ reg' = Migrate(reg, BatchSteps)
    /\ tables' = tables - Dropped(reg, BatchSteps)
    /\ worker' = IF Migrating(reg) THEN "busy" ELSE "asleep"
    /\ UNCHANGED <<tags, refs, set, asked, thr, wakeup, retired>>

Worker == WorkerWakes \/ WorkerBatch

Next ==
    \/ \E t \in Threads :
           \/ \E o \in Objects, s \in TagSets : Begin(t, o, s)
           \/ AttachStep(t)
    \/ \E o \in Objects : Invalidate(o) \/ SweepKill(o)
    \/ Retire
    \/ DetachAll
    \/ Worker

Spec == Init /\ [][Next]_vars

(***************************************************************************)
(* Properties                                                              *)
(***************************************************************************)
IsTable(T) == \A b \in DOMAIN T : Range(T[b]) \subseteq Nodes

(* The variables have the shape of the code's fields.                      *)
TypeOK ==
    /\ IsTable(reg.primary) /\ IsTable(reg.old)
    /\ reg.cursor \in 1 .. IF Migrating(reg) THEN Len(reg.old) ELSE 1
    /\ reg.sets \in Nat /\ reg.generation \in Nat
    /\ tags \in [Nodes -> TagSets \cup {NoTags}]
    /\ refs \in [Nodes -> 0 .. Cardinality(Objects)]
    /\ tables \in Nat
    /\ set \in [Objects -> Nodes \cup {NoNode}]
    /\ asked \in [Objects -> TagSets \cup {NoTags}]
    /\ worker \in {"asleep", "busy"} /\ wakeup \in BOOLEAN
    /\ retired \in BOOLEAN

(* Threads that lost a race for a table or a set, and a migration that has *)
(* moved half of the sets, never leave two sets of the same tags in the    *)
(* registry, nor one set in two places: cachetag_record_attach_purgemap_   *)
(* take looks again after every unlock.                                    *)
Chains == UNION {{T} \X DOMAIN reg[T] : T \in {"primary", "old"}}
Places(n) ==
    UNION {{c} \X {i \in DOMAIN reg[c[1]][c[2]] : reg[c[1]][c[2]][i] = n} :
               c \in Chains}
OneSetPerTags ==
    /\ \A m, n \in Published : tags[m] = tags[n] => m = n
    /\ \A n \in Published : Cardinality(Places(n)) = 1

(* Whatever has been moved, an object's set has the tags that the object   *)
(* was attached with, and is in the bucket of one of the tables where      *)
(* cachetag_intern_release_locked looks for it, which panics otherwise.    *)
ReleaseFindsSet ==
    \A o \in Tracked :
        /\ tags[set[o]] = asked[o]
        /\ set[o] \in InBucket(reg.primary, asked[o])
                        \cup InBucket(reg.old, asked[o])

(* A set is in the registry as long as an object refers to it, its count   *)
(* is the number of those objects, and intern_sets, which decides when the *)
(* table grows, is the number of sets.                                     *)
RefsExact ==
    /\ \A n \in Nodes : refs[n] = Cardinality(HoldersOf(n, Tracked))
    /\ Published = {n \in Nodes : refs[n] > 0}
    /\ reg.sets = Cardinality(Published)

(* What is allocated is in the registry or in the hands of one thread,     *)
(* which frees it when it leaves: a lost race for a table, a set found     *)
(* after a candidate was made, and the table that a migration emptied.     *)
Candidates == {thr[t].cand : t \in Threads} \ {NoNode}
InHands == Cardinality(UNION {{t} \X (1 .. thr[t].tables) : t \in Threads})
NothingLeaked ==
    /\ Allocated = Published \cup Candidates
    /\ Published \cap Candidates = {}
    /\ \A t, u \in Threads : thr[t].cand = thr[u].cand /\ t # u
                               => thr[t].cand = NoNode
    /\ tables = Cardinality({T \in {"primary", "old"} : reg[T] # NoTable})
                   + InHands

(* Some thread is always bound to go on with a migration: the worker is at *)
(* work or has been woken, or an attach is under way that will wake it,    *)
(* also when the attach that started the migration fails afterwards.       *)
WillWake(t) == CASE thr[t].pc = "idle" -> FALSE
                 [] thr[t].pc = "entered" -> thr[t].wake
                 [] OTHER -> TRUE
MigrationHasWorker ==
    Migrating(reg) => \/ wakeup
                      \/ worker = "busy"
                      \/ \E t \in Threads : WillWake(t)

===============================================================================
