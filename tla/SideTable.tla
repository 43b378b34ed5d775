------------------------------ MODULE SideTable ------------------------------
(***************************************************************************)
(* The side map of the object index, bucket by bucket: linear probing with *)
(* tombstones over a primary table and, while a migration is under way, a  *)
(* retiring one whose buckets are moved one by one.  Attaching threads     *)
(* insert, and replace a table that is too full; the maintenance worker    *)
(* migrates and resizes ahead of them; removals leave tombstones and       *)
(* repair the slot codes of the objects that are moved in the array.       *)
(*                                                                         *)
(* Every action is one critical section of idx->obj_mtx.  An object is     *)
(* allocated anew each time it is attached, so that its name says nothing  *)
(* and its hash (home) is chosen then.  Fingerprints are taken to collide  *)
(* always: each live bucket on a probe path is compared by its object.     *)
(* Low-water timing is left out: a table may shrink whenever it is sparse. *)
(***************************************************************************)
EXTENDS Integers, Sequences, FiniteSets

CONSTANTS
    Cores,              \* object cores
    Threads,            \* attaching threads
    HomeRange,          \* hash values
    DefaultBuckets,     \* TAG_SIDE_DEFAULT_BUCKETS
    MinRunway,          \* TAG_SIDE_GROW_MIN_RUNWAY
    MaxBuckets,         \* bound on the size of a table
    MaxObjects,         \* TAG_SIDE_MAX_OBJECTS
    Removals            \* are objects ever removed

ASSUME HomesAreNaturals == HomeRange \subseteq Nat
ASSUME BucketsNat == MaxBuckets \in Nat /\ DefaultBuckets \in 1 .. MaxBuckets
ASSUME NobodyIsNoObject == 0 \notin Cores
ASSUME RemovalsBool == Removals \in BOOLEAN

VARIABLES
    dense,              \* the object at each slot of the dense array
    home,               \* hash of each object
    prim, ret,          \* idx->side_primary and idx->side_retiring
    mig,                \* idx->side_migration_{active,reason,auto}, cursor
    thr                 \* the attaching threads

tableVars == <<prim, ret, mig>>
sideVars == <<dense, home, prim, ret, mig, thr>>

Empty == -1
Tombstone == -2

NewTable(n) ==
    [buckets |-> n, map |-> [at \in 0 .. n - 1 |-> Empty],
     live |-> 0, tombs |-> 0]
NoTable == NewTable(0)
NoMigration ==
    [active |-> FALSE, reason |-> "none", auto |-> FALSE, cursor |-> 0]
Nobody == 0
Idle == [pc |-> "idle", obj |-> Nobody, buckets |-> 0, reason |-> "none"]

SideInit ==
    /\ dense = <<>>
    /\ home = [o \in Cores |-> 0]
    /\ prim = NoTable /\ ret = NoTable
    /\ mig = NoMigration
    /\ thr = [t \in Threads |-> Idle]

(***************************************************************************)
(* One table                                                               *)
(***************************************************************************)
Least(S) == CHOOSE n \in S : \A m \in S : n <= m
At(slot) == dense[slot + 1]
Live(code) == code >= 0
Decodes(code) == code < Len(dense)

(* The codes along the probe path of o.                                    *)
PathPos(t, o, n) == (home[o] + n) % t.buckets
PathCode(t, o, n) == t.map[PathPos(t, o, n)]
Holds(t, o, n) ==
    LET code == PathCode(t, o, n)
    IN  Live(code) /\ Decodes(code) /\ At(code) = o
Breaks(t, o, n) ==
    LET code == PathCode(t, o, n) IN Live(code) /\ ~Decodes(code)

(* cachetag_side_table_find_locked: the bucket of o, Absent or Corrupt.    *)
Absent == -1
Corrupt == -2
FindIn(t, o) ==
    LET stops == {n \in 0 .. t.buckets - 1 :
                     \/ PathCode(t, o, n) = Empty
                     \/ Holds(t, o, n)
                     \/ Breaks(t, o, n)}
    IN  IF t.buckets = 0 THEN Absent
        ELSE IF stops = {} \/ Breaks(t, o, Least(stops)) THEN Corrupt
        ELSE IF Holds(t, o, Least(stops)) THEN PathPos(t, o, Least(stops))
        ELSE Absent

(* cachetag_side_find_locked looks into both tables.                       *)
Find(o) ==
    LET p == FindIn(prim, o)
        r == FindIn(ret, o)
    IN  IF \/ Len(dense) # prim.live + ret.live
           \/ p = Corrupt
           \/ p >= 0 /\ r # Absent
        THEN Corrupt
        ELSE IF p = Absent THEN r ELSE p

(* cachetag_side_table_insert_locked: the first tombstone on the path, or  *)
(* the empty bucket that ends it; there may be no such bucket.             *)
Insertable(t, o) ==
    \E n \in 0 .. t.buckets - 1 :
        /\ PathCode(t, o, n) = Empty
        /\ \A m \in 0 .. n - 1 : ~Holds(t, o, m) /\ ~Breaks(t, o, m)

(* Mutant: the tombstone that is reused stays counted.                     *)
InsertInKeepsTombs(t, o, slot) ==
    LET end == Least({n \in 0 .. t.buckets - 1 : PathCode(t, o, n) = Empty})
        free == {n \in 0 .. end : ~Live(PathCode(t, o, n))}
    IN  [t EXCEPT !.map[PathPos(t, o, Least(free))] = slot, !.live = @ + 1]

InsertIn(t, o, slot) ==
    LET end == Least({n \in 0 .. t.buckets - 1 : PathCode(t, o, n) = Empty})
        tombs == {n \in 0 .. end - 1 : PathCode(t, o, n) = Tombstone}
        n == IF tombs = {} THEN end ELSE Least(tombs)
    IN  [t EXCEPT !.map[PathPos(t, o, n)] = slot,
                  !.live = @ + 1,
                  !.tombs = IF tombs = {} THEN @ ELSE @ - 1]

Tombstoned(t, at) ==
    [t EXCEPT !.map[at] = Tombstone, !.live = @ - 1, !.tombs = @ + 1]

(***************************************************************************)
(* Sizes                                                                   *)
(***************************************************************************)
Occupied(t) == t.live + t.tombs
HardLimit(n) == (n * 7) \div 10
MinOf(a, b) == IF a < b THEN a ELSE b
SoftLimit(n) ==
    IF n < DefaultBuckets THEN (n * 5) \div 8
    ELSE IF HardLimit(n) <= MinRunway THEN 1
    ELSE MinOf((n * 5) \div 8, HardLimit(n) - MinRunway)

Room(t) == Occupied(t) + 1 <= HardLimit(t.buckets)
ManyTombs(t) == t.tombs > t.buckets \div 4

(* The table that an insertion asks for when there is no room.             *)
WantedForInsert ==
    IF prim.buckets = 0 THEN [buckets |-> DefaultBuckets, reason |-> "grow"]
    ELSE IF ManyTombs(prim) /\ prim.live + 1 <= HardLimit(prim.buckets)
      THEN [buckets |-> prim.buckets, reason |-> "rebuild"]
      ELSE [buckets |-> 2 * prim.buckets, reason |-> "grow"]

(* cachetag_side_soft_resize_locked                                        *)
SoftRebuild ==
    /\ ~mig.active /\ prim.buckets # 0
    /\ ManyTombs(prim) /\ prim.live <= HardLimit(prim.buckets)
SoftGrow ==
    /\ ~mig.active /\ prim.buckets # 0
    /\ ~SoftRebuild
    /\ Occupied(prim) >= SoftLimit(prim.buckets)

(* cachetag_side_low_water_target_locked                                   *)
Sizes ==
    {n \in DefaultBuckets .. MaxBuckets :
        \E k \in 0 .. 6 : n = DefaultBuckets * 2 ^ k}
LowWaterTarget ==
    LET fits == {n \in Sizes : Len(dense) <= n \div 4}
    IN  IF fits = {} THEN MaxBuckets ELSE Least(fits)

(* cachetag_side_publish_migration_locked                                  *)
Publish(n, reason) ==
    /\ n <= MaxBuckets
    /\ prim' = NewTable(n)
    /\ ret' = prim
    /\ mig' = IF prim.buckets = 0 THEN NoMigration
              ELSE [active |-> TRUE, reason |-> reason, auto |-> TRUE,
                    cursor |-> 0]

(***************************************************************************)
(* Attaching                                                               *)
(***************************************************************************)
InUse == {dense[i] : i \in 1 .. Len(dense)} \cup {thr[t].obj : t \in Threads}

(* An object core is allocated and reaches the insert callback.            *)
Begin(t) ==
    /\ thr[t].pc \notin {"try", "alloc", "busy", "publish"}
    /\ \E o \in Cores \ InUse, h \in HomeRange :
          /\ home' = [home EXCEPT ![o] = h]
          /\ thr' = [thr EXCEPT ![t] = [Idle EXCEPT !.pc = "try", !.obj = o]]
    /\ UNCHANGED <<dense, tableVars>>

Goto(t, pc) == thr' = [thr EXCEPT ![t].pc = pc]
Refuse(t, error) ==
    /\ thr' = [thr EXCEPT ![t] = [Idle EXCEPT !.pc = error]]
    /\ home' = [home EXCEPT ![thr[t].obj] = 0]

Trying(t) == thr[t].pc = "try"
Absentee(t) ==
    Trying(t) /\ Len(dense) < MaxObjects /\ Find(thr[t].obj) = Absent

(* A migration that is not a shrink is in the way.                         *)
MustWait(t) ==
    /\ Absentee(t)
    /\ prim.buckets # 0 /\ ~Room(prim)
    /\ mig.active /\ mig.reason # "shrink"

(* There is an object too many, the map contradicts itself, or it is full  *)
(* and the migration in the way has been given up.                         *)
TryRefused(t) ==
    /\ Trying(t)
    /\ \/ Len(dense) = MaxObjects
       \/ Find(thr[t].obj) = Corrupt
       \/ MustWait(t) /\ ~mig.auto
    /\ Refuse(t, CASE Len(dense) = MaxObjects -> "EOVERFLOW"
                   [] MustWait(t) -> "EBUSY"
                   [] OTHER -> "EFAULT")
    /\ UNCHANGED <<dense, tableVars>>

EnterIn(t, table) ==
    /\ prim' = InsertIn(table, thr[t].obj, Len(dense))
    /\ dense' = Append(dense, thr[t].obj)
    /\ thr' = [thr EXCEPT ![t] = Idle]
    /\ UNCHANGED <<home>>

TryInsert(t) ==
    /\ Absentee(t)
    /\ prim.buckets # 0 /\ Room(prim)
    /\ EnterIn(t, prim)
    /\ UNCHANGED <<ret, mig>>

RolledBack ==
    mig' = [mig EXCEPT !.reason = "rollback", !.auto = TRUE, !.cursor = 0]

(* The smaller table has filled up before all objects moved into it: the   *)
(* larger one is the primary table again.                                  *)
TryRollback(t) ==
    /\ Absentee(t)
    /\ prim.buckets # 0 /\ ~Room(prim)
    /\ mig.active /\ mig.reason = "shrink"
    /\ RolledBack
    /\ ret' = prim
    /\ IF Room(ret)
         THEN EnterIn(t, ret)
         ELSE /\ prim' = ret
              /\ Goto(t, "busy")
              /\ UNCHANGED <<dense, home>>

TryBusy(t) ==
    /\ MustWait(t) /\ mig.auto
    /\ Goto(t, "busy")
    /\ UNCHANGED <<dense, home, tableVars>>

TryNeedsTable(t) ==
    /\ Absentee(t)
    /\ prim.buckets # 0 => ~Room(prim)
    /\ ~mig.active
    /\ thr' = [thr EXCEPT ![t] = [@ EXCEPT !.pc = "alloc",
                                           !.buckets = WantedForInsert.buckets,
                                           !.reason = WantedForInsert.reason]]
    /\ UNCHANGED <<dense, home, tableVars>>

(* cachetag_side_publish_allocated_for_insert_locked: the table asked for  *)
(* may no longer be the one that is needed.                                *)
StillWanted(t) ==
    IF prim.buckets = 0
      THEN thr[t].buckets = DefaultBuckets
      ELSE /\ ~mig.active
           /\ ~Room(prim)
           /\ thr[t].buckets = IF thr[t].reason = "rebuild" THEN prim.buckets
                               ELSE 2 * prim.buckets

AttachPublish(t) ==
    /\ thr[t].pc = "alloc"
    /\ IF StillWanted(t)
         THEN Publish(thr[t].buckets, thr[t].reason)
         ELSE UNCHANGED tableVars
    /\ Goto(t, "try")
    /\ UNCHANGED <<dense, home>>

AllocFails(t) ==
    /\ thr[t].pc = "alloc"
    /\ Refuse(t, "ENOMEM")
    /\ UNCHANGED <<dense, tableVars>>

(***************************************************************************)
(* Removal: the slot is filled from hole, hole from the last slot          *)
(***************************************************************************)
Recode(t, slot, hole) ==
    [t EXCEPT !.map = [at \in DOMAIN @ |->
        CASE @[at] # slot /\ @[at] = hole -> slot
          [] @[at] \notin {slot, hole} /\ @[at] = Len(dense) - 1 -> hole
          [] OTHER -> @[at]]]

(* Mutant: only the primary table is repaired.                             *)
RecodePrimary(slot, hole, p, r) ==
    /\ prim' = Recode(p, slot, hole)
    /\ ret' = r

RecodeBoth(slot, hole, p, r) ==
    /\ prim' = Recode(p, slot, hole)
    /\ ret' = Recode(r, slot, hole)

SideRemove(slot, hole) ==
    /\ Removals
    /\ LET at == Find(At(slot))
           inPrim == FindIn(prim, At(slot)) >= 0
       IN  /\ at >= 0
           /\ RecodeBoth(slot, hole,
                         IF inPrim THEN Tombstoned(prim, at) ELSE prim,
                         IF inPrim THEN ret ELSE Tombstoned(ret, at))
    /\ dense' = SubSeq([dense EXCEPT ![slot + 1] = At(hole),
                                     ![hole + 1] = dense[Len(dense)]],
                       1, Len(dense) - 1)
    /\ home' = [home EXCEPT ![At(slot)] = 0]
    /\ UNCHANGED <<mig, thr>>

(***************************************************************************)
(* Maintenance, by the worker or by a thread that found the map busy       *)
(***************************************************************************)

(* One bucket of cachetag_side_migrate_some_locked (a batch is any number  *)
(* of them); the last one ends the migration.                              *)
Code == ret.map[mig.cursor]

Movable == Live(Code) => Decodes(Code) /\ Insertable(prim, At(Code))

Migrated ==
    /\ prim' = IF Live(Code) THEN InsertIn(prim, At(Code), Code) ELSE prim
    /\ LET r == IF Live(Code) THEN Tombstoned(ret, mig.cursor) ELSE ret
           done == mig.cursor + 1 = ret.buckets
       IN  /\ done => r.live = 0
           /\ ret' = IF done THEN NoTable ELSE r
           /\ mig' = IF done THEN NoMigration
                     ELSE [mig EXCEPT !.cursor = @ + 1]

(* The migration is given up if there is no bucket to move an object to.   *)
MigrationFailed ==
    /\ mig' = [mig EXCEPT !.auto = FALSE]
    /\ UNCHANGED <<prim, ret>>

Migrate ==
    /\ mig.active /\ mig.auto
    /\ IF Movable THEN Migrated ELSE MigrationFailed

(* The worker takes a shrink back when the objects have come back (when    *)
(* that is so is left out with the rest of the low-water timing).          *)
Reverse ==
    /\ mig.active /\ mig.auto /\ mig.reason = "shrink"
    /\ prim' = ret /\ ret' = prim
    /\ RolledBack

(* The worker allocates the new table unlocked, and publishes it if it is  *)
(* still wanted; if it is not, or there is no memory, nothing happens.     *)
SoftResize ==
    \/ SoftRebuild /\ Publish(prim.buckets, "rebuild")
    \/ SoftGrow /\ Publish(2 * prim.buckets, "grow")

Shrink ==
    /\ dense # <<>>
    /\ ~mig.active /\ ~SoftGrow
    /\ LowWaterTarget < prim.buckets
    /\ Publish(LowWaterTarget, "shrink")

(* Nothing is tracked: both tables go.                                     *)
DropTables ==
    /\ dense = <<>>
    /\ prim.buckets # 0
    /\ prim' = NoTable /\ ret' = NoTable /\ mig' = NoMigration

Worker ==
    /\ Migrate \/ Reverse \/ SoftResize \/ Shrink \/ DropTables
    /\ UNCHANGED <<dense, home, thr>>

(* cachetag_resize_maintenance called by attach.                           *)
BusyMigrate(t) ==
    /\ thr[t].pc = "busy"
    /\ IF mig.active /\ mig.auto THEN Migrate ELSE UNCHANGED tableVars
    /\ Goto(t, IF mig.active /\ mig.auto /\ Movable THEN "try" ELSE "publish")
    /\ UNCHANGED <<dense, home>>

BusyPublish(t) ==
    /\ thr[t].pc = "publish"
    /\ SoftResize \/ Shrink \/ DropTables
    /\ Goto(t, "try")
    /\ UNCHANGED <<dense, home>>

(* It found nothing to do.                                                 *)
BusyRefused(t) ==
    /\ thr[t].pc = "publish"
    /\ ~SoftRebuild /\ ~SoftGrow
    /\ Refuse(t, "EBUSY")
    /\ UNCHANGED <<dense, tableVars>>

SideAttach(t) ==
    \/ TryRefused(t) \/ TryInsert(t) \/ TryRollback(t) \/ TryBusy(t)
    \/ TryNeedsTable(t) \/ AttachPublish(t) \/ AllocFails(t)
    \/ BusyMigrate(t) \/ BusyPublish(t) \/ BusyRefused(t)

SideNext ==
    \/ \E t \in Threads : Begin(t) \/ SideAttach(t)
    \/ \E slot \in 0 .. Len(dense) - 1 :
          \E hole \in slot .. Len(dense) - 1 : SideRemove(slot, hole)
    \/ Worker

SideSpec == SideInit /\ [][SideNext]_sideVars

(***************************************************************************)
(* Properties                                                              *)
(***************************************************************************)
LiveCells(t) == {at \in DOMAIN t.map : Live(t.map[at])}
TombCells(t) == {at \in DOMAIN t.map : t.map[at] = Tombstone}

TableOK(t) ==
    /\ t.buckets \in 0 .. MaxBuckets
    /\ t.map \in [0 .. t.buckets - 1 -> -2 .. Len(dense) - 1]
    /\ t.live = Cardinality(LiveCells(t))
    /\ t.tombs = Cardinality(TombCells(t))

(* Every variable has its type, and the counters of a table its contents.  *)
SideTypeOK ==
    /\ dense \in Seq(Cores)
    /\ home \in [Cores -> HomeRange \cup {0}]
    /\ TableOK(prim) /\ TableOK(ret)
    /\ mig \in [active : BOOLEAN, auto : BOOLEAN, cursor : 0 .. MaxBuckets,
                reason : {"none", "grow", "rebuild", "shrink", "rollback"}]
    /\ thr \in [Threads -> [pc : {"idle", "try", "alloc", "busy", "publish",
                                  "EFAULT", "EBUSY", "ENOMEM",
                                  "EOVERFLOW"},
                            obj : Cores \cup {Nobody},
                            buckets : 0 .. 2 * MaxBuckets,
                            reason : {"none", "grow", "rebuild"}]]

(* A lookup finds every object that is indexed, at its slot, and nothing   *)
(* else, while objects are swapped in the array and moved between tables.  *)
LookupsExact ==
    /\ \A slot \in 0 .. Len(dense) - 1 :
          LET at == Find(At(slot))
              t == IF FindIn(prim, At(slot)) >= 0 THEN prim ELSE ret
          IN  at >= 0 /\ t.map[at] = slot
    /\ \A t \in Threads : Trying(t) => Find(thr[t].obj) = Absent

(* "Keep at least one empty bucket" (cachetag_index.c:2023): a probe for   *)
(* an object that is not there must come to an end.  An insertion leaves   *)
(* one, but a migration moves objects in without looking at the limit.     *)
EmptyBucketKept ==
    prim.buckets # 0 =>
        \E at \in DOMAIN prim.map : prim.map[at] = Empty
=============================================================================
