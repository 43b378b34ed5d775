----------------------------- MODULE ObjectIndex -----------------------------
(***************************************************************************)
(* The object index: two parallel dense arrays (the entries and their tag  *)
(* counts), a side map from object core to array slot, and the cursor of   *)
(* the sweep, all under idx->obj_mtx.                                      *)
(*                                                                         *)
(* An object is removed by moving another one into its slot, which must    *)
(* not carry an object past a sweep that works its way down the array and  *)
(* lets go of the mutex between batches.  A batch may end after any        *)
(* object, so an action of the sweep is the judgement of one object.       *)
(* kill_all keeps the mutex for as long as it runs: obj_mtx is "kill".     *)
(*                                                                         *)
(* The side map is a function here (its buckets are in SideTable), and of  *)
(* a tag set only its owner is kept, so that a slot whose count belongs to *)
(* another object shows.  A SOFT verdict leaves the index as it is, so     *)
(* only HARD ones (`stale') are told apart.                                *)
(***************************************************************************)
EXTENDS Integers

CONSTANTS
    Objects,            \* object cores
    Capacity            \* TAG_SIDE_MAX_OBJECTS

ASSUME CapacityNat == Capacity \in Nat

NoObject == "none"
ASSUME NoObjectIsNone == NoObject \notin Objects

VARIABLES
    ents, counts,       \* the entry (its objcore) and the count of each slot
    side,               \* the side map, NoSlot for an object not in it
    nobjects,
    sweep_active, sweep_remaining, sweep_stop,
    retired,
    obj_mtx,            \* "free", or "kill" while kill_all holds it
    warm,               \* "warm", "stopping", or "cold"
    stale               \* the objects that the purge map condemns

arrays == <<ents, counts, side, nobjects>>
sweepVars == <<sweep_active, sweep_remaining>>
lifeVars == <<sweep_stop, retired, obj_mtx, warm>>
vars == <<arrays, sweepVars, lifeVars, stale>>

Slots == 0 .. Capacity - 1
NoSlot == -1

Init ==
    /\ ents = [s \in Slots |-> NoObject]
    /\ counts = [s \in Slots |-> NoObject]
    /\ side = [o \in Objects |-> NoSlot]
    /\ nobjects = 0
    /\ sweep_active = FALSE
    /\ sweep_remaining = 0
    /\ sweep_stop = FALSE
    /\ retired = FALSE
    /\ obj_mtx = "free"
    /\ warm = "warm"
    /\ stale = {}

(***************************************************************************)
(* cachetag_side_remove_locked: slot is filled from hole, hole from the    *)
(* last slot.  Without a sweep, or above its cursor, hole is the last slot *)
(* itself; below the cursor it is the highest slot not yet judged.         *)
(***************************************************************************)
BelowCursor(slot) == sweep_active /\ slot < sweep_remaining

(* Mutant: always fill from the last slot.                                 *)
HoleLast(slot) == nobjects - 1

Hole(slot) == IF BelowCursor(slot) THEN sweep_remaining - 1 ELSE nobjects - 1

Compact(array, slot) ==
    [array EXCEPT ![slot] = array[Hole(slot)],
                  ![Hole(slot)] = array[nobjects - 1],
                  ![nobjects - 1] = NoObject]

(* Mutant: the slot codes of the moved objects stay as they were.          *)
SideUnrepaired(slot) == [side EXCEPT ![ents[slot]] = NoSlot]

(* The removed object goes, the moved ones learn their new slots.          *)
SideWithout(slot) ==
    [o \in Objects |->
        CASE side[o] = slot -> NoSlot
          [] side[o] # slot /\ side[o] = Hole(slot) -> slot
          [] side[o] \notin {slot, Hole(slot)} /\ side[o] = nobjects - 1
                -> Hole(slot)
          [] OTHER -> side[o]]

(* Mutant: the cursor stays although the slot was below it.                *)
RemoveKeepsCursor(slot) ==
    /\ ents' = Compact(ents, slot)
    /\ counts' = Compact(counts, slot)
    /\ side' = SideWithout(slot)
    /\ nobjects' = nobjects - 1
    /\ sweep_remaining' = sweep_remaining

Remove(slot) ==
    /\ ents' = Compact(ents, slot)
    /\ counts' = Compact(counts, slot)
    /\ side' = SideWithout(slot)
    /\ nobjects' = nobjects - 1
    /\ sweep_remaining' = IF BelowCursor(slot) THEN sweep_remaining - 1
                                               ELSE sweep_remaining

(* The checks of side_remove_locked; where one fails it returns EFAULT.    *)
Removable(slot) ==
    /\ side[ents[slot]] = slot
    /\ side[ents[Hole(slot)]] = Hole(slot)
    /\ side[ents[nobjects - 1]] = nobjects - 1

(***************************************************************************)
(* Insert callback, departures and purges                                  *)
(***************************************************************************)
Enter(o) ==
    /\ ents' = [ents EXCEPT ![nobjects] = o]
    /\ counts' = [counts EXCEPT ![nobjects] = o]
    /\ side' = [side EXCEPT ![o] = nobjects]
    /\ nobjects' = nobjects + 1

(* Mutant: a retired index takes objects.                                  *)
AttachUnchecked(o) ==
    /\ obj_mtx = "free" /\ warm = "warm"
    /\ side[o] = NoSlot
    /\ nobjects < Capacity
    /\ Enter(o)
    /\ stale' \in {stale \cup {o}, stale \ {o}}
    /\ UNCHANGED <<sweepVars, lifeVars>>

(* cachetag_record_attach_purgemap_take, past its refusals (ESHUTDOWN,     *)
(* EEXIST, EOVERFLOW).  Of the purges so far, some may concern o.          *)
Attach(o) ==
    /\ obj_mtx = "free" /\ warm = "warm"
    /\ ~retired
    /\ side[o] = NoSlot
    /\ nobjects < Capacity
    /\ Enter(o)
    /\ stale' \in {stale \cup {o}, stale \ {o}}
    /\ UNCHANGED <<sweepVars, lifeVars>>

(* cachetag_record_invalidate of an object that is in the index.           *)
Invalidate(o) ==
    /\ obj_mtx = "free"
    /\ side[o] # NoSlot
    /\ Removable(side[o])
    /\ Remove(side[o])
    /\ UNCHANGED <<sweep_active, lifeVars, stale>>

Purge(S) ==
    /\ stale' = stale \cup S
    /\ UNCHANGED <<arrays, sweepVars, lifeVars>>

(***************************************************************************)
(* The sweep (one at a time: sweep_mtx).  It looks at sweep_stop before    *)
(* each object, without the mutex that stop holds.                         *)
(***************************************************************************)
SweepStart ==
    /\ obj_mtx = "free" /\ warm # "cold"
    /\ ~sweep_active
    /\ sweep_active' = TRUE
    /\ sweep_remaining' = nobjects
    /\ UNCHANGED <<arrays, lifeVars, stale>>

(* The highest slot not yet judged; its tags are those its count says.     *)
SweepKill ==
    /\ obj_mtx = "free"
    /\ sweep_active /\ sweep_remaining > 0
    /\ counts[sweep_remaining - 1] \in stale
    /\ Removable(sweep_remaining - 1)
    /\ Remove(sweep_remaining - 1)
    /\ UNCHANGED <<sweep_active, lifeVars, stale>>

(* Mutant: the cursor is left where it is.                                 *)
SweepKeepAgain ==
    /\ obj_mtx = "free"
    /\ sweep_active /\ sweep_remaining > 0
    /\ counts[sweep_remaining - 1] \notin stale
    /\ UNCHANGED <<arrays, sweepVars, lifeVars, stale>>

SweepKeep ==
    /\ obj_mtx = "free"
    /\ sweep_active /\ sweep_remaining > 0
    /\ counts[sweep_remaining - 1] \notin stale
    /\ sweep_remaining' = sweep_remaining - 1
    /\ UNCHANGED <<arrays, sweep_active, lifeVars, stale>>

SweepOver ==
    /\ sweep_active' = FALSE
    /\ sweep_remaining' = 0
    /\ UNCHANGED <<arrays, lifeVars, stale>>

SweepEnd == obj_mtx = "free" /\ sweep_active /\ sweep_remaining = 0 /\ SweepOver

SweepAbort ==
    /\ obj_mtx = "free" /\ sweep_active
    /\ sweep_remaining > 0 /\ sweep_stop
    /\ SweepOver

SweepStep == SweepKill \/ SweepKeep \/ SweepEnd \/ SweepAbort

(***************************************************************************)
(* The end of the index                                                    *)
(***************************************************************************)

(* cachetag_index_retire: another VCL took over.                           *)
Retire ==
    /\ obj_mtx = "free"
    /\ ~retired
    /\ retired' = TRUE
    /\ obj_mtx' = "kill"
    /\ UNCHANGED <<arrays, sweepVars, sweep_stop, warm, stale>>

(* cachetag_index_stop, called when the namespace goes cold ...            *)
Stop ==
    /\ warm = "warm"
    /\ warm' = "stopping"
    /\ sweep_stop' = TRUE
    /\ UNCHANGED <<arrays, sweepVars, retired, obj_mtx, stale>>

(* ... joins the sweep thread; then comes kill_all, then detach_all, which *)
(* finds the index empty.                                                  *)
KillAll ==
    /\ obj_mtx = "free"
    /\ warm = "stopping" /\ ~sweep_active
    /\ warm' = "cold"
    /\ obj_mtx' = "kill"
    /\ UNCHANGED <<arrays, sweepVars, sweep_stop, retired, stale>>

KillLast ==
    /\ obj_mtx = "kill"
    /\ nobjects > 0
    /\ Removable(nobjects - 1)
    /\ Remove(nobjects - 1)
    /\ UNCHANGED <<sweep_active, lifeVars, stale>>

KillDone ==
    /\ obj_mtx = "kill"
    /\ nobjects = 0
    /\ obj_mtx' = "free"
    /\ UNCHANGED <<arrays, sweepVars, sweep_stop, retired, warm, stale>>

(* cachetag_index_start: the namespace is warm again.                      *)
Start ==
    /\ obj_mtx = "free" /\ warm = "cold"
    /\ warm' = "warm"
    /\ sweep_stop' = FALSE
    /\ UNCHANGED <<arrays, sweepVars, retired, obj_mtx, stale>>

Next ==
    \/ \E o \in Objects : Attach(o) \/ Invalidate(o)
    \/ \E S \in SUBSET Objects : Purge(S)
    \/ SweepStart \/ SweepStep
    \/ Retire \/ Stop \/ KillAll \/ KillLast \/ KillDone \/ Start

Spec == Init /\ [][Next]_vars

FairSpec == Spec /\ WF_vars(SweepStep) /\ WF_vars(KillLast \/ KillDone)

(***************************************************************************)
(* Properties                                                              *)
(***************************************************************************)

(* Every variable has its type, and the cursor is within the array.        *)
TypeOK ==
    /\ ents \in [Slots -> Objects \cup {NoObject}]
    /\ counts \in [Slots -> Objects \cup {NoObject}]
    /\ side \in [Objects -> Slots \cup {NoSlot}]
    /\ nobjects \in 0 .. Capacity
    /\ sweep_active \in BOOLEAN
    /\ sweep_remaining \in 0 .. nobjects
    /\ ~sweep_active => sweep_remaining = 0
    /\ sweep_stop \in BOOLEAN
    /\ retired \in BOOLEAN
    /\ obj_mtx \in {"free", "kill"}
    /\ warm \in {"warm", "stopping", "cold"}
    /\ stale \subseteq Objects

(* The side map and the arrays name the same objects at the same slots,    *)
(* whatever was swapped: no lookup misses, no removal fails with EFAULT,   *)
(* and no object is judged by the tag count of another.                    *)
Consistent ==
    /\ \A s \in 0 .. nobjects - 1 :
          /\ ents[s] \in Objects
          /\ side[ents[s]] = s
          /\ counts[s] = ents[s]
    /\ \A o \in Objects :
          side[o] # NoSlot => /\ side[o] < nobjects
                              /\ ents[side[o]] = o

(* An index that was retired, or whose namespace is cold, tracks nothing   *)
(* once kill_all is through: no object outlives it, none slips in after.   *)
ClosedIsEmpty ==
    (obj_mtx = "free" /\ (retired \/ warm = "cold")) => nobjects = 0

(* The index implements TrackedObjects: no swap takes an object past the   *)
(* sweep's cursor or brings a judged one back under it.                    *)
Tracked == {ents[s] : s \in 0 .. nobjects - 1}
Todo == IF sweep_active THEN {ents[s] : s \in 0 .. sweep_remaining - 1} ELSE {}

Promise == INSTANCE TrackedObjects WITH
    tracked <- Tracked, todo <- Todo, sweeping <- sweep_active,
    closed <- retired

SweepsMissNothing == Promise!Spec

(* A sweep ends, although objects keep coming and going.                   *)
SweepsEnd == sweep_active ~> ~sweep_active
=============================================================================
