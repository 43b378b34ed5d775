-------------------------- MODULE ObjectIndexProofs --------------------------
(***************************************************************************)
(* Theorems about the object index.  First ObjectIndex, for any objects    *)
(* and any capacity: the side map always agrees with the arrays, a closed  *)
(* index is empty, and the index implements TrackedObjects.  Then          *)
(* SideTable, for any objects, threads, hashes and sizes: the side map     *)
(* itself, bucket by bucket.                                               *)
(***************************************************************************)
EXTENDS ObjectIndex, SideTable, FiniteSetTheorems, WellFoundedInduction,
        TLAPS

(* The slots in use hold objects, each at the slot that the side map says; *)
(* the invariant is the conjunction of the three that TLC checks.          *)
IndexInv ==
    /\ TypeOK
    /\ Consistent
    /\ ClosedIsEmpty

(* The slot that fills a removed one is that slot itself or lies above it. *)
LEMMA HoleInRange ==
    ASSUME TypeOK, NEW slot \in 0 .. nobjects - 1
    PROVE  /\ Hole(slot) \in slot .. nobjects - 1
           /\ Hole(slot) \in Slots
           /\ nobjects - 1 \in Slots
           /\ slot \in Slots
BY CapacityNat DEF TypeOK, Hole, BelowCursor, Slots

(* A removal keeps the arrays and the side map in agreement: slot by slot,  *)
(* the new contents come from one old slot, which is not the removed one.   *)
LEMMA RemovePreserves ==
    ASSUME IndexInv, NEW slot \in 0 .. nobjects - 1, Remove(slot),
           UNCHANGED <<sweep_active, lifeVars, stale>>
    PROVE  TypeOK' /\ Consistent'
<1> DEFINE last == nobjects - 1
           hole == Hole(slot)
<1>1. hole \in slot .. last /\ hole \in Slots /\ last \in Slots /\ slot \in Slots
  BY HoleInRange DEF IndexInv
<1>2. nobjects \in Nat /\ nobjects > 0 /\ nobjects' = last
  BY DEF IndexInv, TypeOK, Remove
<1>3. TypeOK'
  <2>1. ents' \in [Slots -> Objects \cup {NoObject}]
    BY <1>1 DEF IndexInv, TypeOK, Remove, Compact
  <2>2. counts' \in [Slots -> Objects \cup {NoObject}]
    BY <1>1 DEF IndexInv, TypeOK, Remove, Compact
  <2>3. side' \in [Objects -> Slots \cup {NoSlot}]
    <3> SUFFICES ASSUME NEW o \in Objects
                 PROVE  SideWithout(slot)[o] \in Slots \cup {NoSlot}
      BY DEF Remove, SideWithout
    <3> QED
      BY <1>1 DEF IndexInv, TypeOK, SideWithout
  <2>4. nobjects' \in 0 .. Capacity
    BY <1>2, CapacityNat DEF IndexInv, TypeOK
  <2>5. sweep_remaining' \in 0 .. nobjects'
    BY <1>2, CapacityNat DEF IndexInv, TypeOK, Remove, BelowCursor
  <2>6. ~sweep_active' => sweep_remaining' = 0
    BY DEF IndexInv, TypeOK, Remove, BelowCursor
  <2> QED
    BY <2>1, <2>2, <2>3, <2>4, <2>5, <2>6 DEF IndexInv, TypeOK, lifeVars
<1> DEFINE from(s) == IF s = hole THEN last ELSE IF s = slot THEN hole ELSE s
<1>4. ASSUME NEW s \in 0 .. last - 1
      PROVE  /\ from(s) \in 0 .. nobjects - 1
             /\ ents'[s] = ents[from(s)]
             /\ counts'[s] = counts[from(s)]
             /\ \A o \in Objects : side[o] = from(s) => side'[o] = s
  <2> HIDE DEF hole
  <2>1. s \in Slots /\ s # last /\ from(s) \in 0 .. nobjects - 1
    BY <1>1, <1>2, CapacityNat DEF IndexInv, TypeOK, Slots
  <2>2. /\ ents' = [ents EXCEPT ![slot] = ents[hole], ![hole] = ents[last],
                                ![last] = NoObject]
        /\ counts' = [counts EXCEPT ![slot] = counts[hole],
                                    ![hole] = counts[last],
                                    ![last] = NoObject]
    BY DEF Remove, Compact, hole
  <2>3. ents'[s] = ents[from(s)] /\ counts'[s] = counts[from(s)]
    BY <2>1, <2>2, <1>1 DEF IndexInv, TypeOK
  <2>4. ASSUME NEW o \in Objects, side[o] = from(s)
        PROVE  side'[o] = s
    <3>1. side'[o] = CASE side[o] = slot -> NoSlot
                       [] side[o] # slot /\ side[o] = hole -> slot
                       [] side[o] \notin {slot, hole} /\ side[o] = last -> hole
                       [] OTHER -> side[o]
      BY DEF Remove, SideWithout, hole
    <3> QED
      BY <3>1, <2>1, <2>4, <1>1, <1>2 DEF IndexInv, TypeOK
  <2> QED
    BY <2>1, <2>3, <2>4
<1>5. Consistent'
  <2> HIDE DEF hole, from
  <2>1. ASSUME NEW s \in 0 .. nobjects' - 1
        PROVE  /\ ents'[s] \in Objects
               /\ side'[ents'[s]] = s
               /\ counts'[s] = ents'[s]
    BY <1>2, <1>4 DEF IndexInv, Consistent
  <2>2. ASSUME NEW o \in Objects, side'[o] # NoSlot
        PROVE  side'[o] < nobjects' /\ ents'[side'[o]] = o
    <3>1. side'[o] = CASE side[o] = slot -> NoSlot
                       [] side[o] # slot /\ side[o] = hole -> slot
                       [] side[o] \notin {slot, hole} /\ side[o] = last -> hole
                       [] OTHER -> side[o]
      BY DEF Remove, SideWithout, hole
    <3>2. side[o] # slot /\ side[o] # NoSlot
      BY <2>2, <3>1, <1>1 DEF NoSlot, Slots
    <3>3. side[o] \in 0 .. nobjects - 1 /\ ents[side[o]] = o
      BY <3>2, <1>2, CapacityNat DEF IndexInv, Consistent, TypeOK, Slots
    <3>4. side'[o] \in 0 .. last - 1 /\ from(side'[o]) = side[o]
      BY <3>1, <3>2, <3>3, <1>1, <1>2 DEF from
    <3> QED
      BY <3>3, <3>4, <1>2, <1>4
  <2> QED
    BY <2>1, <2>2 DEF Consistent
<1> QED
  BY <1>3, <1>5

(* The set of tracked objects and that of the objects still to be judged,  *)
(* read off the side map.                                                  *)
LEMMA SetsBySide ==
    TypeOK /\ Consistent =>
        /\ Tracked = {o \in Objects : side[o] # NoSlot}
        /\ Todo = {o \in Objects : /\ sweep_active
                                   /\ side[o] # NoSlot
                                   /\ side[o] < sweep_remaining}
<1> SUFFICES ASSUME TypeOK, Consistent
             PROVE  /\ Tracked = {o \in Objects : side[o] # NoSlot}
                    /\ Todo = {o \in Objects : /\ sweep_active
                                               /\ side[o] # NoSlot
                                               /\ side[o] < sweep_remaining}
  OBVIOUS
<1>1. ASSUME NEW o \in Objects, side[o] # NoSlot
      PROVE  side[o] \in 0 .. nobjects - 1 /\ ents[side[o]] = o
  BY <1>1, CapacityNat DEF TypeOK, Consistent, Slots
<1>2. ASSUME NEW s \in 0 .. nobjects - 1
      PROVE  ents[s] \in Objects /\ side[ents[s]] = s /\ s # NoSlot
  BY DEF Consistent, NoSlot
<1>3. Tracked = {o \in Objects : side[o] # NoSlot}
  BY <1>1, <1>2 DEF Tracked
<1>4. ASSUME NEW s \in 0 .. sweep_remaining - 1
      PROVE  s \in 0 .. nobjects - 1
  BY CapacityNat DEF TypeOK
<1>5. ASSUME NEW o \in Objects, side[o] # NoSlot, side[o] < sweep_remaining
      PROVE  side[o] \in 0 .. sweep_remaining - 1 /\ ents[side[o]] = o
  BY <1>1, <1>5, CapacityNat DEF TypeOK
<1>6. ASSUME NEW s \in 0 .. sweep_remaining - 1
      PROVE  side[ents[s]] < sweep_remaining
  BY <1>2, <1>4, CapacityNat DEF TypeOK
<1>7. Todo = {o \in Objects : /\ sweep_active
                              /\ side[o] # NoSlot
                              /\ side[o] < sweep_remaining}
  <2>1. CASE sweep_active
    BY <2>1, <1>2, <1>4, <1>5, <1>6 DEF Todo
  <2>2. CASE ~sweep_active
    BY <2>2 DEF Todo
  <2> QED
    BY <2>1, <2>2
<1> QED
  BY <1>3, <1>7

(* A removal takes one object out of both sets and leaves every other      *)
(* object on its side of the cursor.                                       *)
LEMMA RemoveTakesOne ==
    ASSUME IndexInv, NEW slot \in 0 .. nobjects - 1, Remove(slot),
           UNCHANGED <<sweep_active, lifeVars, stale>>
    PROVE  /\ ents[slot] \in Tracked
           /\ Tracked' = Tracked \ {ents[slot]}
           /\ Todo' = Todo \ {ents[slot]}
<1> DEFINE last == nobjects - 1
           hole == Hole(slot)
<1>1. hole \in slot .. last /\ hole \in Slots /\ last \in Slots /\ slot \in Slots
  BY HoleInRange DEF IndexInv
<1>2. /\ IF sweep_active /\ slot < sweep_remaining
           THEN hole = sweep_remaining - 1
                /\ sweep_remaining' = sweep_remaining - 1
           ELSE hole = last /\ sweep_remaining' = sweep_remaining
      /\ sweep_remaining \in 0 .. nobjects
      /\ nobjects \in Nat
  BY CapacityNat DEF IndexInv, TypeOK, Remove, Hole, BelowCursor
<1> HIDE DEF hole
<1>3. TypeOK' /\ Consistent'
  BY RemovePreserves
<1>4. ents[slot] \in Objects /\ side[ents[slot]] = slot
  BY DEF IndexInv, Consistent
<1>5. ASSUME NEW o \in Objects
      PROVE  /\ side'[o] # NoSlot <=> side[o] # NoSlot /\ o # ents[slot]
             /\ sweep_active /\ side'[o] # NoSlot =>
                  (side'[o] < sweep_remaining' <=> side[o] < sweep_remaining)
  <2>1. side'[o] = CASE side[o] = slot -> NoSlot
                     [] side[o] # slot /\ side[o] = hole -> slot
                     [] side[o] \notin {slot, hole} /\ side[o] = last -> hole
                     [] OTHER -> side[o]
    BY DEF Remove, SideWithout, hole
  <2>2. side[o] # NoSlot => side[o] \in 0 .. last /\ ents[side[o]] = o
    BY <1>2, CapacityNat DEF IndexInv, TypeOK, Consistent, Slots
  <2>3. side[o] = slot <=> o = ents[slot]
    BY <2>2, <1>4, <1>1 DEF Slots, NoSlot
  <2> QED
    BY <2>1, <2>2, <2>3, <1>1, <1>2 DEF NoSlot, Slots
<1>6. sweep_active' = sweep_active
  OBVIOUS
<1>7. /\ Tracked' = {o \in Objects : side'[o] # NoSlot}
      /\ Todo' = {o \in Objects : /\ sweep_active'
                                  /\ side'[o] # NoSlot
                                  /\ side'[o] < sweep_remaining'}
  <2>1. (TypeOK /\ Consistent =>
           /\ Tracked = {o \in Objects : side[o] # NoSlot}
           /\ Todo = {o \in Objects : /\ sweep_active
                                      /\ side[o] # NoSlot
                                      /\ side[o] < sweep_remaining})'
    BY SetsBySide, PTL
  <2> QED
    BY <2>1, <1>3
<1>8. /\ Tracked = {o \in Objects : side[o] # NoSlot}
      /\ Todo = {o \in Objects : /\ sweep_active
                                 /\ side[o] # NoSlot
                                 /\ side[o] < sweep_remaining}
  BY SetsBySide DEF IndexInv
<1>9. slot # NoSlot
  BY <1>1, CapacityNat DEF Slots, NoSlot
<1> QED
  BY <1>4, <1>5, <1>6, <1>7, <1>8, <1>9

(***************************************************************************)
(* The invariant                                                           *)
(***************************************************************************)
LEMMA InitInv == Init => IndexInv
<1> SUFFICES ASSUME Init PROVE IndexInv
  OBVIOUS
<1>1. TypeOK
  <2>1. ents \in [Slots -> Objects \cup {NoObject}]
    BY DEF Init
  <2>2. counts \in [Slots -> Objects \cup {NoObject}]
    BY DEF Init
  <2>3. side \in [Objects -> Slots \cup {NoSlot}]
    BY DEF Init
  <2>4. nobjects \in 0 .. Capacity /\ sweep_remaining \in 0 .. nobjects
    BY CapacityNat DEF Init
  <2> QED
    BY <2>1, <2>2, <2>3, <2>4 DEF Init, TypeOK
<1>2. Consistent /\ ClosedIsEmpty
  BY DEF Init, Consistent, ClosedIsEmpty
<1> QED
  BY <1>1, <1>2 DEF IndexInv

LEMMA NextInv == IndexInv /\ [Next]_vars => IndexInv'
<1> SUFFICES ASSUME IndexInv, [Next]_vars
             PROVE  IndexInv'
  OBVIOUS
<1> USE DEF IndexInv
<1>1. ASSUME NEW o \in Objects, Attach(o)
      PROVE  IndexInv'
  <2>1. TypeOK' /\ nobjects \in Slots
    BY <1>1, CapacityNat
       DEF Attach, Enter, TypeOK, Slots, sweepVars, lifeVars
  <2>2. Consistent'
    <3>1. ASSUME NEW s \in 0 .. nobjects' - 1
          PROVE  /\ ents'[s] \in Objects
                 /\ side'[ents'[s]] = s
                 /\ counts'[s] = ents'[s]
      <4>1. CASE s = nobjects
        BY <1>1, <2>1, <4>1 DEF Attach, Enter, TypeOK
      <4>2. CASE s # nobjects
        <5>1. s \in 0 .. nobjects - 1
          BY <1>1, <4>2, CapacityNat DEF Attach, Enter, TypeOK
        <5>2. ents[s] # o /\ ents[s] \in Objects /\ side[ents[s]] = s
              /\ counts[s] = ents[s]
          BY <1>1, <5>1 DEF Attach, Consistent, NoSlot
        <5> QED
          BY <1>1, <4>2, <5>2, <2>1 DEF Attach, Enter, TypeOK
      <4> QED
        BY <4>1, <4>2
    <3>2. ASSUME NEW q \in Objects, side'[q] # NoSlot
          PROVE  side'[q] < nobjects' /\ ents'[side'[q]] = q
      <4>1. CASE q = o
        BY <1>1, <2>1, <4>1, CapacityNat DEF Attach, Enter, TypeOK
      <4>2. CASE q # o
        BY <1>1, <2>1, <3>2, <4>2, CapacityNat
           DEF Attach, Enter, TypeOK, Consistent, Slots
      <4> QED
        BY <4>1, <4>2
    <3> QED
      BY <3>1, <3>2 DEF Consistent
  <2>3. ClosedIsEmpty'
    BY <1>1 DEF Attach, ClosedIsEmpty, lifeVars
  <2> QED
    BY <2>1, <2>2, <2>3
<1>2. ASSUME NEW o \in Objects, Invalidate(o)
      PROVE  IndexInv'
  <2>1. side[o] \in 0 .. nobjects - 1
    BY <1>2, CapacityNat DEF Invalidate, TypeOK, Consistent, Slots
  <2>2. TypeOK' /\ Consistent'
    BY <1>2, <2>1, RemovePreserves DEF Invalidate
  <2>3. ClosedIsEmpty'
    BY <1>2, <2>1 DEF Invalidate, ClosedIsEmpty, lifeVars, TypeOK
  <2> QED
    BY <2>2, <2>3
<1>3. ASSUME NEW S \in SUBSET Objects, Purge(S)
      PROVE  IndexInv'
  BY <1>3 DEF Purge, TypeOK, Consistent, ClosedIsEmpty, arrays, sweepVars,
              lifeVars
<1>4. CASE SweepStart
  BY <1>4, CapacityNat DEF SweepStart, TypeOK, Consistent, ClosedIsEmpty,
              arrays, lifeVars
<1>5. CASE SweepKill
  <2>1. sweep_remaining - 1 \in 0 .. nobjects - 1
    BY <1>5, CapacityNat DEF SweepKill, TypeOK
  <2>2. TypeOK' /\ Consistent'
    BY <1>5, <2>1, RemovePreserves DEF SweepKill
  <2>3. ClosedIsEmpty'
    BY <1>5, <2>1 DEF SweepKill, ClosedIsEmpty, lifeVars, TypeOK
  <2> QED
    BY <2>2, <2>3
<1>6. CASE SweepKeep
  BY <1>6, CapacityNat DEF SweepKeep, TypeOK, Consistent, ClosedIsEmpty,
              arrays, lifeVars
<1>7. CASE SweepEnd \/ SweepAbort
  <2>1. /\ sweep_active' = FALSE /\ sweep_remaining' = 0
        /\ UNCHANGED <<arrays, lifeVars, stale>>
    BY <1>7 DEF SweepEnd, SweepAbort, SweepOver
  <2>2. TypeOK'
    <3>1. nobjects' \in 0 .. Capacity /\ sweep_remaining' \in 0 .. nobjects'
      BY <2>1, CapacityNat DEF TypeOK, arrays
    <3> QED
      BY <2>1, <3>1 DEF TypeOK, arrays, lifeVars
  <2>3. Consistent' /\ ClosedIsEmpty'
    BY <2>1 DEF Consistent, ClosedIsEmpty, arrays, lifeVars
  <2> QED
    BY <2>2, <2>3
<1>8. CASE Retire
  BY <1>8 DEF Retire, TypeOK, Consistent, ClosedIsEmpty, arrays, sweepVars
<1>9. CASE Stop
  BY <1>9 DEF Stop, TypeOK, Consistent, ClosedIsEmpty, arrays, sweepVars
<1>10. CASE KillAll
  BY <1>10 DEF KillAll, TypeOK, Consistent, ClosedIsEmpty, arrays, sweepVars
<1>11. CASE KillLast
  <2>1. nobjects - 1 \in 0 .. nobjects - 1
    BY <1>11, CapacityNat DEF KillLast, TypeOK
  <2>2. TypeOK' /\ Consistent'
    BY <1>11, <2>1, RemovePreserves DEF KillLast
  <2>3. ClosedIsEmpty'
    BY <1>11 DEF KillLast, ClosedIsEmpty, lifeVars
  <2> QED
    BY <2>2, <2>3
<1>12. CASE KillDone
  BY <1>12 DEF KillDone, TypeOK, Consistent, ClosedIsEmpty, arrays, sweepVars
<1>13. CASE Start
  BY <1>13 DEF Start, TypeOK, Consistent, ClosedIsEmpty, arrays, sweepVars
<1>14. CASE UNCHANGED vars
  BY <1>14 DEF vars, arrays, sweepVars, lifeVars, TypeOK, Consistent,
               ClosedIsEmpty
<1> QED
  BY <1>1, <1>2, <1>3, <1>4, <1>5, <1>6, <1>7, <1>8, <1>9, <1>10, <1>11, <1>12,
     <1>13, <1>14 DEF Next, SweepStep

LEMMA Invariance == Spec => []IndexInv
BY InitInv, NextInv, PTL DEF Spec

(* Type correctness, with the cursor within the array.                     *)
THEOREM TypeCorrect == Spec => []TypeOK
BY Invariance, PTL DEF IndexInv

(* No lookup misses, no removal fails, no object is judged by another's    *)
(* tags.                                                                   *)
THEOREM MapAgrees == Spec => []Consistent
BY Invariance, PTL DEF IndexInv

(* Nothing is tracked by an index that was retired or went cold.           *)
THEOREM ClosedStaysEmpty == Spec => []ClosedIsEmpty
BY Invariance, PTL DEF IndexInv

(***************************************************************************)
(* The refinement                                                          *)
(***************************************************************************)
LEMMA InitRefines == Init => Promise!Init
BY DEF Init, Promise!Init, Tracked, Todo

(* Equal arrays and cursors give equal sets.                               *)
LEMMA SameSets ==
    ASSUME UNCHANGED <<arrays, sweepVars>>
    PROVE  Tracked' = Tracked /\ Todo' = Todo
BY DEF Tracked, Todo, arrays, sweepVars

LEMMA NextRefines ==
    IndexInv /\ IndexInv' /\ [Next]_vars => [Promise!Next]_Promise!vars
<1> SUFFICES ASSUME IndexInv, IndexInv', [Next]_vars
             PROVE  Promise!Next \/ UNCHANGED Promise!vars
  OBVIOUS
<1>0. /\ Tracked = {o \in Objects : side[o] # NoSlot}
      /\ Todo = {o \in Objects : /\ sweep_active
                                 /\ side[o] # NoSlot
                                 /\ side[o] < sweep_remaining}
  BY SetsBySide DEF IndexInv
<1>00. /\ Tracked' = {o \in Objects : side'[o] # NoSlot}
       /\ Todo' = {o \in Objects : /\ sweep_active'
                                   /\ side'[o] # NoSlot
                                   /\ side'[o] < sweep_remaining'}
  <2>1. (TypeOK /\ Consistent =>
           /\ Tracked = {o \in Objects : side[o] # NoSlot}
           /\ Todo = {o \in Objects : /\ sweep_active
                                      /\ side[o] # NoSlot
                                      /\ side[o] < sweep_remaining})'
    BY SetsBySide, PTL
  <2> QED
    BY <2>1 DEF IndexInv
<1>1. ASSUME NEW o \in Objects, Attach(o)
      PROVE  Promise!Next
  <2>1. side \in [Objects -> Slots \cup {NoSlot}] /\ nobjects \in Slots
        /\ sweep_remaining \in 0 .. nobjects
    BY <1>1, CapacityNat DEF IndexInv, TypeOK, Attach, Slots
  <2>2. side' = [side EXCEPT ![o] = nobjects] /\ nobjects # NoSlot
    BY <1>1, <2>1 DEF Attach, Enter, NoSlot, Slots
  <2>3. o \notin Tracked /\ Tracked' = Tracked \cup {o}
    BY <1>0, <1>00, <1>1, <2>1, <2>2 DEF Attach
  <2>4. Todo' = Todo
    BY <1>0, <1>00, <1>1, <2>1, <2>2, CapacityNat
       DEF Attach, sweepVars, Slots
  <2>5. Promise!Track(o)
    BY <1>1, <2>3, <2>4 DEF Attach, Promise!Track, sweepVars, lifeVars
  <2> QED
    BY <2>5 DEF Promise!Next
<1>2. ASSUME NEW slot \in 0 .. nobjects - 1, Remove(slot),
             UNCHANGED <<sweep_active, lifeVars, stale>>
      PROVE  /\ ents[slot] \in Objects
             /\ Promise!Depart(ents[slot])
  <2>1. ents[slot] \in Objects
    BY DEF IndexInv, Consistent
  <2>2. /\ ents[slot] \in Tracked
        /\ Tracked' = Tracked \ {ents[slot]}
        /\ Todo' = Todo \ {ents[slot]}
    BY <1>2, RemoveTakesOne
  <2> QED
    BY <1>2, <2>1, <2>2 DEF Promise!Depart, lifeVars
<1>3. ASSUME NEW o \in Objects, Invalidate(o)
      PROVE  Promise!Next
  <2>1. side[o] \in 0 .. nobjects - 1
    BY <1>3, CapacityNat DEF IndexInv, Invalidate, TypeOK, Consistent, Slots
  <2> QED
    BY <1>2, <1>3, <2>1 DEF Invalidate, Promise!Next
<1>4. ASSUME NEW S \in SUBSET Objects, Purge(S)
      PROVE  Promise!Next
  BY <1>4, SameSets DEF Purge, Promise!Next, Promise!Purge, lifeVars, sweepVars
<1>5. CASE SweepStart
  <2>1. Tracked' = Tracked /\ Todo' = Tracked
    BY <1>5 DEF SweepStart, Tracked, Todo, arrays
  <2> QED
    BY <1>5, <2>1 DEF SweepStart, Promise!Next, Promise!BeginSweep, lifeVars
<1>6. sweep_remaining > 0 => sweep_remaining - 1 \in 0 .. nobjects - 1
  BY CapacityNat DEF IndexInv, TypeOK
<1>7. CASE SweepKill
  <2> DEFINE o == ents[sweep_remaining - 1]
  <2>1. /\ o \in Objects /\ o \in Tracked
        /\ Tracked' = Tracked \ {o} /\ Todo' = Todo \ {o}
    BY <1>6, <1>7, RemoveTakesOne DEF SweepKill, IndexInv, Consistent
  <2>2. o \in stale /\ o \in Todo
    BY <1>6, <1>7, <2>1, CapacityNat
       DEF SweepKill, IndexInv, Consistent, TypeOK, Todo
  <2>3. Promise!Judge(o)
    BY <1>7, <2>1, <2>2 DEF SweepKill, Promise!Judge, lifeVars
  <2> QED
    BY <2>1, <2>3 DEF Promise!Next
<1>8. CASE SweepKeep
  <2> DEFINE o == ents[sweep_remaining - 1]
  <2>1. o \in Objects /\ o \notin stale /\ side[o] = sweep_remaining - 1
    BY <1>6, <1>8 DEF SweepKeep, IndexInv, Consistent
  <2>2. Tracked' = Tracked /\ o \in Todo
    BY <1>8, <2>1, CapacityNat
       DEF SweepKeep, Tracked, Todo, arrays, IndexInv, TypeOK
  <2>3. Todo' = Todo \ {o}
    <3>1. ASSUME NEW q \in Objects, side[q] # NoSlot
          PROVE  side[q] \in Int /\ (side[q] = sweep_remaining - 1 <=> q = o)
      BY <2>1, <3>1, CapacityNat
         DEF IndexInv, TypeOK, Consistent, Slots
    <3> QED
      BY <1>0, <1>00, <1>8, <2>1, <3>1, CapacityNat
         DEF SweepKeep, arrays, IndexInv, TypeOK
  <2>4. Promise!Judge(o)
    BY <1>8, <2>1, <2>2, <2>3 DEF SweepKeep, Promise!Judge, lifeVars
  <2> QED
    BY <2>1, <2>4 DEF Promise!Next
<1>9. CASE SweepEnd
  <2>1. Tracked' = Tracked /\ Todo = {} /\ Todo' = {}
    BY <1>9 DEF SweepEnd, SweepOver, Tracked, Todo, arrays
  <2> QED
    BY <1>9, <2>1 DEF SweepEnd, SweepOver, Promise!Next, Promise!EndSweep,
                      lifeVars
<1>10. CASE SweepAbort
  <2>1. Tracked' = Tracked /\ Todo # {} /\ Todo' = {}
    BY <1>6, <1>10, CapacityNat
       DEF SweepAbort, SweepOver, Tracked, Todo, arrays, IndexInv, TypeOK
  <2> QED
    BY <1>10, <2>1 DEF SweepAbort, SweepOver, Promise!Next,
                       Promise!AbortSweep, lifeVars
<1>11. CASE Retire
  BY <1>11, SameSets DEF Retire, Promise!Next, Promise!Close, sweepVars
<1>12. CASE KillLast
  <2>1. nobjects - 1 \in 0 .. nobjects - 1
    BY <1>12, CapacityNat DEF KillLast, IndexInv, TypeOK
  <2> QED
    BY <1>2, <1>12, <2>1 DEF KillLast, Promise!Next
<1>13. CASE Stop \/ KillAll \/ KillDone \/ Start \/ UNCHANGED vars
  <2>1. UNCHANGED <<arrays, sweepVars, retired, stale>>
    BY <1>13 DEF Stop, KillAll, KillDone, Start, vars, lifeVars
  <2> QED
    BY <2>1, SameSets DEF Promise!vars, sweepVars
<1> QED
  BY <1>1, <1>3, <1>4, <1>5, <1>7, <1>8, <1>9, <1>10, <1>11, <1>12, <1>13
     DEF Next, SweepStep

(* A sweep judges every object that was tracked when it began and stays    *)
(* until it gets there, once, and no other: the array with its swaps and   *)
(* cursor implements the set and the to-do list of TrackedObjects.         *)
THEOREM SweepsComplete == Spec => SweepsMissNothing
<1>1. IndexInv /\ [Next]_vars => [Promise!Next]_Promise!vars
  BY NextInv, NextRefines
<1> QED
  BY <1>1, InitRefines, Invariance, PTL
     DEF Spec, SweepsMissNothing, Promise!Spec

(***************************************************************************)
(*                                                                         *)
(*                    The side map, bucket by bucket                       *)
(*                                                                         *)
(* The side map names every slot of the dense array in just one bucket of  *)
(* just one of its two tables, on the probe path of the object of that     *)
(* slot (SideInv); so lookups are exact unless a table has no empty bucket *)
(* left.  SideInv needs no bound on the sizes and nothing about the load,  *)
(* which LoadInv adds for SideTypeOK.  EmptyBucketKept is TLC's to check.  *)
(***************************************************************************)
(***************************************************************************)
(* Smallest elements                                                       *)
(***************************************************************************)
(* The order of the naturals, as a relation.                               *)
Below == {p \in Nat \X Nat : p[1] < p[2]}

(* No descent below zero goes on for ever.                                 *)
LEMMA BelowWellFounded == IsWellFoundedOn(Below, Nat)
BY NatLessThanWellFounded, Zenon DEF OpToRel, Below

(* Every non-empty set of naturals has a smallest element.                 *)
LEMMA Smallest ==
    ASSUME NEW S \in SUBSET Nat, S # {}
    PROVE  \E v \in S : \A w \in S : v <= w
<1>1. PICK v \in S : \A w \in S : <<w, v>> \notin Below
  BY BelowWellFounded, WFMin
<1>2. \A w \in S : w \in Nat /\ v \in Nat /\ ~(w < v)
  BY <1>1 DEF Below
<1> QED
  BY <1>2

(* The states of a bucket: a slot, empty or a tombstone.                   *)
Codes == {c \in Int : c >= -2}
Cells(t) == 0 .. t.buckets - 1

(* A probe that starts at hash h gets as far as bucket at.                 *)
Reaches(t, h, at) ==
    \E n \in Cells(t) :
        /\ (h + n) % t.buckets = at
        /\ \A m \in 0 .. n - 1 : t.map[(h + m) % t.buckets] # Empty

TableShape(t) ==
    /\ t = [buckets |-> t.buckets, map |-> t.map, live |-> t.live,
            tombs |-> t.tombs]
    /\ t.buckets \in Nat
    /\ t.map \in [Cells(t) -> Codes]
    /\ t.live \in Int /\ t.tombs \in Int
    /\ t.buckets = 0 => t.live = 0

(* Live buckets name different slots in use, and a probe for the object of *)
(* the slot gets to the bucket; e is the array and h the hashes.           *)
TableInv(t, e, h) ==
    /\ TableShape(t)
    /\ \A at \in Cells(t) : Live(t.map[at]) =>
          t.map[at] < Len(e) /\ Reaches(t, h[e[t.map[at] + 1]], at)
    /\ \A a, b \in Cells(t) : Live(t.map[a]) /\ t.map[a] = t.map[b] => a = b

(* Every slot in use is named by just one of the tables.                   *)
Has(t, code) == \E at \in Cells(t) : t.map[at] = code
MapInv(p, r, e, h) ==
    /\ TableInv(p, e, h) /\ TableInv(r, e, h)
    /\ \A code \in 0 .. Len(e) - 1 : Has(p, code) # Has(r, code)
    /\ Len(e) = p.live + r.live

ObjectsInv ==
    /\ dense \in Seq(Cores)
    /\ \A i, j \in 1 .. Len(dense) : dense[i] = dense[j] => i = j
    /\ home \in [Cores -> Nat]
    /\ thr \in [Threads -> [pc : {"idle", "try", "alloc", "busy", "publish",
                                  "EFAULT", "EBUSY", "ENOMEM", "EOVERFLOW"},
                            obj : Cores \cup {Nobody},
                            buckets : Nat,
                            reason : {"none", "grow", "rebuild"}]]
    /\ \A t \in Threads :
          /\ thr[t].pc \in {"try", "alloc", "busy", "publish"} =>
                thr[t].obj # Nobody
          /\ thr[t].pc = "alloc" => thr[t].buckets # 0
          /\ \A i \in 1 .. Len(dense) : thr[t].obj # dense[i]
          /\ \A u \in Threads \ {t} :
                thr[t].obj = thr[u].obj => thr[t].obj = Nobody

(* What a migration has passed in the retiring table is no longer live.    *)
MigrationInv ==
    /\ mig \in [active : BOOLEAN, auto : BOOLEAN, cursor : Nat,
                reason : {"none", "grow", "rebuild", "shrink", "rollback"}]
    /\ mig.active => prim.buckets # 0 /\ mig.cursor < ret.buckets
    /\ ~mig.active => ret.buckets = 0
    /\ mig.active =>
          \A at \in 0 .. mig.cursor - 1 : ~Live(ret.map[at])

SideInv == ObjectsInv /\ MapInv(prim, ret, dense, home) /\ MigrationInv

(***************************************************************************)
(* Probe paths                                                             *)
(***************************************************************************)
LEMMA LeastIn ==
    ASSUME NEW S \in SUBSET Nat, S # {}
    PROVE  Least(S) \in S /\ \A m \in S : Least(S) <= m
BY Smallest DEF Least

(* A path stays in the table ...                                           *)
LEMMA PathInside ==
    ASSUME NEW h \in Nat, NEW n \in Nat, NEW b \in Nat \ {0}
    PROVE  (h + n) % b \in 0 .. b - 1
OBVIOUS

LEMMA Remainder ==
    ASSUME NEW q \in Nat, NEW r \in Nat, NEW x \in Nat, NEW b \in Nat \ {0},
           r < b, x = b * q + r
    PROVE  x % b = r
OBVIOUS

(* ... and comes to every bucket of it.                                    *)
LEMMA PathCovers ==
    ASSUME NEW h \in Nat, NEW b \in Nat \ {0}, NEW at \in 0 .. b - 1
    PROVE  \E n \in 0 .. b - 1 : (h + n) % b = at
<1> DEFINE q == h \div b
           r == h % b
<1>1. q \in Nat /\ r \in 0 .. b - 1 /\ h = b * q + r
  OBVIOUS
<1>2. b * q \in Nat /\ b * (q + 1) = b * q + b
  BY <1>1
<1> HIDE DEF q, r
<1>3. CASE at >= r
  <2>1. at - r \in 0 .. b - 1 /\ h + (at - r) = b * q + at
    BY <1>1, <1>2, <1>3
  <2>2. (h + (at - r)) % b = at
    BY <1>1, <2>1, Remainder
  <2> QED
    BY <2>1, <2>2
<1>4. CASE at < r
  <2>1. at - r + b \in 0 .. b - 1 /\ h + (at - r + b) = b * (q + 1) + at
    BY <1>1, <1>2, <1>4
  <2>2. (h + (at - r + b)) % b = at
    BY <1>1, <2>1, Remainder
  <2> QED
    BY <2>1, <2>2
<1> QED
  BY <1>1, <1>3, <1>4

(***************************************************************************)
(* One table                                                               *)
(***************************************************************************)
(* What was reached is still reached when no bucket becomes empty.         *)
LEMMA StillReached ==
    ASSUME NEW t, NEW u, t.buckets \in Nat, u.buckets = t.buckets,
           \A a \in Cells(t) : t.map[a] # Empty => u.map[a] # Empty,
           NEW h \in Nat, NEW at, Reaches(t, h, at)
    PROVE  Reaches(u, h, at)
<1>1. PICK n \in Cells(t) : /\ (h + n) % t.buckets = at
                            /\ \A m \in 0 .. n - 1 :
                                  t.map[(h + m) % t.buckets] # Empty
  BY DEF Reaches
<1>2. t.buckets \in Nat \ {0}
  BY <1>1 DEF Cells
<1>3. \A m \in 0 .. n - 1 : (h + m) % t.buckets \in Cells(t)
  BY <1>2, PathInside DEF Cells
<1> QED
  BY <1>1, <1>3 DEF Reaches, Cells

(* A table depends on the array and the hashes only by the hash at each    *)
(* slot.                                                                   *)
LEMMA TableFrame ==
    ASSUME NEW t, NEW e, NEW h, NEW e2, NEW h2, TableInv(t, e, h),
           Len(e) \in Nat, Len(e2) \in Nat, Len(e) <= Len(e2),
           \A i \in 1 .. Len(e) : h2[e2[i]] = h[e[i]]
    PROVE  TableInv(t, e2, h2)
<1> SUFFICES ASSUME NEW at \in Cells(t), Live(t.map[at])
             PROVE  t.map[at] < Len(e2)
                    /\ Reaches(t, h2[e2[t.map[at] + 1]], at)
  BY DEF TableInv
<1>1. t.map[at] \in Nat /\ t.map[at] < Len(e)
  BY DEF TableInv, TableShape, Codes, Live
<1>2. h2[e2[t.map[at] + 1]] = h[e[t.map[at] + 1]]
  BY <1>1
<1> QED
  BY <1>1, <1>2 DEF TableInv

LEMMA NewTableInv ==
    ASSUME NEW n \in Nat, NEW e, NEW h
    PROVE  /\ TableInv(NewTable(n), e, h)
           /\ NewTable(n).buckets = n /\ NewTable(n).live = 0
           /\ \A code \in Nat : ~Has(NewTable(n), code)
<1>1. \A at \in 0 .. n - 1 : NewTable(n).map[at] = -1
  BY DEF NewTable, Empty
<1> QED
  BY <1>1 DEF TableInv, TableShape, NewTable, Cells, Codes, Empty, Live, Has

(* An insertion fills a bucket on the path that is not live, and counts a  *)
(* tombstone it fills no more.                                             *)
LEMMA InsertedAt ==
    ASSUME NEW t, TableShape(t), NEW o, home[o] \in Nat, NEW slot \in Nat,
           \E n \in Cells(t) : PathCode(t, o, n) = Empty
    PROVE  LET u == InsertIn(t, o, slot) IN
           /\ TableShape(u) /\ u.buckets = t.buckets /\ u.live = t.live + 1
           /\ \E at \in Cells(t) :
                 /\ ~Live(t.map[at])
                 /\ Reaches(t, home[o], at)
                 /\ u.map = [t.map EXCEPT ![at] = slot]
                 /\ u.tombs = IF t.map[at] = Tombstone THEN t.tombs - 1
                              ELSE t.tombs
<1> DEFINE empties == {n \in 0 .. t.buckets - 1 : PathCode(t, o, n) = Empty}
           end == Least(empties)
           tombs == {n \in 0 .. end - 1 : PathCode(t, o, n) = Tombstone}
           n0 == IF tombs = {} THEN end ELSE Least(tombs)
           at0 == PathPos(t, o, n0)
<1>1. t.buckets \in Nat \ {0}
  BY DEF TableShape, Cells
<1>2. end \in 0 .. t.buckets - 1 /\ PathCode(t, o, end) = Empty
      /\ \A m \in 0 .. end - 1 : PathCode(t, o, m) # Empty
  <2>1. empties \in SUBSET Nat /\ empties # {}
    BY DEF Cells
  <2>2. end \in empties /\ \A m \in empties : end <= m
    BY <2>1, LeastIn
  <2> HIDE DEF end
  <2>3. end \in 0 .. t.buckets - 1 /\ PathCode(t, o, end) = Empty
    BY <2>2
  <2>4. ASSUME NEW m \in 0 .. end - 1 PROVE PathCode(t, o, m) # Empty
    <3>1. m \in 0 .. t.buckets - 1 /\ ~(end <= m)
      BY <1>1, <2>3
    <3> QED
      BY <2>2, <3>1
  <2> QED
    BY <2>3, <2>4
<1> HIDE DEF end
<1>3. /\ n0 \in 0 .. end
      /\ PathCode(t, o, n0) = IF tombs = {} THEN Empty ELSE Tombstone
  <2>1. CASE tombs = {}
    BY <1>2, <2>1
  <2>2. CASE tombs # {}
    <3>1. n0 \in tombs
      BY <1>2, <2>2, LeastIn
    <3> QED
      BY <1>2, <2>2, <3>1
  <2> QED
    BY <2>1, <2>2
<1> HIDE DEF n0
<1>4. at0 \in Cells(t)
  BY <1>1, <1>2, <1>3, PathInside DEF PathPos, Cells
<1>5. ~Live(t.map[at0])
  BY <1>3 DEF PathCode, Live, Empty, Tombstone
<1>6. Reaches(t, home[o], at0)
  <2>1. n0 \in Cells(t) /\ \A m \in 0 .. n0 - 1 : m \in 0 .. end - 1
    BY <1>1, <1>2, <1>3 DEF Cells
  <2> QED
    BY <1>2, <2>1 DEF Reaches, PathPos, PathCode
<1>7. InsertIn(t, o, slot) =
         [t EXCEPT !.map[at0] = slot, !.live = @ + 1,
                   !.tombs = IF tombs = {} THEN @ ELSE @ - 1]
  BY DEF InsertIn, n0, end
<1> HIDE DEF at0, tombs
<1>8. InsertIn(t, o, slot) =
         [buckets |-> t.buckets, map |-> [t.map EXCEPT ![at0] = slot],
          live |-> t.live + 1,
          tombs |-> IF tombs = {} THEN t.tombs ELSE t.tombs - 1]
  BY <1>7 DEF TableShape
<1>9. TableShape(InsertIn(t, o, slot))
  BY <1>1, <1>4, <1>8 DEF TableShape, Cells, Codes
<1>10. /\ InsertIn(t, o, slot).buckets = t.buckets
       /\ InsertIn(t, o, slot).live = t.live + 1
       /\ InsertIn(t, o, slot).map = [t.map EXCEPT ![at0] = slot]
  BY <1>8
<1>11. InsertIn(t, o, slot).tombs =
          IF t.map[at0] = Tombstone THEN t.tombs - 1 ELSE t.tombs
  <2>1. t.map[at0] = Tombstone <=> tombs # {}
    BY <1>3 DEF PathCode, at0, Empty, Tombstone
  <2> QED
    BY <1>8, <2>1
<1> QED
  BY <1>4, <1>5, <1>6, <1>9, <1>10, <1>11

LEMMA Inserted ==
    ASSUME NEW t, TableShape(t), NEW o, home[o] \in Nat, NEW slot \in Nat,
           \E n \in Cells(t) : PathCode(t, o, n) = Empty
    PROVE  LET u == InsertIn(t, o, slot) IN
           /\ TableShape(u) /\ u.buckets = t.buckets /\ u.live = t.live + 1
           /\ \E at \in Cells(t) :
                 /\ ~Live(t.map[at])
                 /\ Reaches(t, home[o], at)
                 /\ u.map = [t.map EXCEPT ![at] = slot]
<1> DEFINE u == InsertIn(t, o, slot)
<1>1. PICK at \in Cells(t) :
         /\ TableShape(u) /\ u.buckets = t.buckets /\ u.live = t.live + 1
         /\ ~Live(t.map[at]) /\ Reaches(t, home[o], at)
         /\ u.map = [t.map EXCEPT ![at] = slot]
  BY InsertedAt
<1> QED
  BY <1>1

(* A bucket that was not live names a slot that no other names.            *)
LEMMA Filled ==
    ASSUME NEW t, NEW u, NEW e, NEW h, TableInv(t, e, h), TableShape(u),
           NEW slot \in Nat, slot < Len(e), ~Has(t, slot), Len(e) \in Nat,
           \A i \in 1 .. Len(e) : h[e[i]] \in Nat,
           NEW at \in Cells(t), ~Live(t.map[at]),
           Reaches(t, h[e[slot + 1]], at),
           u.buckets = t.buckets, u.map = [t.map EXCEPT ![at] = slot]
    PROVE  /\ TableInv(u, e, h)
           /\ \A code \in Nat : Has(u, code) <=> Has(t, code) \/ code = slot
<1>1. /\ Cells(u) = Cells(t) /\ t.buckets \in Nat
      /\ t.map \in [Cells(t) -> Codes]
      /\ u.map[at] = slot
      /\ \A a \in Cells(t) \ {at} : u.map[a] = t.map[a]
  BY DEF Cells, TableInv, TableShape
<1>2. \A a \in Cells(t) : t.map[a] # Empty => u.map[a] # Empty
  BY <1>1 DEF Empty
<1>3. ASSUME NEW a \in Cells(u), Live(u.map[a])
      PROVE  u.map[a] < Len(e) /\ Reaches(u, h[e[u.map[a] + 1]], a)
  <2>1. CASE a = at
    <3>1. h[e[slot + 1]] \in Nat
      OBVIOUS
    <3> QED
      BY <1>1, <1>2, <2>1, <3>1, StillReached
  <2>2. CASE a # at
    <3>1. /\ a \in Cells(t) /\ u.map[a] = t.map[a]
          /\ t.map[a] < Len(e) /\ Reaches(t, h[e[t.map[a] + 1]], a)
      BY <1>1, <1>3, <2>2 DEF TableInv
    <3>2. t.map[a] \in Nat
      BY <1>1, <1>3, <3>1 DEF Codes, Live
    <3>3. h[e[t.map[a] + 1]] \in Nat
      BY <3>1, <3>2
    <3> QED
      BY <1>1, <1>2, <3>1, <3>3, StillReached
  <2> QED
    BY <2>1, <2>2
<1>4. \A a, b \in Cells(u) : Live(u.map[a]) /\ u.map[a] = u.map[b] => a = b
  BY <1>1 DEF TableInv, Has
<1>5. \A code \in Nat : Has(u, code) <=> Has(t, code) \/ code = slot
  BY <1>1 DEF Has, Live
<1> QED
  BY <1>3, <1>4, <1>5 DEF TableInv

(* A removal, or the move of an object to the other table.                 *)
LEMMA Emptied ==
    ASSUME NEW t, NEW e, NEW h, TableInv(t, e, h), Len(e) \in Nat,
           \A i \in 1 .. Len(e) : h[e[i]] \in Nat,
           NEW at \in Cells(t), Live(t.map[at])
    PROVE  LET u == Tombstoned(t, at) IN
           /\ TableInv(u, e, h)
           /\ u.live = t.live - 1 /\ u.buckets = t.buckets
           /\ u.map = [t.map EXCEPT ![at] = Tombstone]
           /\ \A code \in Nat :
                 Has(u, code) <=> Has(t, code) /\ code # t.map[at]
<1> DEFINE u == Tombstoned(t, at)
<1>1. /\ t.buckets \in Nat \ {0} /\ t.live \in Int /\ t.tombs \in Int
      /\ t.map \in [Cells(t) -> Codes]
      /\ t = [buckets |-> t.buckets, map |-> t.map, live |-> t.live,
              tombs |-> t.tombs]
  BY DEF Cells, TableInv, TableShape
<1>2. u = [buckets |-> t.buckets, map |-> [t.map EXCEPT ![at] = Tombstone],
           live |-> t.live - 1, tombs |-> t.tombs + 1]
  <2>1. u = [t EXCEPT !.map[at] = Tombstone, !.live = @ - 1,
                      !.tombs = @ + 1]
    BY DEF Tombstoned
  <2> HIDE DEF u
  <2> QED
    BY <1>1, <2>1
<1> HIDE DEF u
<1>3. /\ u.buckets = t.buckets /\ u.live = t.live - 1
      /\ u.map = [t.map EXCEPT ![at] = Tombstone]
      /\ Cells(u) = Cells(t)
      /\ u.map[at] = Tombstone
      /\ \A a \in Cells(t) \ {at} : u.map[a] = t.map[a]
  BY <1>1, <1>2 DEF Cells
<1>4. TableShape(u)
  BY <1>1, <1>2 DEF TableShape, Codes, Tombstone, Cells
<1>5. \A a \in Cells(t) : t.map[a] # Empty => u.map[a] # Empty
  BY <1>3 DEF Empty, Tombstone
<1>6. ASSUME NEW a \in Cells(u), Live(u.map[a])
      PROVE  u.map[a] < Len(e) /\ Reaches(u, h[e[u.map[a] + 1]], a)
  <2>1. a \in Cells(t) /\ a # at /\ u.map[a] = t.map[a]
    BY <1>3, <1>6 DEF Live, Tombstone
  <2>2. t.map[a] < Len(e) /\ Reaches(t, h[e[t.map[a] + 1]], a)
    BY <1>6, <2>1 DEF TableInv
  <2>3. t.map[a] \in Nat
    BY <1>1, <1>6, <2>1 DEF Codes, Live
  <2>4. h[e[t.map[a] + 1]] \in Nat
    BY <2>2, <2>3
  <2> QED
    BY <1>1, <1>3, <1>5, <2>1, <2>2, <2>4, StillReached
<1>7. \A a, b \in Cells(u) : Live(u.map[a]) /\ u.map[a] = u.map[b] => a = b
  BY <1>3 DEF TableInv, Live, Tombstone
<1>8. \A code \in Nat : Has(u, code) <=> Has(t, code) /\ code # t.map[at]
  BY <1>3 DEF Has, Live, Tombstone, TableInv
<1> QED
  BY <1>3, <1>4, <1>6, <1>7, <1>8 DEF TableInv, u

(* The slot that the array had an object in before slot was filled from    *)
(* hole and hole from the last slot.                                       *)
Origin(code, slot, hole, last) ==
    IF code = hole THEN last ELSE IF code = slot THEN hole ELSE code

(* The array and the hashes after that, e2 and h2.                         *)
ClosedUp(slot, hole, e2, h2) ==
    /\ slot \in Nat /\ hole \in Nat /\ slot <= hole /\ hole < Len(dense)
    /\ Len(dense) \in Nat /\ Len(e2) = Len(dense) - 1
    /\ \A i \in 1 .. Len(dense) : home[dense[i]] \in Nat
    /\ \A code \in 0 .. Len(e2) - 1 :
          h2[e2[code + 1]] =
             home[dense[Origin(code, slot, hole, Len(dense) - 1) + 1]]

LEMMA Recoded ==
    ASSUME NEW t, TableInv(t, dense, home),
           NEW slot, NEW hole, NEW e2, NEW h2, ClosedUp(slot, hole, e2, h2),
           ~Has(t, slot)
    PROVE  LET u == Recode(t, slot, hole) IN
           /\ TableInv(u, e2, h2)
           /\ u.live = t.live /\ u.buckets = t.buckets
           /\ \A a \in Cells(t) : Live(u.map[a]) <=> Live(t.map[a])
           /\ \A code \in 0 .. Len(e2) - 1 :
                 Has(u, code) <=>
                    Has(t, Origin(code, slot, hole, Len(dense) - 1))
<1> USE DEF ClosedUp
<1> DEFINE u == Recode(t, slot, hole)
           last == Len(dense) - 1
           from(code) == Origin(code, slot, hole, last)
<1>1. /\ t.buckets \in Nat /\ t.live \in Int /\ t.tombs \in Int
      /\ t.map \in [Cells(t) -> Codes]
      /\ t = [buckets |-> t.buckets, map |-> t.map, live |-> t.live,
              tombs |-> t.tombs]
      /\ t.buckets = 0 => t.live = 0
  BY DEF TableInv, TableShape
<1> DEFINE new(a) == CASE t.map[a] # slot /\ t.map[a] = hole -> slot
                       [] t.map[a] \notin {slot, hole} /\ t.map[a] = last
                             -> hole
                       [] OTHER -> t.map[a]
<1>2. u = [buckets |-> t.buckets, map |-> [a \in Cells(t) |-> new(a)],
           live |-> t.live, tombs |-> t.tombs]
  <2>1. u = [t EXCEPT !.map = [a \in DOMAIN t.map |-> new(a)]]
    BY DEF Recode
  <2>2. DOMAIN t.map = Cells(t)
    BY <1>1
  <2> HIDE DEF u, new
  <2> QED
    BY <1>1, <2>1, <2>2
<1> HIDE DEF u
<1>3. /\ u.buckets = t.buckets /\ u.live = t.live /\ Cells(u) = Cells(t)
      /\ \A a \in Cells(t) : u.map[a] = new(a)
  <2> HIDE DEF new
  <2> QED
    BY <1>2 DEF Cells
<1>4. ASSUME NEW a \in Cells(t)
      PROVE  /\ new(a) \in Codes
             /\ Live(new(a)) <=> Live(t.map[a])
             /\ new(a) = Empty <=> t.map[a] = Empty
             /\ Live(new(a)) => /\ new(a) \in 0 .. last - 1
                                /\ from(new(a)) = t.map[a]
  <2>1. t.map[a] \in Codes /\ t.map[a] # slot
    BY <1>1 DEF Has
  <2>2. Live(t.map[a]) => t.map[a] \in 0 .. last
    BY <2>1 DEF TableInv, Live, Codes
  <2>3. CASE t.map[a] = hole
    BY <2>1, <2>3 DEF Codes, Live, Empty, Origin
  <2>4. CASE t.map[a] # hole /\ t.map[a] = last
    BY <2>1, <2>4 DEF Codes, Live, Empty, Origin
  <2>5. CASE t.map[a] # hole /\ t.map[a] # last
    BY <2>1, <2>2, <2>5 DEF Codes, Live, Empty, Origin
  <2> QED
    BY <2>3, <2>4, <2>5
<1> HIDE DEF new, last
<1>5. TableShape(u)
  BY <1>1, <1>2, <1>3, <1>4 DEF TableShape
<1>6. \A a \in Cells(t) : t.map[a] # Empty => u.map[a] # Empty
  BY <1>3, <1>4
<1>7. ASSUME NEW a \in Cells(u), Live(u.map[a])
      PROVE  u.map[a] < Len(e2) /\ Reaches(u, h2[e2[u.map[a] + 1]], a)
  <2>1. /\ a \in Cells(t) /\ Live(t.map[a])
        /\ u.map[a] \in 0 .. last - 1 /\ from(u.map[a]) = t.map[a]
    BY <1>3, <1>4, <1>7
  <2>2. t.map[a] \in Nat /\ t.map[a] < Len(dense)
        /\ Reaches(t, home[dense[t.map[a] + 1]], a)
    BY <1>1, <2>1 DEF TableInv, Live, Codes
  <2>3. home[dense[t.map[a] + 1]] \in Nat
    BY <2>2
  <2>4. Reaches(u, home[dense[t.map[a] + 1]], a)
    BY <1>1, <1>3, <1>6, <2>1, <2>2, <2>3, StillReached
  <2>5. h2[e2[u.map[a] + 1]] = home[dense[t.map[a] + 1]]
    BY <2>1 DEF last
  <2> QED
    BY <2>1, <2>4, <2>5 DEF last
<1>8. \A a, b \in Cells(u) : Live(u.map[a]) /\ u.map[a] = u.map[b] => a = b
  BY <1>3, <1>4 DEF TableInv
<1>9. ASSUME NEW code \in 0 .. Len(e2) - 1
      PROVE  Has(u, code) <=> Has(t, from(code))
  <2>1. code \in 0 .. last - 1 /\ from(code) \in 0 .. last
    BY DEF last, Origin
  <2>2. ASSUME NEW a \in Cells(t)
        PROVE  u.map[a] = code <=> t.map[a] = from(code)
    <3>1. u.map[a] = code => t.map[a] = from(code)
      BY <1>3, <1>4, <2>1 DEF Live
    <3>2. ASSUME t.map[a] = from(code), u.map[a] # code PROVE FALSE
      <4>1. /\ Live(t.map[a]) /\ t.map[a] # slot
            /\ u.map[a] \in 0 .. last - 1 /\ from(u.map[a]) = from(code)
        BY <1>3, <1>4, <2>1, <3>2 DEF Live, Has
      <4> QED
        BY <2>1, <3>2, <4>1 DEF Origin
    <3> QED
      BY <3>1, <3>2
  <2> QED
    BY <1>3, <2>2 DEF Has
<1> QED
  BY <1>3, <1>4, <1>5, <1>7, <1>8, <1>9 DEF TableInv, u, last

(***************************************************************************)
(* Lookups                                                                 *)
(***************************************************************************)
(* A probe in one table finds the bucket of o; when there is none it ends  *)
(* at an empty bucket, and fails only if the table has none left.          *)
LEMMA FindInCases ==
    ASSUME NEW t, TableInv(t, dense, home), NEW o, home[o] \in Nat,
           Len(dense) \in Nat
    PROVE  LET at == FindIn(t, o)
               none == \A a \in Cells(t) : Live(t.map[a]) => At(t.map[a]) # o
           IN  \/ /\ at = Absent /\ none
                  /\ t.buckets # 0 =>
                        \E n \in Cells(t) : PathCode(t, o, n) = Empty
               \/ at = Corrupt /\ none /\ ~Has(t, Empty)
               \/ at \in Cells(t) /\ Live(t.map[at]) /\ At(t.map[at]) = o
<1> DEFINE at == FindIn(t, o)
           none == \A a \in Cells(t) : Live(t.map[a]) => At(t.map[a]) # o
           stops == {n \in 0 .. t.buckets - 1 :
                        \/ PathCode(t, o, n) = Empty
                        \/ Holds(t, o, n)
                        \/ Breaks(t, o, n)}
<1>1. t.buckets \in Nat
  BY DEF TableInv, TableShape
<1>2. CASE t.buckets = 0
  BY <1>2 DEF FindIn, Cells, Absent
<1>3. CASE t.buckets # 0
  <2>1. \A n \in Nat : PathPos(t, o, n) \in Cells(t)
    BY <1>1, <1>3, PathInside DEF PathPos, Cells
  <2>2. \A n \in Nat : ~Breaks(t, o, n)
    BY <2>1 DEF Breaks, PathCode, Decodes, TableInv
  <2>3. stops \in SUBSET Nat
    BY <1>1
  (* The bucket of o stops the probe, and no empty bucket does so before.  *)
  <2>4. ASSUME NEW a \in Cells(t), Live(t.map[a]), At(t.map[a]) = o
        PROVE  stops # {} /\ Holds(t, o, Least(stops))
    <3>1. Decodes(t.map[a]) /\ Reaches(t, home[o], a)
      BY <2>4 DEF TableInv, Decodes, At
    <3>2. PICK n \in Cells(t) :
             /\ PathPos(t, o, n) = a
             /\ \A m \in 0 .. n - 1 : PathCode(t, o, m) # Empty
      BY <3>1 DEF Reaches, PathPos, PathCode
    <3>3. n \in stops
      BY <2>4, <3>1, <3>2 DEF Holds, PathCode, Cells
    <3>4. Least(stops) \in stops /\ Least(stops) <= n
      BY <2>3, <3>3, LeastIn
    <3> HIDE DEF stops
    <3>5. Least(stops) \in Nat /\ n \in Nat
      BY <2>3, <3>3, <3>4
    <3>6. CASE Least(stops) = n
      BY <2>4, <3>1, <3>2, <3>3, <3>6 DEF Holds, PathCode
    <3>7. CASE Least(stops) # n
      <4>1. Least(stops) \in 0 .. n - 1
        BY <3>4, <3>5, <3>7
      <4>2. PathCode(t, o, Least(stops)) # Empty
        BY <3>2, <4>1
      <4> QED
        BY <2>2, <3>3, <3>4, <3>5, <4>2 DEF stops
    <3> QED
      BY <3>3, <3>6, <3>7
  <2>5. CASE stops = {}
    <3>1. at = Corrupt
      BY <1>3, <2>5 DEF FindIn
    <3>2. none
      BY <2>4, <2>5
    <3>3. ASSUME NEW a \in Cells(t), t.map[a] = Empty PROVE FALSE
      <4>1. PICK n \in 0 .. t.buckets - 1 : (home[o] + n) % t.buckets = a
        <5>1. t.buckets \in Nat \ {0} /\ a \in 0 .. t.buckets - 1
          BY <1>1, <1>3 DEF Cells
        <5> QED
          BY <5>1, PathCovers
      <4>2. n \in stops
        BY <3>3, <4>1 DEF PathCode, PathPos
      <4> QED
        BY <2>5, <4>2
    <3> QED
      BY <3>1, <3>2, <3>3 DEF Has
  <2>6. CASE stops # {} /\ Holds(t, o, Least(stops))
    <3>1. Least(stops) \in Nat
      BY <2>3, <2>6, LeastIn
    <3>2. at = PathPos(t, o, Least(stops))
      BY <1>3, <2>2, <2>6, <3>1 DEF FindIn
    <3> HIDE DEF stops, at
    <3> QED
      BY <2>1, <2>6, <3>1, <3>2 DEF Holds, PathCode, at
  <2>7. CASE stops # {} /\ ~Holds(t, o, Least(stops))
    <3>1. Least(stops) \in stops /\ Least(stops) \in Nat
      BY <2>3, <2>7, LeastIn
    <3>2. at = Absent
      BY <1>3, <2>2, <2>7, <3>1 DEF FindIn
    <3>3. none
      BY <2>4, <2>7
    <3>4. PathCode(t, o, Least(stops)) = Empty /\ Least(stops) \in Cells(t)
      BY <2>2, <2>7, <3>1 DEF Cells
    <3> HIDE DEF stops, at
    <3> QED
      BY <3>2, <3>3, <3>4 DEF at
  <2> QED
    BY <2>5, <2>6, <2>7
<1> QED
  BY <1>2, <1>3

(* An object that is found nowhere: the probe of each table ended.         *)
LEMMA FoundNowhere ==
    ASSUME NEW o, Find(o) = Absent
    PROVE  FindIn(prim, o) = Absent /\ FindIn(ret, o) = Absent
BY DEF Find, Absent, Corrupt

(* As long as neither table is full, lookups are exact.                    *)
NoTableFull == \A t \in {prim, ret} : t.buckets # 0 => Has(t, Empty)

LEMMA Exact ==
    ASSUME SideInv, NoTableFull
    PROVE  LookupsExact
<1>1. Len(dense) \in Nat /\ Len(dense) = prim.live + ret.live
      /\ TableInv(prim, dense, home) /\ TableInv(ret, dense, home)
  BY DEF SideInv, ObjectsInv, MapInv
<1>2. ASSUME NEW o, home[o] \in Nat, NEW t \in {prim, ret}
      PROVE  \/ /\ FindIn(t, o) = Absent
                /\ \A a \in Cells(t) : Live(t.map[a]) => At(t.map[a]) # o
             \/ /\ FindIn(t, o) \in Cells(t)
                /\ Live(t.map[FindIn(t, o)])
                /\ At(t.map[FindIn(t, o)]) = o
  <2>1. TableInv(t, dense, home)
    BY <1>1
  <2>2. t.buckets = 0 => FindIn(t, o) = Absent
    BY DEF FindIn
  <2> QED
    BY <1>1, <1>2, <2>1, <2>2, FindInCases DEF NoTableFull, Absent, Corrupt
<1>3. ASSUME NEW t \in {prim, ret}, NEW a \in Cells(t), Live(t.map[a])
      PROVE  t.map[a] \in 0 .. Len(dense) - 1
  BY <1>1, <1>3 DEF TableInv, TableShape, Live, Codes
<1>4. ASSUME NEW slot \in 0 .. Len(dense) - 1
      PROVE  LET at == Find(At(slot))
                 t == IF FindIn(prim, At(slot)) >= 0 THEN prim ELSE ret
             IN  at >= 0 /\ t.map[at] = slot
  <2> DEFINE o == At(slot)
  <2>1. home[o] \in Nat
    <3>1. o \in Cores
      BY <1>1, <1>4 DEF SideInv, ObjectsInv, At
    <3> QED
      BY <3>1 DEF SideInv, ObjectsInv
  <2>2. \A code \in 0 .. Len(dense) - 1 : At(code) = o => code = slot
    BY <1>1 DEF SideInv, ObjectsInv, At
  <2>3. Has(prim, slot) <=> ~Has(ret, slot)
    BY DEF SideInv, MapInv, Has
  <2> HIDE DEF o
  (* A table that names the slot has its bucket found, the other none.     *)
  <2>4. ASSUME NEW t \in {prim, ret}
        PROVE  /\ ~Has(t, slot) => FindIn(t, o) = Absent
               /\ Has(t, slot) => /\ FindIn(t, o) \in Cells(t)
                                  /\ t.map[FindIn(t, o)] = slot
    <3>1. CASE FindIn(t, o) = Absent
               /\ \A a \in Cells(t) : Live(t.map[a]) => At(t.map[a]) # o
      <4>1. ~Has(t, slot)
        BY <3>1 DEF Has, Live, o
      <4> QED
        BY <3>1, <4>1
    <3>2. CASE /\ FindIn(t, o) \in Cells(t)
               /\ Live(t.map[FindIn(t, o)])
               /\ At(t.map[FindIn(t, o)]) = o
      BY <1>3, <2>2, <3>2 DEF Has
    <3> QED
      BY <1>2, <2>1, <3>1, <3>2
  <2>5. Cells(prim) \subseteq Nat /\ Cells(ret) \subseteq Nat
    BY <1>1 DEF Cells, TableInv, TableShape
  <2>6. CASE Has(prim, slot)
    <3>1. FindIn(prim, o) \in Nat /\ FindIn(ret, o) = Absent
          /\ prim.map[FindIn(prim, o)] = slot
      BY <2>3, <2>4, <2>5, <2>6
    <3>2. Find(o) = FindIn(prim, o)
      BY <1>1, <3>1 DEF Find, Absent, Corrupt
    <3>3. FindIn(prim, o) >= 0
      BY <3>1
    <3>4. Find(o) >= 0 /\ prim.map[Find(o)] = slot
      BY <3>1, <3>2, <3>3
    <3>5. (IF FindIn(prim, o) >= 0 THEN prim ELSE ret) = prim
      BY <3>3
    <3> QED
      BY <3>4, <3>5 DEF o
  <2>7. CASE ~Has(prim, slot)
    <3>1. FindIn(prim, o) = Absent /\ FindIn(ret, o) \in Nat
          /\ ret.map[FindIn(ret, o)] = slot
      BY <2>3, <2>4, <2>5, <2>7
    <3>2. Find(o) = FindIn(ret, o)
      BY <1>1, <3>1 DEF Find, Absent, Corrupt
    <3> QED
      BY <3>1, <3>2 DEF o, Absent
  <2> QED
    BY <2>6, <2>7
<1>5. ASSUME NEW t \in Threads, Trying(t)
      PROVE  Find(thr[t].obj) = Absent
  <2> DEFINE o == thr[t].obj
  <2>1. o \in Cores /\ home[o] \in Nat
    BY <1>5 DEF SideInv, ObjectsInv, Trying
  <2>2. \A slot \in 0 .. Len(dense) - 1 : At(slot) # o
    BY <1>1 DEF SideInv, ObjectsInv, At
  <2> HIDE DEF o
  <2>3. FindIn(prim, o) = Absent /\ FindIn(ret, o) = Absent
    BY <1>2, <1>3, <2>1, <2>2
  <2> QED
    BY <1>1, <2>3 DEF Find, Absent, Corrupt, o
<1> QED
  BY <1>4, <1>5 DEF LookupsExact

(***************************************************************************)
(* What the operations do to the map                                       *)
(***************************************************************************)
LEMMA MapSwaps ==
    ASSUME NEW p, NEW r, NEW e, NEW h, MapInv(p, r, e, h)
    PROVE  MapInv(r, p, e, h)
BY DEF MapInv, TableInv, TableShape, Has

LEMMA HomesNat ==
    ASSUME ObjectsInv
    PROVE  /\ Len(dense) \in Nat
           /\ \A i \in 1 .. Len(dense) : home[dense[i]] \in Nat
BY DEF ObjectsInv

(* A new object gets the slot after the last.                              *)
LEMMA Entered ==
    ASSUME ObjectsInv, NEW p, NEW r, MapInv(p, r, dense, home),
           NEW o \in Cores, \A i \in 1 .. Len(dense) : dense[i] # o,
           p.buckets # 0, FindIn(p, o) = Absent
    PROVE  LET u == InsertIn(p, o, Len(dense)) IN
           /\ MapInv(u, r, Append(dense, o), home)
           /\ u.buckets = p.buckets
<1> DEFINE e2 == Append(dense, o)
           slot == Len(dense)
           u == InsertIn(p, o, slot)
<1>1. /\ dense \in Seq(Cores) /\ slot \in Nat /\ home[o] \in Nat
      /\ \A i \in 1 .. slot : home[dense[i]] \in Nat
  BY HomesNat DEF ObjectsInv
<1>2. /\ Len(e2) = slot + 1 /\ e2[slot + 1] = o
      /\ \A i \in 1 .. slot : e2[i] = dense[i]
  BY <1>1
<1> HIDE DEF e2
<1>3. \A i \in 1 .. Len(e2) : home[e2[i]] \in Nat
  BY <1>1, <1>2
<1>4. /\ TableInv(p, dense, home) /\ TableInv(r, dense, home)
      /\ slot = p.live + r.live
      /\ p.live \in Int /\ r.live \in Int
  BY DEF MapInv, TableInv, TableShape
<1>5. TableInv(p, e2, home) /\ TableInv(r, e2, home)
  <2>1. Len(e2) \in Nat /\ Len(dense) <= Len(e2)
        /\ \A i \in 1 .. Len(dense) : home[e2[i]] = home[dense[i]]
    BY <1>1, <1>2
  <2> QED
    BY <1>1, <1>4, <2>1, TableFrame
<1>6. ~Has(p, slot) /\ ~Has(r, slot)
  BY <1>1, <1>4 DEF Has, TableInv, Live
<1>7. \E n \in Cells(p) : PathCode(p, o, n) = Empty
  BY <1>1, <1>4, FindInCases DEF Absent, Corrupt, Cells
<1>8. TableShape(p)
  BY <1>4 DEF TableInv
<1>9. PICK at \in Cells(p) :
         /\ TableShape(u) /\ u.buckets = p.buckets /\ u.live = p.live + 1
         /\ ~Live(p.map[at]) /\ Reaches(p, home[o], at)
         /\ u.map = [p.map EXCEPT ![at] = slot]
  BY SMTT(60), <1>1, <1>7, <1>8, Inserted
<1> HIDE DEF u
<1>10. /\ TableInv(u, e2, home)
       /\ \A code \in Nat : Has(u, code) <=> Has(p, code) \/ code = slot
  <2>1. slot < Len(e2) /\ Len(e2) \in Nat
        /\ Reaches(p, home[e2[slot + 1]], at)
    BY <1>1, <1>2, <1>9
  <2> HIDE DEF slot
  <2> QED
    BY ZenonT(120), <1>1, <1>3, <1>5, <1>6, <1>9, <2>1, Filled
<1>11. ASSUME NEW code \in 0 .. Len(e2) - 1
       PROVE  Has(u, code) # Has(r, code)
  <2>1. CASE code = slot
    BY <1>1, <1>6, <1>10, <2>1 DEF Has
  <2>2. CASE code # slot
    <3>1. code \in 0 .. Len(dense) - 1
      BY <1>1, <1>2, <2>2
    <3>2. Has(p, code) # Has(r, code)
      BY <3>1 DEF MapInv
    <3> QED
      BY <1>1, <1>10, <2>2, <3>1, <3>2 DEF Has
  <2> QED
    BY <2>1, <2>2
<1>12. Len(e2) = u.live + r.live
  BY <1>2, <1>4, <1>9
<1> QED
  BY <1>5, <1>9, <1>10, <1>11, <1>12 DEF MapInv, u, e2

(* An object moves from the retiring table to the primary one.             *)
LEMMA Moved ==
    ASSUME ObjectsInv, NEW p, NEW r, MapInv(p, r, dense, home),
           NEW at \in Cells(r), Live(r.map[at]),
           Insertable(p, At(r.map[at]))
    PROVE  LET u == InsertIn(p, At(r.map[at]), r.map[at])
               v == Tombstoned(r, at)
           IN  MapInv(u, v, dense, home) /\ u.buckets = p.buckets
<1> DEFINE code == r.map[at]
           o == At(code)
           u == InsertIn(p, o, code)
           v == Tombstoned(r, at)
<1>1. /\ TableInv(p, dense, home) /\ TableInv(r, dense, home)
      /\ Len(dense) = p.live + r.live
      /\ TableShape(p) /\ p.live \in Int /\ r.live \in Int
  BY DEF MapInv, TableInv, TableShape
<1>2. Len(dense) \in Nat /\ \A i \in 1 .. Len(dense) : home[dense[i]] \in Nat
  BY HomesNat
<1>3. code \in 0 .. Len(dense) - 1
  BY <1>1, <1>2 DEF TableInv, TableShape, Live, Codes
<1>4. home[o] \in Nat /\ o = dense[code + 1]
  BY <1>2, <1>3 DEF At
<1>5. Has(r, code) /\ ~Has(p, code)
  <2>1. Has(r, code)
    BY DEF Has
  <2> HIDE DEF code
  <2> QED
    BY <1>3, <2>1 DEF MapInv, Has
<1>6. /\ TableInv(v, dense, home) /\ v.live = r.live - 1
      /\ \A c \in Nat : Has(v, c) <=> Has(r, c) /\ c # code
  BY ZenonT(120), <1>1, <1>2, Emptied
<1>7. \E n \in Cells(p) : PathCode(p, o, n) = Empty
  BY DEF Insertable, Cells
<1> HIDE DEF o, code, v
<1>8. PICK b \in Cells(p) :
         /\ TableShape(u) /\ u.buckets = p.buckets /\ u.live = p.live + 1
         /\ ~Live(p.map[b]) /\ Reaches(p, home[o], b)
         /\ u.map = [p.map EXCEPT ![b] = code]
  <2>1. code \in Nat /\ home[o] \in Nat /\ TableShape(p)
    BY <1>1, <1>3, <1>4
  <2> QED
    BY <1>7, <2>1, Inserted
<1> HIDE DEF u
<1>9. /\ TableInv(u, dense, home)
      /\ \A c \in Nat : Has(u, c) <=> Has(p, c) \/ c = code
  <2>1. code \in Nat /\ code < Len(dense)
        /\ Reaches(p, home[dense[code + 1]], b)
    BY <1>2, <1>3, <1>4, <1>8
  <2> QED
    BY ZenonT(120), <1>1, <1>2, <1>5, <1>8, <2>1, Filled
<1>10. ASSUME NEW c \in 0 .. Len(dense) - 1
       PROVE  Has(u, c) # Has(v, c)
  <2>1. Has(p, c) # Has(r, c)
    BY DEF MapInv
  <2>2. /\ Has(u, c) <=> Has(p, c) \/ c = code
        /\ Has(v, c) <=> Has(r, c) /\ c # code
    BY <1>6, <1>9
  <2>3. Has(u, c) <=> ~Has(v, c)
    BY <1>5, <2>1, <2>2 DEF Has
  <2> QED
    BY <2>3 DEF Has
<1>11. Len(dense) = u.live + v.live
  BY <1>1, <1>6, <1>8
<1> QED
  BY <1>6, <1>8, <1>9, <1>10, <1>11 DEF MapInv, u, v, o, code

(* The array closes up: hole fills slot and the last object fills hole.    *)
EntsAfter(slot, hole) ==
    SubSeq([dense EXCEPT ![slot + 1] = At(hole),
                         ![hole + 1] = dense[Len(dense)]],
           1, Len(dense) - 1)
HomeAfter(slot) == [home EXCEPT ![At(slot)] = 0]

LEMMA ClosedArray ==
    ASSUME ObjectsInv, NEW slot \in Nat, NEW hole \in Nat,
           slot <= hole, hole < Len(dense)
    PROVE  LET last == Len(dense) - 1
               e2 == EntsAfter(slot, hole)
           IN  /\ e2 \in Seq(Cores) /\ Len(e2) = last
               /\ \A code \in 0 .. last - 1 :
                     e2[code + 1] = dense[Origin(code, slot, hole, last) + 1]
<1> DEFINE last == Len(dense) - 1
           s == [dense EXCEPT ![slot + 1] = At(hole),
                             ![hole + 1] = dense[Len(dense)]]
           e2 == SubSeq(s, 1, last)
<1>1. dense \in Seq(Cores) /\ last \in Nat /\ slot <= last /\ hole <= last
  BY HomesNat DEF ObjectsInv
<1>2. /\ s \in Seq(Cores) /\ Len(s) = last + 1
      /\ \A i \in 1 .. last + 1 :
            s[i] = IF i = hole + 1 THEN dense[last + 1]
                   ELSE IF i = slot + 1 THEN dense[hole + 1] ELSE dense[i]
  BY <1>1 DEF At
<1>3. last + 1 = Len(dense)
  BY <1>1
<1>4. e2 = SubSeq(s, 1, last)
  OBVIOUS
<1> HIDE DEF s, e2, last
<1>5. /\ e2 \in Seq(Cores) /\ Len(e2) = last
      /\ \A i \in 1 .. last : e2[i] = s[i]
  BY <1>1, <1>2, <1>4
<1>6. ASSUME NEW code \in 0 .. last - 1
      PROVE  e2[code + 1] = dense[Origin(code, slot, hole, last) + 1]
  <2>1. code + 1 \in 1 .. last
    BY <1>1
  <2>2. CASE code = hole
    BY <1>1, <1>2, <1>5, <2>1, <2>2 DEF Origin
  <2>3. CASE code # hole
    BY <1>1, <1>2, <1>5, <2>1, <2>3 DEF Origin
  <2> QED
    BY <2>2, <2>3
<1> QED
  BY <1>5, <1>6 DEF last, s, e2, EntsAfter

(* An object leaves the map, the array closes up, and the codes of the     *)
(* objects that were moved are repaired in both tables.                    *)
LEMMA Removed ==
    ASSUME ObjectsInv, NEW p, NEW r, MapInv(p, r, dense, home),
           NEW slot \in Nat, NEW hole \in Nat,
           slot <= hole, hole < Len(dense),
           NEW at \in Cells(p), p.map[at] = slot
    PROVE  LET e2 == EntsAfter(slot, hole)
               h2 == HomeAfter(slot)
               u == Recode(Tombstoned(p, at), slot, hole)
               v == Recode(r, slot, hole)
           IN  /\ MapInv(u, v, e2, h2)
               /\ u.buckets = p.buckets /\ v.buckets = r.buckets
               /\ \A a \in Cells(p) : Live(u.map[a]) => Live(p.map[a])
               /\ \A a \in Cells(r) : Live(v.map[a]) => Live(r.map[a])
<1> DEFINE last == Len(dense) - 1
           e2 == EntsAfter(slot, hole)
           h2 == HomeAfter(slot)
           q == Tombstoned(p, at)
           u == Recode(q, slot, hole)
           v == Recode(r, slot, hole)
           from(code) == Origin(code, slot, hole, last)
<1>1. /\ Len(dense) \in Nat
      /\ \A i \in 1 .. Len(dense) : home[dense[i]] \in Nat
      /\ dense \in Seq(Cores) /\ last \in Nat /\ slot <= last /\ hole <= last
      /\ home \in [Cores -> Nat]
      /\ \A i, j \in 1 .. Len(dense) : dense[i] = dense[j] => i = j
  BY HomesNat DEF ObjectsInv
<1>2. /\ Len(e2) = last
      /\ \A code \in 0 .. last - 1 : e2[code + 1] = dense[from(code) + 1]
  BY ClosedArray
<1> HIDE DEF e2
<1>3. \A code \in 0 .. last - 1 :
         from(code) \in 0 .. last /\ from(code) # slot
  BY <1>1 DEF Origin
<1>4. ClosedUp(slot, hole, e2, h2)
  <2>1. ASSUME NEW code \in 0 .. Len(e2) - 1
        PROVE  h2[e2[code + 1]] = home[dense[from(code) + 1]]
    <3>1. from(code) \in 0 .. last /\ from(code) # slot
          /\ e2[code + 1] = dense[from(code) + 1]
      BY <1>2, <1>3
    <3> HIDE DEF from
    <3>2. from(code) + 1 \in 1 .. Len(dense) /\ slot + 1 \in 1 .. Len(dense)
          /\ from(code) + 1 # slot + 1
      BY SMTT(60), <1>1, <3>1
    <3>3. dense[from(code) + 1] \in Cores
          /\ dense[from(code) + 1] # At(slot)
      BY <1>1, <3>2 DEF At
    <3> QED
      BY <1>1, <3>1, <3>3 DEF HomeAfter
  <2> QED
    BY <1>1, <1>2, <2>1 DEF ClosedUp
<1> HIDE DEF h2, last
<1>5. /\ TableInv(p, dense, home) /\ TableInv(r, dense, home)
      /\ Len(dense) = p.live + r.live
      /\ p.live \in Int /\ r.live \in Int /\ p.buckets = q.buckets
  BY DEF MapInv, TableInv, TableShape, Tombstoned
<1>6. /\ TableInv(q, dense, home)
      /\ q.live = p.live - 1 /\ q.buckets = p.buckets
      /\ q.map = [p.map EXCEPT ![at] = Tombstone]
      /\ \A code \in Nat : Has(q, code) <=> Has(p, code) /\ code # slot
  <2>1. Live(p.map[at])
    BY DEF Live
  <2> QED
    BY ZenonT(120), <1>1, <1>5, <2>1, Emptied
<1> HIDE DEF q
<1>7. ~Has(q, slot) /\ ~Has(r, slot)
  <2>1. slot \in 0 .. Len(dense) - 1 /\ Has(p, slot)
    BY <1>1 DEF last, Has
  <2> QED
    BY <1>6, <2>1 DEF MapInv, Has
<1>8. /\ TableInv(u, e2, h2)
      /\ u.live = q.live /\ u.buckets = q.buckets
      /\ \A a \in Cells(q) : Live(u.map[a]) <=> Live(q.map[a])
      /\ \A code \in 0 .. Len(e2) - 1 : Has(u, code) <=> Has(q, from(code))
  <2>1. TableInv(q, dense, home)
    BY <1>6
  <2> QED
    BY <1>4, <1>7, <2>1, Recoded DEF last
<1>9. /\ TableInv(v, e2, h2)
      /\ v.live = r.live /\ v.buckets = r.buckets
      /\ \A a \in Cells(r) : Live(v.map[a]) <=> Live(r.map[a])
      /\ \A code \in 0 .. Len(e2) - 1 : Has(v, code) <=> Has(r, from(code))
  BY <1>4, <1>5, <1>7, Recoded DEF last
<1> HIDE DEF u, v
<1>10. ASSUME NEW code \in 0 .. Len(e2) - 1
       PROVE  Has(u, code) # Has(v, code)
  <2>1. from(code) \in 0 .. Len(dense) - 1 /\ from(code) # slot
    BY <1>2, <1>3 DEF last
  <2> HIDE DEF from
  <2>2. Has(p, from(code)) # Has(r, from(code))
    BY <2>1 DEF MapInv
  <2>3. Has(q, from(code)) <=> Has(p, from(code))
    BY <1>6, <2>1
  <2>4. Has(u, code) <=> Has(p, from(code))
    BY <1>8, <2>3
  <2>5. Has(v, code) <=> Has(r, from(code))
    BY <1>9
  <2> QED
    BY <2>2, <2>4, <2>5 DEF Has
<1>11. Len(e2) = u.live + v.live
  BY <1>1, <1>2, <1>5, <1>6, <1>8, <1>9 DEF last
<1>12. \A a \in Cells(p) : Live(u.map[a]) => Live(p.map[a])
  <2> SUFFICES ASSUME NEW a \in Cells(p), Live(u.map[a])
               PROVE  Live(p.map[a])
    OBVIOUS
  <2>1. Live(q.map[a])
    BY <1>6, <1>8 DEF Cells
  <2> QED
    BY <1>5, <1>6, <2>1 DEF Live, Tombstone, TableInv, TableShape
<1> QED
  BY <1>6, <1>8, <1>9, <1>10, <1>11, <1>12 DEF MapInv, u, v, q, e2, h2

(***************************************************************************)
(* Steps that change tables only                                           *)
(***************************************************************************)
TablesKept == MapInv(prim', ret', dense, home) /\ MigrationInv'

LEMMA Published ==
    ASSUME SideInv, ~mig.active, NEW n \in Nat \ {0},
           NEW reason \in {"none", "grow", "rebuild", "shrink"},
           Publish(n, reason)
    PROVE  TablesKept
<1>1. /\ MapInv(prim, ret, dense, home) /\ ret.buckets = 0
      /\ prim.buckets \in Nat /\ Len(dense) \in Nat
  BY HomesNat DEF SideInv, MigrationInv, MapInv, TableInv, TableShape
<1>2. /\ TableInv(NewTable(n), dense, home)
      /\ NewTable(n).buckets = n /\ NewTable(n).live = 0
      /\ \A code \in Nat : ~Has(NewTable(n), code)
  BY NewTableInv
<1>3. \A code : ~Has(ret, code)
  BY <1>1 DEF Has, Cells
<1>4. MapInv(NewTable(n), prim, dense, home)
  <2>1. \A code \in 0 .. Len(dense) - 1 :
           Has(NewTable(n), code) # Has(prim, code)
    <3> SUFFICES ASSUME NEW code \in 0 .. Len(dense) - 1
                 PROVE  Has(NewTable(n), code) # Has(prim, code)
      OBVIOUS
    <3>1. Has(prim, code)
      BY <1>1, <1>3 DEF MapInv, Has
    <3>2. ~Has(NewTable(n), code)
      BY <1>2
    <3> QED
      BY <3>1, <3>2 DEF Has
  <2>2. Len(dense) = NewTable(n).live + prim.live
    BY <1>1, <1>2 DEF MapInv, TableInv, TableShape
  <2> QED
    BY <1>1, <1>2, <2>1, <2>2 DEF MapInv
<1>5. /\ prim' = NewTable(n) /\ ret' = prim
      /\ mig' = IF prim.buckets = 0 THEN NoMigration
                ELSE [active |-> TRUE, reason |-> reason, auto |-> TRUE,
                      cursor |-> 0]
  BY DEF Publish
<1>6. MigrationInv'
  BY <1>1, <1>2, <1>5 DEF MigrationInv, NoMigration
<1> QED
  BY <1>4, <1>5, <1>6 DEF TablesKept

LEMMA Migrating ==
    ASSUME SideInv, Migrate
    PROVE  TablesKept
<1> DEFINE p == IF Live(Code) THEN InsertIn(prim, At(Code), Code) ELSE prim
           r == IF Live(Code) THEN Tombstoned(ret, mig.cursor) ELSE ret
<1>1. /\ ObjectsInv /\ MapInv(prim, ret, dense, home) /\ MigrationInv
      /\ mig.active /\ prim.buckets # 0 /\ mig.cursor \in Cells(ret)
      /\ mig.cursor \in Nat /\ prim.buckets \in Nat /\ ret.buckets \in Nat
  BY DEF SideInv, MigrationInv, Migrate, MapInv, TableInv, TableShape, Cells
<1>2. CASE ~Movable
  <2>1. UNCHANGED <<prim, ret>> /\ mig' = [mig EXCEPT !.auto = FALSE]
    BY <1>2 DEF Migrate, MigrationFailed
  <2>2. MigrationInv'
    BY <1>1, <2>1 DEF MigrationInv
  <2> QED
    BY <1>1, <2>1, <2>2 DEF TablesKept
<1>3. CASE Movable
  <2>1. Migrated
    BY <1>3 DEF Migrate
  <2>2. /\ MapInv(p, r, dense, home)
        /\ p.buckets = prim.buckets /\ r.buckets = ret.buckets
        /\ \A at \in 0 .. mig.cursor : ~Live(r.map[at])
    <3>1. CASE Live(Code)
      <4>1. p = InsertIn(prim, At(Code), Code)
            /\ r = Tombstoned(ret, mig.cursor)
        BY <3>1
      <4> HIDE DEF p, r
      <4>2. MapInv(p, r, dense, home) /\ p.buckets = prim.buckets
        <5>1. Insertable(prim, At(Code))
          BY <1>3, <3>1 DEF Movable
        <5> QED
          BY <1>1, <3>1, <4>1, <5>1, Moved DEF Code
      <4>3. r.buckets = ret.buckets
            /\ r.map = [ret.map EXCEPT ![mig.cursor] = Tombstone]
        <5>1. TableInv(ret, dense, home)
          BY <1>1 DEF MapInv
        <5> QED
          BY <1>1, <3>1, <4>1, <5>1, HomesNat, Emptied DEF Code
      <4>4. ASSUME NEW at \in 0 .. mig.cursor PROVE ~Live(r.map[at])
        <5>1. at \in Cells(ret) /\ ret.map \in [Cells(ret) -> Codes]
          BY <1>1 DEF Cells, MapInv, TableInv, TableShape
        <5>2. CASE at = mig.cursor
          BY <4>3, <5>1, <5>2 DEF Live, Tombstone
        <5>3. CASE at # mig.cursor
          <6>1. at \in 0 .. mig.cursor - 1 /\ r.map[at] = ret.map[at]
            BY <1>1, <4>3, <5>1, <5>3
          <6> QED
            BY <1>1, <6>1 DEF MigrationInv
        <5> QED
          BY <5>2, <5>3
      <4> QED
        BY <4>2, <4>3, <4>4
    <3>2. CASE ~Live(Code)
      <4>1. p = prim /\ r = ret
        BY <3>2
      <4> HIDE DEF p, r
      <4>2. ASSUME NEW at \in 0 .. mig.cursor PROVE ~Live(r.map[at])
        <5>1. at = mig.cursor \/ at \in 0 .. mig.cursor - 1
          BY <1>1
        <5> QED
          BY <1>1, <3>2, <4>1, <5>1 DEF MigrationInv, Code
      <4> QED
        BY <1>1, <4>1, <4>2
    <3> QED
      BY <3>1, <3>2
  <2>3. LET done == mig.cursor + 1 = ret.buckets IN
        /\ prim' = p
        /\ done => r.live = 0
        /\ ret' = IF done THEN NoTable ELSE r
        /\ mig' = IF done THEN NoMigration ELSE [mig EXCEPT !.cursor = @ + 1]
    BY <2>1 DEF Migrated
  <2> HIDE DEF p, r
  <2>4. CASE mig.cursor + 1 = ret.buckets
    <3>1. /\ TableInv(NoTable, dense, home)
          /\ NoTable.buckets = 0 /\ NoTable.live = 0
          /\ \A code \in Nat : ~Has(NoTable, code)
      BY NewTableInv DEF NoTable
    <3>2. Cells(r) = 0 .. mig.cursor
      BY <1>1, <2>2, <2>4 DEF Cells
    <3>3. \A code \in Nat : ~Has(r, code)
      BY <2>2, <3>2 DEF Has, Live
    <3>4. ASSUME NEW code \in 0 .. Len(dense) - 1
          PROVE  Has(p, code) # Has(NoTable, code)
      <4>1. code \in Nat /\ ~Has(r, code) /\ ~Has(NoTable, code)
        BY <3>1, <3>3
      <4>2. Has(p, code) # Has(r, code)
        BY <2>2 DEF MapInv
      <4>3. Has(p, code) \in BOOLEAN /\ Has(r, code) \in BOOLEAN
            /\ Has(NoTable, code) \in BOOLEAN
        BY DEF Has
      <4> HIDE DEF Has
      <4> QED
        BY <4>1, <4>2, <4>3
    <3>5. MapInv(p, NoTable, dense, home)
      <4>1. TableInv(p, dense, home) /\ Len(dense) = p.live + r.live
            /\ p.live \in Int /\ r.live = 0
        BY <2>2, <2>3, <2>4 DEF MapInv, TableInv, TableShape
      <4> QED
        BY <3>1, <3>4, <4>1 DEF MapInv
    <3>6. prim' = p /\ ret' = NoTable /\ mig' = NoMigration
      BY <2>3, <2>4
    <3>7. MigrationInv'
      BY <3>1, <3>6 DEF MigrationInv, NoMigration
    <3> QED
      BY <3>5, <3>6, <3>7 DEF TablesKept
  <2>5. CASE mig.cursor + 1 # ret.buckets
    <3>1. prim' = p /\ ret' = r /\ mig' = [mig EXCEPT !.cursor = @ + 1]
      BY <2>3, <2>5
    <3>2. mig.cursor + 1 < ret.buckets
      BY <1>1, <2>5 DEF Cells
    <3>3. /\ mig'.active = mig.active /\ mig'.cursor = mig.cursor + 1
          /\ mig' \in [active : BOOLEAN, auto : BOOLEAN, cursor : Nat,
                       reason : {"none", "grow", "rebuild", "shrink",
                                 "rollback"}]
      <4>1. mig \in [active : BOOLEAN, auto : BOOLEAN, cursor : Nat,
                      reason : {"none", "grow", "rebuild", "shrink",
                                "rollback"}]
        BY <1>1 DEF MigrationInv
      <4>2. mig' = [active |-> mig.active, reason |-> mig.reason,
                    auto |-> mig.auto, cursor |-> mig.cursor + 1]
        BY <3>1, <4>1
      <4> QED
        BY <1>1, <4>1, <4>2
    <3>4. \A at \in 0 .. mig'.cursor - 1 : ~Live(ret'.map[at])
      BY <1>1, <2>2, <3>1, <3>3
    <3>5. prim'.buckets # 0 /\ mig'.cursor < ret'.buckets
      BY <1>1, <2>2, <3>1, <3>2, <3>3
    <3>6. MigrationInv'
      BY <1>1, <3>3, <3>4, <3>5 DEF MigrationInv, Live
    <3> QED
      BY <2>2, <3>1, <3>6 DEF TablesKept
  <2> QED
    BY <2>4, <2>5
<1> QED
  BY <1>2, <1>3

(* A shrink is taken back: the tables change places.                       *)
LEMMA Reversed ==
    ASSUME SideInv, mig.active, prim' = ret, ret' = prim, RolledBack
    PROVE  TablesKept
<1>1. MapInv(ret, prim, dense, home)
  BY MapSwaps DEF SideInv
<1>2. prim.buckets \in Nat /\ ret.buckets \in Nat
  BY DEF SideInv, MapInv, TableInv, TableShape
<1>3. MigrationInv'
  <2>1. mig \in [active : BOOLEAN, auto : BOOLEAN, cursor : Nat,
                  reason : {"none", "grow", "rebuild", "shrink", "rollback"}]
        /\ prim.buckets # 0 /\ mig.cursor < ret.buckets /\ mig.cursor \in Nat
    BY DEF SideInv, MigrationInv
  <2>2. mig' = [active |-> TRUE, reason |-> "rollback", auto |-> TRUE,
                cursor |-> 0]
    BY <2>1 DEF RolledBack
  <2>3. prim'.buckets # 0 /\ 0 < ret'.buckets
    BY <1>2, <2>1
  <2> QED
    BY <2>2, <2>3 DEF MigrationInv
<1> QED
  BY <1>1, <1>3 DEF TablesKept

LEMMA Dropped ==
    ASSUME SideInv, DropTables
    PROVE  TablesKept
<1>1. TableInv(NoTable, dense, home) /\ NoTable.buckets = 0 /\ NoTable.live = 0
  BY NewTableInv DEF NoTable
<1>2. Len(dense) = 0
  BY DEF DropTables
<1>3. MapInv(NoTable, NoTable, dense, home)
  BY <1>1, <1>2 DEF MapInv
<1>4. prim' = NoTable /\ ret' = NoTable /\ mig' = NoMigration
  BY DEF DropTables
<1>5. MigrationInv'
  BY <1>1, <1>4 DEF MigrationInv, NoMigration
<1> QED
  BY <1>3, <1>4, <1>5 DEF TablesKept

LEMMA LowWaterNat == LowWaterTarget \in Nat \ {0}
<1> DEFINE fits == {n \in Sizes : Len(dense) <= n \div 4}
<1>1. Sizes \subseteq Nat \ {0}
  BY BucketsNat DEF Sizes
<1>2. CASE fits = {}
  BY <1>2, BucketsNat DEF LowWaterTarget
<1>3. CASE fits # {}
  <2>1. fits \in SUBSET Nat
    BY <1>1
  <2>2. Least(fits) \in fits
    BY <1>3, <2>1, LeastIn
  <2>3. LowWaterTarget = Least(fits)
    BY <1>3 DEF LowWaterTarget
  <2>4. Least(fits) \in Sizes
    BY <2>2
  <2> HIDE DEF fits
  <2> QED
    BY <1>1, <2>3, <2>4
<1> QED
  BY <1>2, <1>3

LEMMA Resized ==
    ASSUME SideInv, SoftResize \/ Shrink \/ DropTables
    PROVE  TablesKept
<1>1. prim.buckets \in Nat
  BY DEF SideInv, MapInv, TableInv, TableShape
<1>2. CASE SoftRebuild /\ Publish(prim.buckets, "rebuild")
  <2>1. ~mig.active /\ prim.buckets \in Nat \ {0}
    BY <1>1, <1>2 DEF SoftRebuild
  <2> QED
    BY <1>2, <2>1, Published
<1>3. CASE SoftGrow /\ Publish(2 * prim.buckets, "grow")
  <2>1. ~mig.active /\ 2 * prim.buckets \in Nat \ {0}
    BY <1>1, <1>3 DEF SoftGrow
  <2> QED
    BY <1>3, <2>1, Published
<1>4. CASE Shrink
  <2>1. ~mig.active /\ Publish(LowWaterTarget, "shrink")
    BY <1>4 DEF Shrink
  <2> QED
    BY <2>1, LowWaterNat, Published
<1> QED
  BY <1>2, <1>3, <1>4, Dropped DEF SoftResize

(***************************************************************************)
(* The steps                                                               *)
(***************************************************************************)
Records == [pc : {"idle", "try", "alloc", "busy", "publish",
                  "EFAULT", "EBUSY", "ENOMEM", "EOVERFLOW"},
            obj : Cores \cup {Nobody},
            buckets : Nat,
            reason : {"none", "grow", "rebuild"}]

LEMMA InvInit == SideInit => SideInv
<1> SUFFICES ASSUME SideInit PROVE SideInv
  OBVIOUS
<1>1. /\ dense = <<>> /\ home = [o \in Cores |-> 0]
      /\ prim = NoTable /\ ret = NoTable /\ mig = NoMigration
      /\ thr = [t \in Threads |-> Idle]
  BY DEF SideInit
<1>2. /\ TableInv(NoTable, dense, home) /\ NoTable.live = 0
      /\ NoTable.buckets = 0
  BY NewTableInv DEF NoTable
<1>3. Len(dense) = 0
  BY <1>1
<1>4. ObjectsInv
  BY <1>1 DEF ObjectsInv, Idle, Nobody
<1>5. MapInv(prim, ret, dense, home)
  BY <1>1, <1>2, <1>3 DEF MapInv
<1>6. MigrationInv
  BY <1>1, <1>2 DEF MigrationInv, NoMigration
<1> QED
  BY <1>4, <1>5, <1>6 DEF SideInv

(* A thread moves on with the object it has, or gives it up.               *)
LEMMA ThreadSteps ==
    ASSUME ObjectsInv, UNCHANGED dense, home' \in [Cores -> Nat],
           NEW t \in Threads, NEW rec \in Records,
           rec.obj \in {thr[t].obj, Nobody},
           rec.pc \in {"try", "alloc", "busy", "publish"} => rec.obj # Nobody,
           rec.pc = "alloc" => rec.buckets # 0,
           thr' = [thr EXCEPT ![t] = rec]
    PROVE  ObjectsInv'
<1>1. /\ thr \in [Threads -> Records] /\ dense \in Seq(Cores)
      /\ \A i \in 1 .. Len(dense) : dense[i] # Nobody
  BY NobodyIsNoObject DEF ObjectsInv, Records, Nobody
<1>2. /\ thr' \in [Threads -> Records] /\ thr'[t] = rec
      /\ \A u \in Threads \ {t} : thr'[u] = thr[u]
  BY <1>1
<1>3. ASSUME NEW u \in Threads
      PROVE  /\ thr'[u].pc \in {"try", "alloc", "busy", "publish"} =>
                   thr'[u].obj # Nobody
             /\ thr'[u].pc = "alloc" => thr'[u].buckets # 0
             /\ \A i \in 1 .. Len(dense) : thr'[u].obj # dense[i]
             /\ \A w \in Threads \ {u} :
                   thr'[u].obj = thr'[w].obj => thr'[u].obj = Nobody
  <2>1. CASE u = t
    BY <1>1, <1>2, <2>1 DEF ObjectsInv
  <2>2. CASE u # t
    BY <1>1, <1>2, <2>2 DEF ObjectsInv
  <2> QED
    BY <2>1, <2>2
<1> QED
  BY <1>1, <1>2, <1>3 DEF ObjectsInv, Records

LEMMA Goes ==
    ASSUME ObjectsInv, NEW t \in Threads,
           NEW pc \in {"try", "busy", "publish"}, thr[t].obj # Nobody,
           Goto(t, pc), UNCHANGED <<dense, home>>
    PROVE  ObjectsInv'
<1> DEFINE rec == [thr[t] EXCEPT !.pc = pc]
<1>1. thr \in [Threads -> Records] /\ home' \in [Cores -> Nat]
  BY DEF ObjectsInv, Records
<1>2. rec \in Records /\ rec.pc = pc /\ rec.obj = thr[t].obj
  BY <1>1 DEF Records
<1>3. thr' = [thr EXCEPT ![t] = rec]
  BY DEF Goto
<1> HIDE DEF rec
<1> QED
  BY <1>1, <1>2, <1>3, ThreadSteps

(* The hash of an object that is not in the array does not matter.         *)
LEMMA Rehashed ==
    ASSUME SideInv, UNCHANGED <<dense, tableVars>>,
           \A i \in 1 .. Len(dense) : home'[dense[i]] = home[dense[i]]
    PROVE  MapInv(prim, ret, dense, home') /\ MigrationInv'
<1>1. Len(dense) \in Nat /\ TableInv(prim, dense, home)
      /\ TableInv(ret, dense, home)
  BY HomesNat DEF SideInv, MapInv
<1>2. TableInv(prim, dense, home') /\ TableInv(ret, dense, home')
  BY <1>1, TableFrame
<1>3. MigrationInv'
  BY DEF SideInv, MigrationInv, tableVars
<1> QED
  BY <1>2, <1>3 DEF SideInv, MapInv

LEMMA SideInvNext ==
    ASSUME ObjectsInv', MapInv(prim', ret', dense', home'), MigrationInv'
    PROVE  SideInv'
BY DEF SideInv, MapInv, TableInv, TableShape, Has, Reaches, Cells, Live, Empty,
       Codes

LEMMA Refused ==
    ASSUME SideInv, NEW t \in Threads, thr[t].obj # Nobody,
           NEW error \in {"EFAULT", "EBUSY", "ENOMEM", "EOVERFLOW"},
           Refuse(t, error), UNCHANGED <<dense, tableVars>>
    PROVE  SideInv'
<1> DEFINE rec == [Idle EXCEPT !.pc = error]
<1>1. /\ thr \in [Threads -> Records] /\ home \in [Cores -> Nat]
      /\ ObjectsInv
      /\ \A i \in 1 .. Len(dense) : thr[t].obj # dense[i]
  BY DEF SideInv, ObjectsInv, Records
<1>2. rec \in Records /\ rec.pc = error /\ rec.obj = Nobody
  BY DEF Records, Idle
<1>3. thr' = [thr EXCEPT ![t] = rec]
      /\ home' = [home EXCEPT ![thr[t].obj] = 0]
  BY DEF Refuse
<1> HIDE DEF rec
<1>4. ObjectsInv'
  <2>1. home' \in [Cores -> Nat]
    BY <1>1, <1>3
  <2> QED
    BY <1>1, <1>2, <1>3, <2>1, ThreadSteps
<1>5. \A i \in 1 .. Len(dense) : home'[dense[i]] = home[dense[i]]
  <2>1. \A i \in 1 .. Len(dense) : dense[i] \in Cores
    BY <1>1 DEF ObjectsInv
  <2> QED
    BY <1>1, <1>3, <2>1
<1>6. MapInv(prim, ret, dense, home') /\ MigrationInv'
  BY <1>5, Rehashed
<1> QED
  BY <1>4, <1>6, SideInvNext DEF tableVars

LEMMA BeginStep ==
    ASSUME SideInv, NEW t \in Threads, Begin(t)
    PROVE  SideInv'
<1>1. PICK o \in Cores \ InUse, h \in HomeRange :
         /\ home' = [home EXCEPT ![o] = h]
         /\ thr' = [thr EXCEPT ![t] = [Idle EXCEPT !.pc = "try", !.obj = o]]
  BY DEF Begin
<1>2. /\ UNCHANGED <<dense, tableVars>> /\ h \in Nat
      /\ \A i \in 1 .. Len(dense) : dense[i] # o
      /\ \A u \in Threads : thr[u].obj # o
      /\ o # Nobody
  BY HomesAreNaturals, NobodyIsNoObject DEF Begin, InUse, Nobody
<1>3. /\ dense \in Seq(Cores) /\ home \in [Cores -> Nat]
      /\ thr \in [Threads -> Records]
  BY DEF SideInv, ObjectsInv, Records
<1> DEFINE rec == [Idle EXCEPT !.pc = "try", !.obj = o]
<1>4. rec \in Records /\ rec.pc = "try" /\ rec.obj = o
  BY DEF Idle, Records
<1> HIDE DEF rec
<1>5. /\ thr' \in [Threads -> Records] /\ thr'[t] = rec
      /\ \A u \in Threads \ {t} : thr'[u] = thr[u]
  BY <1>1, <1>3, <1>4 DEF rec
<1>6. home' \in [Cores -> Nat]
      /\ \A i \in 1 .. Len(dense) : home'[dense[i]] = home[dense[i]]
  <2>1. \A i \in 1 .. Len(dense) : dense[i] \in Cores
    BY <1>3
  <2> QED
    BY <1>1, <1>2, <1>3, <2>1
<1>7. ObjectsInv'
  <2>1. ASSUME NEW u \in Threads
        PROVE  /\ thr'[u].pc \in {"try", "alloc", "busy", "publish"} =>
                     thr'[u].obj # Nobody
               /\ thr'[u].pc = "alloc" => thr'[u].buckets # 0
               /\ \A i \in 1 .. Len(dense) : thr'[u].obj # dense[i]
               /\ \A w \in Threads \ {u} :
                     thr'[u].obj = thr'[w].obj => thr'[u].obj = Nobody
    <3>1. CASE u = t
      BY <1>2, <1>4, <1>5, <3>1
    <3>2. CASE u # t
      <4>1. thr'[u] = thr[u] /\ dense' = dense
        BY <1>2, <1>5, <3>2
      <4>2. /\ thr[u].pc \in {"try", "alloc", "busy", "publish"} =>
                 thr[u].obj # Nobody
            /\ thr[u].pc = "alloc" => thr[u].buckets # 0
            /\ \A i \in 1 .. Len(dense) : thr[u].obj # dense[i]
            /\ \A w \in Threads \ {u} :
                  thr[u].obj = thr[w].obj => thr[u].obj = Nobody
        BY DEF SideInv, ObjectsInv
      <4>3. ASSUME NEW w \in Threads \ {u}
            PROVE  thr'[u].obj = thr'[w].obj => thr'[u].obj = Nobody
        <5>1. CASE w = t
          <6>1. thr'[w].obj = o /\ thr[u].obj # o
            BY <1>2, <1>4, <1>5, <5>1
          <6> QED
            BY <4>1, <6>1
        <5>2. CASE w # t
          BY <1>5, <4>1, <4>2, <5>2
        <5> QED
          BY <5>1, <5>2
      <4> QED
        BY <4>1, <4>2, <4>3
    <3> QED
      BY <3>1, <3>2
  <2> QED
    BY <1>2, <1>3, <1>5, <1>6, <2>1 DEF SideInv, ObjectsInv, Records
<1>8. MapInv(prim, ret, dense, home') /\ MigrationInv'
  BY <1>2, <1>6, Rehashed
<1> QED
  BY <1>2, <1>7, <1>8, SideInvNext DEF tableVars

(* A step of the tables alone, by the worker or by a thread that goes on.  *)
LEMMA TablesOnly ==
    ASSUME ObjectsInv', TablesKept, UNCHANGED <<dense, home>>
    PROVE  SideInv'
<1>1. MapInv(prim', ret', dense', home')
  BY DEF TablesKept
<1> QED
  BY <1>1, SideInvNext DEF TablesKept

LEMMA ThreadGoes ==
    ASSUME SideInv, NEW t \in Threads,
           NEW pc \in {"try", "busy", "publish"}, thr[t].obj # Nobody,
           Goto(t, pc), UNCHANGED <<dense, home>>,
           TablesKept \/ UNCHANGED tableVars
    PROVE  SideInv'
<1>1. ObjectsInv'
  BY Goes DEF SideInv
<1>2. CASE UNCHANGED tableVars
  <2>1. prim' = prim /\ ret' = ret /\ mig' = mig
    BY <1>2 DEF tableVars
  <2>2. MigrationInv'
    BY <2>1 DEF SideInv, MigrationInv
  <2>3. MapInv(prim', ret', dense, home)
    BY <2>1 DEF SideInv
  <2>4. TablesKept
    BY <2>2, <2>3 DEF TablesKept
  <2> QED
    BY <1>1, <2>4, TablesOnly
<1>3. CASE TablesKept
  BY <1>1, <1>3, TablesOnly
<1> QED
  BY <1>2, <1>3

(* The table is one of the two, and stays or becomes the primary one.      *)
LEMMA Enters ==
    ASSUME SideInv, NEW t \in Threads, Trying(t),
           NEW p, NEW r, MapInv(p, r, dense, home), p.buckets # 0,
           FindIn(p, thr[t].obj) = Absent, EnterIn(t, p), ret' = r
    PROVE  /\ ObjectsInv' /\ MapInv(prim', ret', dense', home')
           /\ prim'.buckets = p.buckets
<1> DEFINE o == thr[t].obj
<1>1. /\ thr \in [Threads -> Records] /\ dense \in Seq(Cores)
      /\ o \in Cores /\ o # Nobody
      /\ \A i \in 1 .. Len(dense) : dense[i] # o
      /\ \A u \in Threads \ {t} : thr[u].obj # o
  BY DEF SideInv, ObjectsInv, Records, Trying
<1>2. /\ dense' = Append(dense, o) /\ home' = home
      /\ prim' = InsertIn(p, o, Len(dense))
      /\ thr' = [thr EXCEPT ![t] = Idle]
  BY DEF EnterIn
<1> HIDE DEF o
<1>3. /\ Idle \in Records /\ Idle.obj = Nobody /\ Idle.pc = "idle"
  BY DEF Idle, Records
<1>4. /\ thr' \in [Threads -> Records] /\ thr'[t] = Idle
      /\ \A u \in Threads \ {t} : thr'[u] = thr[u]
  BY <1>1, <1>2, <1>3
<1>5. /\ Len(dense') = Len(dense) + 1 /\ dense'[Len(dense) + 1] = o
      /\ \A i \in 1 .. Len(dense) : dense'[i] = dense[i]
      /\ dense' \in Seq(Cores) /\ Len(dense) \in Nat
  BY <1>1, <1>2
<1>5a. \A i \in 1 .. Len(dense') :
         i = Len(dense) + 1 \/ i \in 1 .. Len(dense)
  BY <1>5
<1>5b. \A i \in 1 .. Len(dense) : dense'[i] # o
  BY <1>1, <1>5
<1>5c. \A i, j \in 1 .. Len(dense) : dense[i] = dense[j] => i = j
  BY DEF SideInv, ObjectsInv
<1>6. \A i, j \in 1 .. Len(dense') : dense'[i] = dense'[j] => i = j
  <2> SUFFICES ASSUME NEW i \in 1 .. Len(dense'), NEW j \in 1 .. Len(dense'),
                      dense'[i] = dense'[j]
               PROVE  i = j
    OBVIOUS
  <2>1. CASE i = Len(dense) + 1 \/ j = Len(dense) + 1
    BY <1>5, <1>5a, <1>5b, <2>1
  <2>2. CASE i # Len(dense) + 1 /\ j # Len(dense) + 1
    BY <1>5, <1>5a, <1>5c, <2>2
  <2> QED
    BY <2>1, <2>2
<1>7. ASSUME NEW u \in Threads
      PROVE  /\ thr'[u].pc \in {"try", "alloc", "busy", "publish"} =>
                   thr'[u].obj # Nobody
             /\ thr'[u].pc = "alloc" => thr'[u].buckets # 0
             /\ \A i \in 1 .. Len(dense') : thr'[u].obj # dense'[i]
             /\ \A w \in Threads \ {u} :
                   thr'[u].obj = thr'[w].obj => thr'[u].obj = Nobody
  <2>1. CASE u = t
    <3>1. \A i \in 1 .. Len(dense') : dense'[i] \in Cores
      BY <1>5
    <3> QED
      BY <1>3, <1>4, <2>1, <3>1, NobodyIsNoObject DEF Nobody
  <2>2. CASE u # t
    <3>1. thr'[u] = thr[u] /\ thr[u].obj # o
      BY <1>1, <1>4, <2>2
    <3>2. ASSUME NEW i \in 1 .. Len(dense') PROVE thr'[u].obj # dense'[i]
      <4>1. CASE i = Len(dense) + 1
        BY <1>5, <3>1, <4>1
      <4>2. CASE i # Len(dense) + 1
        BY <1>5, <1>5a, <3>1, <4>2 DEF SideInv, ObjectsInv
      <4> QED
        BY <4>1, <4>2
    <3>3. ASSUME NEW w \in Threads \ {u}, thr'[u].obj = thr'[w].obj
          PROVE  thr'[u].obj = Nobody
      <4>1. CASE w = t
        BY <1>3, <1>4, <3>3, <4>1
      <4>2. CASE w # t
        BY <1>4, <3>1, <3>3, <4>2 DEF SideInv, ObjectsInv
      <4> QED
        BY <4>1, <4>2
    <3> QED
      BY <3>1, <3>2, <3>3 DEF SideInv, ObjectsInv
  <2> QED
    BY <2>1, <2>2
<1>8. ObjectsInv'
  BY <1>2, <1>4, <1>5, <1>6, <1>7 DEF SideInv, ObjectsInv, Records
<1>9. FindIn(p, o) = Absent
  BY DEF o
<1>10. /\ MapInv(prim', r, dense', home)
       /\ prim'.buckets = p.buckets
  BY <1>1, <1>2, <1>9, Entered DEF SideInv
<1> QED
  BY <1>2, <1>8, <1>10

LEMMA TryInsertStep ==
    ASSUME SideInv, NEW t \in Threads, TryInsert(t)
    PROVE  SideInv'
<1>1. /\ Trying(t) /\ prim.buckets # 0 /\ EnterIn(t, prim)
      /\ ret' = ret /\ mig' = mig
      /\ FindIn(prim, thr[t].obj) = Absent
  BY FoundNowhere DEF TryInsert, Absentee
<1>2. MapInv(prim, ret, dense, home)
  BY DEF SideInv
<1>3. ObjectsInv' /\ MapInv(prim', ret', dense', home')
      /\ prim'.buckets = prim.buckets
  BY <1>1, <1>2, Enters
<1>4. MigrationInv'
  BY <1>1, <1>3 DEF SideInv, MigrationInv
<1> QED
  BY <1>3, <1>4, SideInvNext

LEMMA TryRollbackStep ==
    ASSUME SideInv, NEW t \in Threads, TryRollback(t)
    PROVE  SideInv'
<1>1. /\ Trying(t) /\ prim.buckets # 0 /\ mig.active /\ RolledBack
      /\ ret' = prim /\ FindIn(ret, thr[t].obj) = Absent
      /\ thr[t].obj # Nobody /\ mig.cursor < ret.buckets /\ mig.cursor \in Nat
  BY FoundNowhere
     DEF TryRollback, Absentee, Trying, SideInv, ObjectsInv, MigrationInv
<1>2. prim.buckets \in Nat /\ ret.buckets \in Nat /\ ret.buckets # 0
  BY <1>1 DEF SideInv, MapInv, TableInv, TableShape
<1>3. CASE EnterIn(t, ret)
  <2>1. MapInv(ret, prim, dense, home)
    BY MapSwaps DEF SideInv
  <2>2. ObjectsInv' /\ MapInv(prim', ret', dense', home')
        /\ prim'.buckets = ret.buckets
    BY <1>1, <1>2, <1>3, <2>1, Enters
  <2>3. mig' = [active |-> TRUE, reason |-> "rollback", auto |-> TRUE,
                cursor |-> 0]
    BY <1>1 DEF RolledBack, SideInv, MigrationInv
  <2>4. prim'.buckets # 0 /\ 0 < ret'.buckets
    BY <1>1, <1>2, <2>2
  <2>5. MigrationInv'
    BY <2>3, <2>4 DEF MigrationInv
  <2> QED
    BY <2>2, <2>5, SideInvNext
<1>4. CASE prim' = ret /\ Goto(t, "busy") /\ UNCHANGED <<dense, home>>
  <2>1. TablesKept
    BY <1>1, <1>4, Reversed
  <2> QED
    BY <1>1, <1>4, <2>1, ThreadGoes
<1> QED
  BY <1>3, <1>4 DEF TryRollback

LEMMA TryNeedsTableStep ==
    ASSUME SideInv, NEW t \in Threads, TryNeedsTable(t)
    PROVE  SideInv'
<1> DEFINE rec == [thr[t] EXCEPT !.pc = "alloc",
                                 !.buckets = WantedForInsert.buckets,
                                 !.reason = WantedForInsert.reason]
<1>1. /\ thr' = [thr EXCEPT ![t] = rec]
      /\ thr[t].pc = "try" /\ UNCHANGED <<dense, home, tableVars>>
  BY DEF TryNeedsTable, Absentee, Trying
<1>2. prim.buckets \in Nat
  BY DEF SideInv, MapInv, TableInv, TableShape
<1>3. /\ WantedForInsert.buckets \in Nat \ {0}
      /\ WantedForInsert.reason \in {"grow", "rebuild"}
  BY <1>2, BucketsNat DEF WantedForInsert
<1>4. thr \in [Threads -> Records] /\ thr[t].obj # Nobody
      /\ home \in [Cores -> Nat]
  BY <1>1 DEF SideInv, ObjectsInv, Records
<1>5. rec \in Records /\ rec.obj = thr[t].obj /\ rec.buckets # 0
  BY <1>3, <1>4 DEF Records
<1> HIDE DEF rec
<1>6. ObjectsInv'
  BY <1>1, <1>4, <1>5, ThreadSteps DEF SideInv
<1> QED
  BY <1>1, <1>6 DEF SideInv, MapInv, MigrationInv, tableVars

LEMMA AttachStep ==
    ASSUME SideInv, NEW t \in Threads, SideAttach(t)
    PROVE  SideInv'
<1>1. CASE TryRefused(t)
  <2>1. PICK error \in {"EFAULT", "EBUSY", "ENOMEM", "EOVERFLOW"} :
           Refuse(t, error)
    BY <1>1 DEF TryRefused
  <2>2. thr[t].obj # Nobody /\ UNCHANGED <<dense, tableVars>>
    BY <1>1 DEF TryRefused, Trying, SideInv, ObjectsInv
  <2> QED
    BY <2>1, <2>2, Refused
<1>2. CASE TryBusy(t)
  <2>1. /\ thr[t].obj # Nobody /\ Goto(t, "busy")
        /\ UNCHANGED <<dense, home, tableVars>>
    BY <1>2 DEF TryBusy, MustWait, Absentee, Trying, SideInv, ObjectsInv
  <2> QED
    BY <2>1, ThreadGoes
<1>3. CASE AttachPublish(t)
  <2>1. /\ thr[t].obj # Nobody /\ Goto(t, "try") /\ UNCHANGED <<dense, home>>
        /\ thr[t].buckets \in Nat \ {0}
        /\ thr[t].reason \in {"none", "grow", "rebuild"}
    BY <1>3 DEF AttachPublish, SideInv, ObjectsInv
  <2>2. CASE StillWanted(t)
    <3>1. Publish(thr[t].buckets, thr[t].reason) /\ ~mig.active
      BY <1>3, <2>2 DEF AttachPublish, StillWanted, SideInv, MigrationInv
    <3>2. TablesKept
      BY <2>1, <3>1, Published
    <3> QED
      BY <2>1, <3>2, ThreadGoes
  <2>3. CASE ~StillWanted(t)
    BY <1>3, <2>1, <2>3, ThreadGoes DEF AttachPublish
  <2> QED
    BY <2>2, <2>3
<1>4. CASE AllocFails(t)
  <2>1. thr[t].obj # Nobody /\ Refuse(t, "ENOMEM")
        /\ UNCHANGED <<dense, tableVars>>
    BY <1>4 DEF AllocFails, SideInv, ObjectsInv
  <2> QED
    BY <2>1, Refused
<1>5. CASE BusyMigrate(t)
  <2>1. thr[t].obj # Nobody /\ UNCHANGED <<dense, home>>
    BY <1>5 DEF BusyMigrate, SideInv, ObjectsInv
  <2>2. PICK pc \in {"try", "publish"} : Goto(t, pc)
    BY <1>5 DEF BusyMigrate
  <2>3. TablesKept \/ UNCHANGED tableVars
    BY <1>5, Migrating DEF BusyMigrate
  <2> QED
    BY <2>1, <2>2, <2>3, ThreadGoes
<1>6. CASE BusyPublish(t)
  <2>1. thr[t].obj # Nobody /\ UNCHANGED <<dense, home>> /\ Goto(t, "try")
        /\ (SoftResize \/ Shrink \/ DropTables)
    BY <1>6 DEF BusyPublish, SideInv, ObjectsInv
  <2>2. TablesKept
    BY <2>1, Resized
  <2> QED
    BY <2>1, <2>2, ThreadGoes
<1>7. CASE BusyRefused(t)
  <2>1. thr[t].obj # Nobody /\ Refuse(t, "EBUSY")
        /\ UNCHANGED <<dense, tableVars>>
    BY <1>7 DEF BusyRefused, SideInv, ObjectsInv
  <2> QED
    BY <2>1, Refused
<1> QED
  BY <1>1, <1>2, <1>3, <1>4, <1>5, <1>6, <1>7, TryInsertStep,
     TryRollbackStep, TryNeedsTableStep DEF SideAttach

LEMMA WorkerStep ==
    ASSUME SideInv, Worker
    PROVE  SideInv'
<1>1. UNCHANGED <<dense, home, thr>>
  BY DEF Worker
<1>2. ObjectsInv'
  BY <1>1 DEF SideInv, ObjectsInv
<1>3. TablesKept
  <2>1. CASE Reverse
    BY <2>1, Reversed DEF Reverse
  <2> QED
    BY <2>1, Migrating, Resized DEF Worker
<1> QED
  BY <1>1, <1>2, <1>3, TablesOnly

LEMMA RemoveStep ==
    ASSUME SideInv, NEW slot \in 0 .. Len(dense) - 1,
           NEW hole \in slot .. Len(dense) - 1, SideRemove(slot, hole)
    PROVE  SideInv'
<1> DEFINE last == Len(dense) - 1
           o == At(slot)
           from(code) == Origin(code, slot, hole, last)
           e2 == EntsAfter(slot, hole)
           h2 == HomeAfter(slot)
<1>1. /\ ObjectsInv /\ MapInv(prim, ret, dense, home) /\ MigrationInv
      /\ Len(dense) \in Nat /\ dense \in Seq(Cores)
      /\ \A i, j \in 1 .. Len(dense) : dense[i] = dense[j] => i = j
      /\ home \in [Cores -> Nat]
      /\ mig' = mig /\ thr' = thr
  BY HomesNat DEF SideInv, ObjectsInv, SideRemove
<1>2. slot \in Nat /\ hole \in Nat /\ slot <= hole /\ hole < Len(dense)
  BY <1>1
<1>3. o \in Cores /\ home[o] \in Nat
  BY <1>1, <1>2 DEF At
<1>4. /\ dense' = e2 /\ home' = h2
      /\ home' = [home EXCEPT ![At(slot)] = 0]
  BY DEF SideRemove, EntsAfter, HomeAfter
<1>5. /\ dense' \in Seq(Cores) /\ Len(dense') = last
      /\ \A code \in 0 .. last - 1 : dense'[code + 1] = dense[from(code) + 1]
  BY ZenonT(120), <1>1, <1>2, <1>4, ClosedArray
(* The bucket that was found is the one that names the slot.               *)
<1>6. ASSUME NEW t \in {prim, ret}, FindIn(t, o) >= 0
      PROVE  FindIn(t, o) \in Cells(t) /\ t.map[FindIn(t, o)] = slot
  <2>1. TableInv(t, dense, home)
    BY <1>1 DEF MapInv
  <2> HIDE DEF o
  <2>2. /\ FindIn(t, o) \in Cells(t) /\ Live(t.map[FindIn(t, o)])
        /\ At(t.map[FindIn(t, o)]) = o
    BY <1>1, <1>3, <1>6, <2>1, FindInCases DEF Absent, Corrupt
  <2>3. t.map[FindIn(t, o)] \in 0 .. Len(dense) - 1
    BY <1>1, <2>1, <2>2 DEF TableInv, TableShape, Live, Codes
  <2> DEFINE code == t.map[FindIn(t, o)]
  <2>4. At(code) = At(slot)
    BY <2>2 DEF o
  <2> HIDE DEF code
  <2>5. code + 1 \in 1 .. Len(dense) /\ slot + 1 \in 1 .. Len(dense)
        /\ dense[code + 1] = dense[slot + 1]
    BY SMTT(60), <1>1, <1>2, <2>3, <2>4 DEF At, code
  <2>6. code + 1 = slot + 1
    BY <1>1, <2>5
  <2> QED
    BY <1>2, <2>2, <2>3, <2>6 DEF code
<1>7. /\ MapInv(prim', ret', dense', home')
      /\ prim'.buckets = prim.buckets /\ ret'.buckets = ret.buckets
      /\ \A a \in Cells(ret) : Live(ret'.map[a]) => Live(ret.map[a])
  <2>1. CASE FindIn(prim, o) >= 0
    <3>1. Find(o) = FindIn(prim, o)
      BY <2>1 DEF Find, SideRemove, Absent, Corrupt
    <3>2. /\ prim' = Recode(Tombstoned(prim, FindIn(prim, o)), slot, hole)
          /\ ret' = Recode(ret, slot, hole)
      BY <2>1, <3>1 DEF SideRemove, RecodeBoth
    <3>3. FindIn(prim, o) \in Cells(prim) /\ prim.map[FindIn(prim, o)] = slot
      BY <1>6, <2>1
    <3> DEFINE at == FindIn(prim, o)
               u == Recode(Tombstoned(prim, at), slot, hole)
               v == Recode(ret, slot, hole)
    <3>4. at \in Cells(prim) /\ prim.map[at] = slot
      BY <3>3
    <3> HIDE DEF at
    <3>5. /\ MapInv(u, v, e2, h2)
          /\ u.buckets = prim.buckets /\ v.buckets = ret.buckets
          /\ \A a \in Cells(ret) : Live(v.map[a]) => Live(ret.map[a])
      <4>1. ObjectsInv /\ MapInv(prim, ret, dense, home)
        BY <1>1
      <4> QED
        BY <1>2, <3>4, <4>1, Removed
    <3> HIDE DEF o, e2, h2
    <3>6. prim' = u /\ ret' = v
      BY <3>2 DEF at
    <3> HIDE DEF u, v
    <3> QED
      BY <1>4, <3>5, <3>6
  <2>2. CASE ~(FindIn(prim, o) >= 0)
    <3>1. Find(o) = FindIn(ret, o) /\ FindIn(ret, o) >= 0
      BY <2>2 DEF Find, SideRemove, Absent, Corrupt
    <3>2. /\ prim' = Recode(prim, slot, hole)
          /\ ret' = Recode(Tombstoned(ret, FindIn(ret, o)), slot, hole)
      BY <2>2, <3>1 DEF SideRemove, RecodeBoth
    <3>3. FindIn(ret, o) \in Cells(ret) /\ ret.map[FindIn(ret, o)] = slot
      BY <1>6, <3>1
    <3>4. MapInv(ret, prim, dense, home)
      BY <1>1, MapSwaps
    <3> DEFINE at == FindIn(ret, o)
               u == Recode(Tombstoned(ret, at), slot, hole)
               v == Recode(prim, slot, hole)
    <3>5. at \in Cells(ret) /\ ret.map[at] = slot
      BY <3>3
    <3> HIDE DEF at
    <3>6. /\ MapInv(u, v, e2, h2)
          /\ u.buckets = ret.buckets /\ v.buckets = prim.buckets
          /\ \A a \in Cells(ret) : Live(u.map[a]) => Live(ret.map[a])
      <4>1. ObjectsInv
        BY <1>1
      <4> QED
        BY <1>2, <3>4, <3>5, <4>1, Removed
    <3> HIDE DEF o, e2, h2
    <3>7. prim' = v /\ ret' = u
      BY <3>2 DEF at
    <3> HIDE DEF u, v
    <3>8. MapInv(v, u, e2, h2)
      BY <3>6, MapSwaps
    <3> QED
      BY <1>4, <3>6, <3>7, <3>8
  <2> QED
    BY <2>1, <2>2
<1> HIDE DEF o, e2, h2
<1>8. MigrationInv'
  <2>1. ASSUME mig.active, NEW at \in 0 .. mig.cursor - 1
        PROVE  ~Live(ret'.map[at])
    <3>1. ret.buckets \in Nat /\ mig.cursor \in Nat /\ mig.cursor < ret.buckets
          /\ ~Live(ret.map[at])
      BY <1>1, <2>1 DEF MigrationInv, MapInv, TableInv, TableShape
    <3>2. at \in Cells(ret)
      BY <3>1 DEF Cells
    <3> QED
      BY <1>7, <3>1, <3>2
  <2> HIDE DEF last
  <2> QED
    BY <1>1, <1>7, <2>1 DEF MigrationInv
<1>9. \A code \in 0 .. last - 1 :
         from(code) + 1 \in 1 .. Len(dense)
  BY <1>1, <1>2 DEF Origin
<1>10. ASSUME NEW i \in 1 .. Len(dense')
       PROVE  dense'[i] = dense[from(i - 1) + 1] /\ i - 1 \in 0 .. last - 1
  <2>1. i - 1 \in 0 .. last - 1 /\ (i - 1) + 1 = i
    BY <1>1, <1>5
  <2> QED
    BY <1>5, <2>1
<1>11. ASSUME NEW i \in 1 .. Len(dense'), NEW j \in 1 .. Len(dense'),
              dense'[i] = dense'[j]
       PROVE  i = j
  <2>1. from(i - 1) + 1 = from(j - 1) + 1
    <3> HIDE DEF from, last
    <3> QED
      BY <1>1, <1>9, <1>10, <1>11
  <2>2. i - 1 \in 0 .. last - 1 /\ j - 1 \in 0 .. last - 1
    BY <1>10
  <2>3. i - 1 = j - 1
    BY SMTT(60), <1>1, <1>2, <2>1, <2>2 DEF Origin
  <2> QED
    BY <1>5, <2>3
<1>12. ASSUME NEW t \in Threads, NEW i \in 1 .. Len(dense')
       PROVE  thr[t].obj # dense'[i]
  <2>1. PICK k \in 1 .. Len(dense) : dense'[i] = dense[k]
    BY <1>9, <1>10
  <2>2. \A n \in 1 .. Len(dense) : thr[t].obj # dense[n]
    BY DEF SideInv, ObjectsInv
  <2> QED
    BY <2>1, <2>2
<1>13. home' \in [Cores -> Nat]
  <2>1. home' = [home EXCEPT ![At(slot)] = 0] /\ home \in [Cores -> Nat]
    BY <1>1, <1>4
  <2> QED
    BY <2>1
<1>14. ObjectsInv'
  BY <1>1, <1>5, <1>11, <1>12, <1>13 DEF ObjectsInv
<1> QED
  BY <1>7, <1>8, <1>14, SideInvNext

LEMMA InvStep == SideInv /\ [SideNext]_sideVars => SideInv'
<1> SUFFICES ASSUME SideInv, [SideNext]_sideVars PROVE SideInv'
  OBVIOUS
<1>1. CASE UNCHANGED sideVars
  <2>1. UNCHANGED <<dense, home, prim, ret, mig, thr>>
    BY <1>1 DEF sideVars, tableVars
  <2>2. ObjectsInv'
    BY <2>1 DEF SideInv, ObjectsInv
  <2>3. MigrationInv'
    BY <2>1 DEF SideInv, MigrationInv
  <2>4. MapInv(prim', ret', dense', home')
    BY <2>1 DEF SideInv
  <2> QED
    BY <2>2, <2>3, <2>4, SideInvNext
<1>2. CASE SideNext
  BY <1>2, BeginStep, AttachStep, RemoveStep, WorkerStep DEF SideNext
<1> QED
  BY <1>1, <1>2

(* Lookups find every indexed object at its slot and nothing else, for any *)
(* number of objects, threads and buckets and any hashes, in every state   *)
(* in which each table still has an empty bucket.  That is what the limit  *)
(* of seven tenths (cachetag_side_hard_limit) is there for, and what only  *)
(* a migration that fills a table beyond it can undo: no swap in the dense *)
(* array, no tombstone, no rebuild, growth, shrink or rollback can.        *)
THEOREM SideTableLookups == SideSpec => [](NoTableFull => LookupsExact)
<1>1. SideInv => (NoTableFull => LookupsExact)
  BY Exact
<1> QED
  BY <1>1, InvInit, InvStep, PTL DEF SideSpec

(***************************************************************************)
(* The counters and the sizes                                              *)
(***************************************************************************)
Counted(t) ==
    /\ t.live = Cardinality(LiveCells(t))
    /\ t.tombs = Cardinality(TombCells(t))

(* The tables are counted right and within their bound.                    *)
Loaded(p, r, m) ==
    /\ Counted(p) /\ Counted(r)
    /\ p.buckets <= MaxBuckets /\ r.buckets <= MaxBuckets
    /\ ~m.active => m.cursor = 0

LoadInv ==
    /\ Loaded(prim, ret, mig)
    /\ \A t \in Threads : thr[t].buckets <= 2 * MaxBuckets
    /\ home \in [Cores -> HomeRange \cup {0}]

LEMMA CellsFinite ==
    ASSUME NEW t, TableShape(t)
    PROVE  /\ IsFiniteSet(LiveCells(t)) /\ IsFiniteSet(TombCells(t))
           /\ LiveCells(t) = {at \in Cells(t) : Live(t.map[at])}
           /\ TombCells(t) = {at \in Cells(t) : t.map[at] = Tombstone}
<1>1. DOMAIN t.map = Cells(t) /\ t.buckets \in Nat
  BY DEF TableShape
<1>2. IsFiniteSet(Cells(t))
  BY <1>1, FS_Interval DEF Cells
<1>3. LiveCells(t) \subseteq Cells(t) /\ TombCells(t) \subseteq Cells(t)
  BY <1>1 DEF LiveCells, TombCells
<1> QED
  BY <1>1, <1>2, <1>3, FS_Subset DEF LiveCells, TombCells

LEMMA CountNew ==
    ASSUME NEW n \in Nat
    PROVE  Counted(NewTable(n)) /\ NewTable(n).buckets = n
<1>1. LiveCells(NewTable(n)) = {} /\ TombCells(NewTable(n)) = {}
  BY DEF NewTable, LiveCells, TombCells, Live, Empty, Tombstone
<1> QED
  BY <1>1, FS_EmptySet DEF Counted, NewTable

LEMMA CountInserted ==
    ASSUME NEW t, TableShape(t), Counted(t), NEW o, home[o] \in Nat,
           NEW slot \in Nat, \E n \in Cells(t) : PathCode(t, o, n) = Empty
    PROVE  Counted(InsertIn(t, o, slot))
           /\ InsertIn(t, o, slot).buckets = t.buckets
<1> DEFINE u == InsertIn(t, o, slot)
<1>1. PICK at \in Cells(t) :
         /\ TableShape(u) /\ u.buckets = t.buckets /\ u.live = t.live + 1
         /\ ~Live(t.map[at])
         /\ u.map = [t.map EXCEPT ![at] = slot]
         /\ u.tombs = IF t.map[at] = Tombstone THEN t.tombs - 1
                      ELSE t.tombs
  BY InsertedAt
<1> HIDE DEF u
<1>2. t.map \in [Cells(t) -> Codes] /\ Cells(u) = Cells(t)
  BY <1>1 DEF TableShape, Cells
<1>3. LiveCells(u) = LiveCells(t) \cup {at} /\ at \notin LiveCells(t)
  BY <1>1, <1>2, CellsFinite DEF Live
<1>4. TombCells(u) = TombCells(t) \ {at}
      /\ (at \in TombCells(t) <=> t.map[at] = Tombstone)
  <2>1. slot # Tombstone
    BY DEF Tombstone
  <2> QED
    BY <1>1, <1>2, <2>1, CellsFinite
<1>5. u.live = Cardinality(LiveCells(u))
  <2>1. IsFiniteSet(LiveCells(t)) /\ t.live = Cardinality(LiveCells(t))
    BY CellsFinite DEF Counted
  <2>2. Cardinality(LiveCells(u)) = Cardinality(LiveCells(t)) + 1
    BY <1>3, <2>1, FS_AddElement
  <2> QED
    BY <1>1, <2>1, <2>2
<1>6. u.tombs = Cardinality(TombCells(u))
  <2>1. IsFiniteSet(TombCells(t)) /\ t.tombs = Cardinality(TombCells(t))
    BY CellsFinite DEF Counted
  <2>2. Cardinality(TombCells(u)) =
           IF at \in TombCells(t) THEN Cardinality(TombCells(t)) - 1
           ELSE Cardinality(TombCells(t))
    BY <1>4, <2>1, FS_RemoveElement
  <2> QED
    BY <1>1, <1>4, <2>1, <2>2
<1> QED
  BY <1>1, <1>5, <1>6 DEF Counted, u

LEMMA CountTombstoned ==
    ASSUME NEW t, TableShape(t), Counted(t), NEW at \in Cells(t),
           Live(t.map[at])
    PROVE  /\ Counted(Tombstoned(t, at)) /\ TableShape(Tombstoned(t, at))
           /\ Tombstoned(t, at).buckets = t.buckets
<1> DEFINE u == Tombstoned(t, at)
<1>1. /\ t.map \in [Cells(t) -> Codes] /\ t.buckets \in Nat
      /\ t.live \in Int /\ t.tombs \in Int
  BY DEF TableShape
<1>2. u = [buckets |-> t.buckets, map |-> [t.map EXCEPT ![at] = Tombstone],
           live |-> t.live - 1, tombs |-> t.tombs + 1]
  <2>1. u = [t EXCEPT !.map[at] = Tombstone, !.live = @ - 1,
                      !.tombs = @ + 1]
    BY DEF Tombstoned
  <2> HIDE DEF u
  <2> QED
    BY <2>1 DEF TableShape
<1>3. /\ u.buckets = t.buckets /\ u.map = [t.map EXCEPT ![at] = Tombstone]
      /\ u.live = t.live - 1 /\ u.tombs = t.tombs + 1
  BY <1>2
<1>4. TableShape(u)
  BY <1>1, <1>2 DEF TableShape, Cells, Codes, Tombstone
<1> HIDE DEF u
<1>5. Cells(u) = Cells(t)
  BY <1>3 DEF Cells
<1>6. LiveCells(u) = LiveCells(t) \ {at} /\ at \in LiveCells(t)
  BY <1>1, <1>3, <1>4, <1>5, CellsFinite DEF Live, Tombstone
<1>7. TombCells(u) = TombCells(t) \cup {at} /\ at \notin TombCells(t)
  BY <1>1, <1>3, <1>4, <1>5, CellsFinite DEF Live, Tombstone
<1>8. u.live = Cardinality(LiveCells(u))
  BY <1>3, <1>6, CellsFinite, FS_RemoveElement DEF Counted
<1>9. u.tombs = Cardinality(TombCells(u))
  BY <1>3, <1>7, CellsFinite, FS_AddElement DEF Counted
<1> QED
  BY <1>3, <1>4, <1>8, <1>9 DEF Counted, u

LEMMA CountRecoded ==
    ASSUME NEW t, TableShape(t), Counted(t), NEW slot \in Nat,
           NEW hole \in Nat, Len(dense) \in Nat, hole < Len(dense)
    PROVE  Counted(Recode(t, slot, hole))
           /\ Recode(t, slot, hole).buckets = t.buckets
<1> DEFINE u == Recode(t, slot, hole)
           new(c) == CASE c # slot /\ c = hole -> slot
                       [] c \notin {slot, hole} /\ c = Len(dense) - 1 -> hole
                       [] OTHER -> c
<1>1. t.map \in [Cells(t) -> Codes]
  BY DEF TableShape
<1>2. ASSUME NEW c \in Codes
      PROVE  (Live(new(c)) <=> Live(c))
             /\ (new(c) = Tombstone <=> c = Tombstone)
  BY DEF Codes, Live, Tombstone
<1>3. /\ u.buckets = t.buckets /\ u.live = t.live /\ u.tombs = t.tombs
      /\ u.map = [at \in Cells(t) |-> new(t.map[at])]
  BY <1>1 DEF Recode, TableShape
<1> HIDE DEF u, new
<1>4. LiveCells(u) = LiveCells(t) /\ TombCells(u) = TombCells(t)
  BY <1>1, <1>2, <1>3 DEF LiveCells, TombCells
<1> QED
  BY <1>3, <1>4 DEF Counted, u

(* What the tables' own steps do to the counters.                          *)
LEMMA LoadPublished ==
    ASSUME SideInv, Loaded(prim, ret, mig), NEW n \in Nat, NEW reason,
           Publish(n, reason)
    PROVE  Loaded(prim', ret', mig')
<1>1. /\ n <= MaxBuckets /\ prim' = NewTable(n) /\ ret' = prim
      /\ mig' = IF prim.buckets = 0 THEN NoMigration
                ELSE [active |-> TRUE, reason |-> reason, auto |-> TRUE,
                      cursor |-> 0]
  BY DEF Publish
<1>2. ~mig'.active => mig'.cursor = 0
  BY <1>1 DEF NoMigration
<1> QED
  BY <1>1, <1>2, CountNew DEF Loaded

LEMMA LoadReversed ==
    ASSUME SideInv, Loaded(prim, ret, mig), mig.active, prim' = ret,
           ret' = prim, RolledBack
    PROVE  Loaded(prim', ret', mig')
<1>1. mig'.active
  BY DEF RolledBack, SideInv, MigrationInv
<1> QED
  BY <1>1 DEF Loaded

LEMMA LoadDropped ==
    ASSUME DropTables
    PROVE  Loaded(prim', ret', mig')
<1>1. prim' = NoTable /\ ret' = NoTable /\ mig' = NoMigration
  BY DEF DropTables
<1>2. Counted(NoTable) /\ NoTable.buckets = 0
  BY CountNew DEF NoTable
<1> QED
  BY <1>1, <1>2, BucketsNat DEF Loaded, NoMigration

LEMMA LoadMigrated ==
    ASSUME SideInv, Loaded(prim, ret, mig), Migrate
    PROVE  Loaded(prim', ret', mig')
<1> DEFINE p == IF Live(Code) THEN InsertIn(prim, At(Code), Code) ELSE prim
           r == IF Live(Code) THEN Tombstoned(ret, mig.cursor) ELSE ret
<1>1. /\ ObjectsInv /\ TableShape(prim) /\ TableShape(ret)
      /\ mig.active /\ mig.cursor \in Cells(ret) /\ Len(dense) \in Nat
      /\ ret.map \in [Cells(ret) -> Codes]
  BY HomesNat
     DEF SideInv, MigrationInv, Migrate, MapInv, TableInv, TableShape, Cells
<1>2. CASE ~Movable
  <2>1. UNCHANGED <<prim, ret>> /\ mig' = [mig EXCEPT !.auto = FALSE]
    BY <1>2 DEF Migrate, MigrationFailed
  <2>2. mig'.active
    BY <1>1, <2>1 DEF SideInv, MigrationInv
  <2> QED
    BY <2>1, <2>2 DEF Loaded
<1>3. CASE Movable
  <2>1. Counted(p) /\ p.buckets = prim.buckets
        /\ Counted(r) /\ r.buckets = ret.buckets
    <3>1. CASE Live(Code)
      <4>1. /\ Code \in Nat /\ Code < Len(dense)
            /\ \E n \in Cells(prim) : PathCode(prim, At(Code), n) = Empty
        <5>1. Decodes(Code) /\ Insertable(prim, At(Code))
          BY <1>3, <3>1 DEF Movable
        <5>2. Code \in Nat
          BY <1>1, <3>1 DEF Code, Codes, Live
        <5> QED
          BY <5>1, <5>2 DEF Decodes, Insertable, Cells
      <4>2. home[At(Code)] \in Nat
        BY <1>1, <4>1, HomesNat DEF At
      <4>3. Counted(p) /\ p.buckets = prim.buckets
        BY <1>1, <3>1, <4>1, <4>2, CountInserted DEF Loaded
      <4>4. Counted(r) /\ r.buckets = ret.buckets
        BY <1>1, <3>1, CountTombstoned DEF Loaded, Code
      <4> QED
        BY <4>3, <4>4
    <3>2. CASE ~Live(Code)
      BY <3>2 DEF Loaded
    <3> QED
      BY <3>1, <3>2
  <2>2. LET done == mig.cursor + 1 = ret.buckets IN
        /\ prim' = p
        /\ ret' = IF done THEN NoTable ELSE r
        /\ mig' = IF done THEN NoMigration ELSE [mig EXCEPT !.cursor = @ + 1]
    BY <1>3 DEF Migrate, Migrated
  <2> HIDE DEF p, r
  <2>3. Counted(NoTable) /\ NoTable.buckets = 0
    BY CountNew DEF NoTable
  <2>4. ~mig'.active => mig'.cursor = 0
    BY <1>1, <2>2 DEF NoMigration, SideInv, MigrationInv
  <2> QED
    BY <2>1, <2>2, <2>3, <2>4, BucketsNat DEF Loaded
<1> QED
  BY <1>2, <1>3

LEMMA LoadResized ==
    ASSUME SideInv, Loaded(prim, ret, mig), SoftResize \/ Shrink \/ DropTables
    PROVE  Loaded(prim', ret', mig')
<1>1. prim.buckets \in Nat /\ 2 * prim.buckets \in Nat
  BY DEF SideInv, MapInv, TableInv, TableShape
<1> QED
  BY <1>1, LoadPublished, LoadDropped, LowWaterNat DEF SoftResize, Shrink

(* An attaching thread enters its object into one of the tables.           *)
LEMMA LoadEntered ==
    ASSUME SideInv, NEW t \in Threads, Trying(t), NEW p \in {prim, ret},
           Counted(p), p.buckets # 0, FindIn(p, thr[t].obj) = Absent,
           EnterIn(t, p)
    PROVE  Counted(prim') /\ prim'.buckets = p.buckets
<1> DEFINE o == thr[t].obj
<1>1. /\ o \in Cores /\ home[o] \in Nat /\ Len(dense) \in Nat
      /\ TableInv(p, dense, home)
  BY HomesNat DEF SideInv, ObjectsInv, MapInv, Trying
<1>2. \E n \in Cells(p) : PathCode(p, o, n) = Empty
  BY <1>1, FindInCases DEF Absent, Corrupt, Cells
<1>3. prim' = InsertIn(p, o, Len(dense))
  BY DEF EnterIn
<1> HIDE DEF o
<1> QED
  BY <1>1, <1>2, <1>3, CountInserted DEF TableInv

LEMMA Asks ==
    ASSUME NEW r \in Records, NEW n \in Nat,
           NEW why \in {"grow", "rebuild"}
    PROVE  LET q == [r EXCEPT !.pc = "alloc", !.buckets = n, !.reason = why]
           IN  q \in Records /\ q.buckets = n
BY DEF Records

(* What a thread asks for is bounded, and hashes come from their range.    *)
LEMMA ThreadLoad ==
    ASSUME SideInv, LoadInv, NEW t \in Threads, Begin(t) \/ SideAttach(t)
    PROVE  /\ \A u \in Threads : thr'[u].buckets <= 2 * MaxBuckets
           /\ home' \in [Cores -> HomeRange \cup {0}]
<1> DEFINE Bounded == {r \in Records : r.buckets <= 2 * MaxBuckets}
<1>1. /\ thr \in [Threads -> Records]
      /\ home \in [Cores -> HomeRange \cup {0}]
      /\ prim.buckets \in Nat /\ prim.buckets <= MaxBuckets
      /\ \A u \in Threads : thr[u] \in Bounded
  BY DEF SideInv, LoadInv, Loaded, ObjectsInv, Records, MapInv, TableInv,
         TableShape
<1>2. \A u \in Threads : thr[u].pc = "try" => thr[u].obj \in Cores
  BY DEF SideInv, ObjectsInv
<1>3. ASSUME NEW rec \in Bounded, thr' = [thr EXCEPT ![t] = rec]
      PROVE  \A u \in Threads : thr'[u].buckets <= 2 * MaxBuckets
  BY <1>1, <1>3
<1>4. ASSUME NEW pc \in {"try", "busy", "publish"}, Goto(t, pc)
      PROVE  \A u \in Threads : thr'[u].buckets <= 2 * MaxBuckets
  <2>1. thr' = [thr EXCEPT ![t] = [thr[t] EXCEPT !.pc = pc]]
    BY <1>4 DEF Goto
  <2>2. [thr[t] EXCEPT !.pc = pc] \in Bounded
    BY <1>1 DEF Records
  <2> QED
    BY <1>3, <2>1, <2>2
<1>5. Idle \in Bounded
  BY BucketsNat DEF Idle, Records
<1>6. ASSUME NEW error \in {"EFAULT", "EBUSY", "ENOMEM", "EOVERFLOW"},
             Refuse(t, error)
      PROVE  /\ \A u \in Threads : thr'[u].buckets <= 2 * MaxBuckets
             /\ home' \in [Cores -> HomeRange \cup {0}]
  <2>1. [Idle EXCEPT !.pc = error] \in Bounded
    BY <1>5 DEF Idle, Records
  <2>2. home' = [home EXCEPT ![thr[t].obj] = 0]
    BY <1>6 DEF Refuse
  <2> QED
    BY <1>1, <1>3, <1>6, <2>1, <2>2 DEF Refuse
<1>7. CASE Begin(t)
  <2>1. PICK o \in Cores, h \in HomeRange :
           /\ home' = [home EXCEPT ![o] = h]
           /\ thr' = [thr EXCEPT ![t] = [Idle EXCEPT !.pc = "try",
                                                    !.obj = o]]
    BY <1>7 DEF Begin
  <2>2. [Idle EXCEPT !.pc = "try", !.obj = o] \in Bounded
    BY <1>5 DEF Idle, Records
  <2> QED
    BY <1>1, <1>3, <2>1, <2>2
<1>8. CASE TryRefused(t) \/ AllocFails(t) \/ BusyRefused(t)
  <2>1. PICK error \in {"EFAULT", "EBUSY", "ENOMEM", "EOVERFLOW"} :
           Refuse(t, error)
    BY <1>8 DEF TryRefused, AllocFails, BusyRefused
  <2> QED
    BY <1>6, <2>1
<1>9. CASE TryBusy(t) \/ AttachPublish(t) \/ BusyMigrate(t) \/ BusyPublish(t)
  <2>1. home' = home /\ \E pc \in {"try", "busy", "publish"} : Goto(t, pc)
    BY <1>9 DEF TryBusy, AttachPublish, BusyMigrate, BusyPublish
  <2> QED
    BY <1>1, <1>4, <2>1
<1>10. CASE TryInsert(t) \/ TryRollback(t)
  <2>1. /\ home' = home
        /\ thr' = [thr EXCEPT ![t] = Idle] \/ Goto(t, "busy")
    BY <1>10 DEF TryInsert, TryRollback, EnterIn
  <2> QED
    BY <1>1, <1>3, <1>4, <1>5, <2>1
<1>11. CASE TryNeedsTable(t)
  <2> DEFINE rec == [thr[t] EXCEPT !.pc = "alloc",
                                   !.buckets = WantedForInsert.buckets,
                                   !.reason = WantedForInsert.reason]
  <2>1. thr' = [thr EXCEPT ![t] = rec] /\ home' = home
    BY <1>11 DEF TryNeedsTable
  <2>2. /\ WantedForInsert.buckets \in 0 .. 2 * MaxBuckets
        /\ WantedForInsert.reason \in {"grow", "rebuild"}
    BY SMTT(60), <1>1, BucketsNat DEF WantedForInsert
  <2>3. rec \in Bounded
    <3>1. thr[t] \in Records
      BY <1>1
    <3>2. /\ WantedForInsert.buckets \in Nat
          /\ WantedForInsert.buckets <= 2 * MaxBuckets
      BY <2>2, BucketsNat
    <3> DEFINE r == thr[t]
               n == WantedForInsert.buckets
               why == WantedForInsert.reason
    <3>3. rec = [r EXCEPT !.pc = "alloc", !.buckets = n, !.reason = why]
      OBVIOUS
    <3>4. r \in Records /\ n \in Nat /\ why \in {"grow", "rebuild"}
      BY <2>2, <3>1, <3>2
    <3> HIDE DEF rec, r, n, why
    <3>5. rec \in Records /\ rec.buckets = n
      BY <3>3, <3>4, Asks
    <3> QED
      BY <3>2, <3>5 DEF n
  <2> HIDE DEF rec
  <2> QED
    BY <1>1, <1>3, <2>1, <2>3
<1> QED
  BY <1>7, <1>8, <1>9, <1>10, <1>11 DEF SideAttach

LEMMA AttachLoad ==
    ASSUME SideInv, LoadInv, NEW t \in Threads, SideAttach(t)
    PROVE  Loaded(prim', ret', mig')
<1>1. Loaded(prim, ret, mig)
  BY DEF LoadInv
<1>2. CASE UNCHANGED tableVars
  BY <1>1, <1>2 DEF tableVars
<1>3. CASE TryInsert(t)
  <2>1. /\ Trying(t) /\ prim.buckets # 0 /\ EnterIn(t, prim)
        /\ ret' = ret /\ mig' = mig
        /\ FindIn(prim, thr[t].obj) = Absent
    BY <1>3, FoundNowhere DEF TryInsert, Absentee
  <2> QED
    BY <1>1, <2>1, LoadEntered DEF Loaded
<1>4. CASE TryRollback(t)
  <2>1. /\ Trying(t) /\ mig.active /\ RolledBack /\ ret' = prim
        /\ FindIn(ret, thr[t].obj) = Absent /\ ret.buckets # 0
        /\ EnterIn(t, ret) \/ prim' = ret
    BY <1>4, FoundNowhere
       DEF TryRollback, Absentee, Trying, SideInv, MigrationInv, MapInv,
           TableInv, TableShape
  <2>2. CASE prim' = ret
    BY <1>1, <2>1, <2>2, LoadReversed
  <2>3. CASE EnterIn(t, ret)
    <3>1. Counted(prim') /\ prim'.buckets = ret.buckets
      BY <1>1, <2>1, <2>3, LoadEntered DEF Loaded
    <3>2. mig'.active
      BY <2>1 DEF RolledBack, SideInv, MigrationInv
    <3> QED
      BY <1>1, <2>1, <3>1, <3>2 DEF Loaded
  <2> QED
    BY <2>1, <2>2, <2>3
<1>5. CASE AttachPublish(t) /\ StillWanted(t)
  <2>1. Publish(thr[t].buckets, thr[t].reason) /\ thr[t].buckets \in Nat
    BY <1>5 DEF AttachPublish, SideInv, ObjectsInv
  <2> QED
    BY <1>1, <2>1, LoadPublished
<1>6. CASE BusyMigrate(t) /\ Migrate
  BY <1>1, <1>6, LoadMigrated
<1>7. CASE BusyPublish(t)
  BY <1>1, <1>7, LoadResized DEF BusyPublish
<1> QED
  BY <1>2, <1>3, <1>4, <1>5, <1>6, <1>7
     DEF SideAttach, TryRefused, TryBusy, TryNeedsTable, AttachPublish,
         AllocFails, BusyMigrate, BusyRefused

LEMMA RemoveLoad ==
    ASSUME SideInv, LoadInv, NEW slot \in 0 .. Len(dense) - 1,
           NEW hole \in slot .. Len(dense) - 1, SideRemove(slot, hole)
    PROVE  LoadInv'
<1>1. /\ ObjectsInv /\ Loaded(prim, ret, mig)
      /\ TableInv(prim, dense, home) /\ TableInv(ret, dense, home)
      /\ Len(dense) \in Nat /\ slot \in Nat /\ hole \in Nat
      /\ hole < Len(dense)
      /\ home[At(slot)] \in Nat
      /\ mig' = mig /\ thr' = thr
      /\ home' = [home EXCEPT ![At(slot)] = 0]
  BY HomesNat DEF SideInv, MapInv, LoadInv, SideRemove, At
<1>2. ASSUME NEW t \in {prim, ret}
      PROVE  Counted(Recode(t, slot, hole))
             /\ Recode(t, slot, hole).buckets = t.buckets
  BY <1>1, CountRecoded DEF TableInv, Loaded
<1>3. ASSUME NEW t \in {prim, ret}, FindIn(t, At(slot)) >= 0
      PROVE  LET u == Recode(Tombstoned(t, FindIn(t, At(slot))), slot, hole)
             IN  Counted(u) /\ u.buckets = t.buckets
  <2> DEFINE at == FindIn(t, At(slot))
  <2>1. at \in Cells(t) /\ Live(t.map[at]) /\ TableShape(t) /\ Counted(t)
    BY <1>1, <1>3, FindInCases DEF Absent, Corrupt, TableInv, Loaded
  <2> HIDE DEF at
  <2>2. /\ Counted(Tombstoned(t, at)) /\ TableShape(Tombstoned(t, at))
        /\ Tombstoned(t, at).buckets = t.buckets
    BY <2>1, CountTombstoned
  <2>3. /\ Counted(Recode(Tombstoned(t, at), slot, hole))
        /\ Recode(Tombstoned(t, at), slot, hole).buckets = t.buckets
    BY <1>1, <2>2, CountRecoded
  <2> QED
    BY <2>3 DEF at
<1>4. Counted(prim') /\ Counted(ret')
      /\ prim'.buckets = prim.buckets /\ ret'.buckets = ret.buckets
  <2>1. CASE FindIn(prim, At(slot)) >= 0
    <3>1. Find(At(slot)) = FindIn(prim, At(slot))
      BY <2>1 DEF Find, SideRemove, Absent, Corrupt
    <3>2. /\ prim' = Recode(Tombstoned(prim, FindIn(prim, At(slot))), slot,
                            hole)
          /\ ret' = Recode(ret, slot, hole)
      BY <2>1, <3>1 DEF SideRemove, RecodeBoth
    <3> QED
      BY <1>2, <1>3, <2>1, <3>2
  <2>2. CASE ~(FindIn(prim, At(slot)) >= 0)
    <3>1. Find(At(slot)) = FindIn(ret, At(slot))
          /\ FindIn(ret, At(slot)) >= 0
      BY <2>2 DEF Find, SideRemove, Absent, Corrupt
    <3>2. /\ prim' = Recode(prim, slot, hole)
          /\ ret' = Recode(Tombstoned(ret, FindIn(ret, At(slot))), slot, hole)
      BY <2>2, <3>1 DEF SideRemove, RecodeBoth
    <3> QED
      BY <1>2, <1>3, <3>1, <3>2
  <2> QED
    BY <2>1, <2>2
<1>5. home' \in [Cores -> HomeRange \cup {0}]
  BY <1>1 DEF LoadInv
<1>6. /\ (\A t \in Threads : thr'[t].buckets <= 2 * MaxBuckets)
      /\ Loaded(prim', ret', mig')
  BY <1>1, <1>4 DEF Loaded, LoadInv
<1> QED
  BY <1>5, <1>6 DEF LoadInv, Loaded, Counted, LiveCells, TombCells, Live

LEMMA LoadInvNext ==
    ASSUME Loaded(prim', ret', mig'),
           \A t \in Threads : thr'[t].buckets <= 2 * MaxBuckets,
           home' \in [Cores -> HomeRange \cup {0}]
    PROVE  LoadInv'
BY DEF LoadInv, Loaded, Counted, LiveCells, TombCells, Live

LEMMA LoadStep == SideInv /\ LoadInv /\ [SideNext]_sideVars => LoadInv'
<1> SUFFICES ASSUME SideInv, LoadInv, [SideNext]_sideVars PROVE LoadInv'
  OBVIOUS
<1>1. CASE UNCHANGED sideVars
  <2>1. UNCHANGED <<home, prim, ret, mig, thr>>
    BY <1>1 DEF sideVars, tableVars
  <2>2. Loaded(prim', ret', mig')
    BY <2>1 DEF LoadInv
  <2> QED
    BY <2>1, <2>2, LoadInvNext DEF LoadInv
<1>2. ASSUME NEW t \in Threads, Begin(t) PROVE LoadInv'
  <2>1. Loaded(prim', ret', mig')
    BY <1>2 DEF Begin, tableVars, LoadInv
  <2> QED
    BY <1>2, <2>1, ThreadLoad, LoadInvNext
<1>3. ASSUME NEW t \in Threads, SideAttach(t) PROVE LoadInv'
  BY <1>3, AttachLoad, ThreadLoad, LoadInvNext
<1>4. CASE Worker
  <2>1. Loaded(prim, ret, mig) /\ home' = home /\ thr' = thr
    BY <1>4 DEF LoadInv, Worker
  <2>2. Loaded(prim', ret', mig')
    <3>1. CASE Reverse
      BY <2>1, <3>1, LoadReversed DEF Reverse
    <3> QED
      BY <1>4, <2>1, <3>1, LoadMigrated, LoadResized DEF Worker
  <2> QED
    BY <2>1, <2>2, LoadInvNext DEF LoadInv
<1> QED
  BY <1>1, <1>2, <1>3, <1>4, RemoveLoad DEF SideNext

LEMMA LoadInit == SideInit => LoadInv
<1> SUFFICES ASSUME SideInit PROVE LoadInv
  OBVIOUS
<1>1. Counted(NoTable) /\ NoTable.buckets = 0
  BY CountNew DEF NoTable
<1> QED
  BY <1>1, BucketsNat DEF SideInit, LoadInv, Loaded, NoMigration, Idle

LEMMA TableTyped ==
    ASSUME NEW t, TableInv(t, dense, home), Counted(t),
           t.buckets <= MaxBuckets, Len(dense) \in Nat
    PROVE  TableOK(t)
<1>1. t.buckets \in 0 .. MaxBuckets /\ t.map \in [Cells(t) -> Codes]
  BY BucketsNat DEF TableInv, TableShape
<1>2. ASSUME NEW at \in Cells(t) PROVE t.map[at] \in -2 .. Len(dense) - 1
  <2>1. t.map[at] \in Codes /\ (Live(t.map[at]) => t.map[at] < Len(dense))
    BY <1>1 DEF TableInv
  <2> QED
    BY <2>1 DEF Codes, Live
<1> QED
  BY <1>1, <1>2 DEF TableOK, Counted, Cells

LEMMA SideTyped ==
    ASSUME SideInv, LoadInv
    PROVE  SideTypeOK
<1>1. /\ dense \in Seq(Cores) /\ Len(dense) \in Nat
      /\ home \in [Cores -> HomeRange \cup {0}]
  BY DEF SideInv, ObjectsInv, LoadInv
<1>2. TableOK(prim) /\ TableOK(ret)
  BY <1>1, TableTyped DEF SideInv, MapInv, LoadInv, Loaded
<1>3. mig \in [active : BOOLEAN, auto : BOOLEAN, cursor : 0 .. MaxBuckets,
               reason : {"none", "grow", "rebuild", "shrink", "rollback"}]
  <2>1. mig.cursor \in 0 .. MaxBuckets
    BY BucketsNat
       DEF SideInv, MigrationInv, MapInv, TableInv, TableShape, LoadInv,
           Loaded
  <2> QED
    BY <2>1 DEF SideInv, MigrationInv
<1>4. thr \in [Threads -> [pc : {"idle", "try", "alloc", "busy", "publish",
                                 "EFAULT", "EBUSY", "ENOMEM", "EOVERFLOW"},
                           obj : Cores \cup {Nobody},
                           buckets : 0 .. 2 * MaxBuckets,
                           reason : {"none", "grow", "rebuild"}]]
  <2>1. \A t \in Threads : thr[t].buckets \in 0 .. 2 * MaxBuckets
    BY BucketsNat DEF SideInv, ObjectsInv, LoadInv
  <2> QED
    BY <2>1 DEF SideInv, ObjectsInv
<1> QED
  BY <1>1, <1>2, <1>3, <1>4 DEF SideTypeOK

(* Whatever is inserted, removed, moved or given up: the counts of live    *)
(* buckets and of tombstones are those of the buckets themselves, in both  *)
(* tables, so that every decision to grow, rebuild or shrink is taken on   *)
(* the real load (cachetag_side_table_insert_locked, _remove_locked).      *)
THEOREM SideTableCounts == SideSpec => []SideTypeOK
<1>1. SideInv /\ LoadInv => SideTypeOK
  BY SideTyped
<1> QED
  BY <1>1, InvInit, InvStep, LoadInit, LoadStep, PTL DEF SideSpec
==============================================================================
