-------------------------- MODULE ReaderGateProofs --------------------------
(***************************************************************************)
(* Proofs about ReaderGate, for every set of readers and of tables.        *)
(*                                                                         *)
(* The argument: each counter is the number of readers announced in its    *)
(* slot (CountOK), so a counter that reads zero means that nobody is       *)
(* there; a reader past its recheck sits in the current slot unless a flip *)
(* came later, and then it sits in the slot the writer drains              *)
(* (ReaderInv).  Hence no reader holds the retired table when it is freed. *)
(***************************************************************************)
EXTENDS ReaderGate, FiniteSetTheorems, TLAPS

(* The readers that readers[s] counts. *)
Announced(s) ==
    {r \in Readers : /\ rpc[r] \in {"recheck", "unstable", "load", "using"}
                     /\ slot[r] = s}

CountOK == \A s \in Slots : readers[s] = Cardinality(Announced(s))

BaseInv == TypeOK /\ CountOK

LEMMA AnnouncedFinite ==
    ASSUME NEW s
    PROVE  /\ IsFiniteSet(Announced(s))
           /\ Cardinality(Announced(s)) \in Nat
<1>1. Announced(s) \subseteq Readers  BY DEF Announced
<1>2. QED  BY <1>1, ReadersFinite, FS_Subset, FS_CardinalityType

(* A reader that is announced keeps its counter above zero. *)
LEMMA AnnouncedCounted ==
    ASSUME BaseInv, NEW r \in Readers,
           rpc[r] \in {"recheck", "unstable", "load", "using"}
    PROVE  readers[slot[r]] \in Nat \ {0}
<1>1. slot[r] \in Slots  BY DEF BaseInv, TypeOK
<1>2. r \in Announced(slot[r])  BY DEF Announced
<1>3. Cardinality(Announced(slot[r])) # 0
  BY <1>2, AnnouncedFinite, FS_EmptySet
<1>4. QED  BY <1>1, <1>3, AnnouncedFinite DEF BaseInv, CountOK

(* A step that neither touches a counter nor changes who is announced      *)
(* where keeps the counts right.                                           *)
LEMMA CountUnchanged ==
    ASSUME CountOK, readers' = readers,
           \A s \in Slots : Announced(s)' = Announced(s)
    PROVE  CountOK'
BY DEF CountOK

LEMMA BaseInit == Init => BaseInv
<1> SUFFICES ASSUME Init PROVE BaseInv  OBVIOUS
<1>1. TypeOK
  BY NoTableIsNoTable
  DEF Init, TypeOK, Slots, Pointers, ReaderPoints, WriterPoints
<1>2. \A s \in Slots : Announced(s) = {}
  BY DEF Init, Announced
<1>3. CountOK
  BY <1>2, FS_EmptySet DEF Init, CountOK
<1>4. QED  BY <1>1, <1>3 DEF BaseInv

(* A reader leaves a slot: its counter goes down by one, with the set.     *)
LEMMA ReleaseCount ==
    ASSUME BaseInv, NEW r \in Readers, NEW woken, NEW else,
           rpc[r] \in {"unstable", "using"},
           woken \in {"wakeRetry", "wakeExit"}, else \in {"enter", "idle"},
           Release(r, woken, else), slot' = slot
    PROVE  CountOK' /\ readers' \in [Slots -> Nat]
<1> DEFINE q == slot[r]
<1>1. /\ q \in Slots
      /\ readers \in [Slots -> Nat]
      /\ rpc \in [Readers -> ReaderPoints]
      /\ slot \in [Readers -> Slots]
  BY DEF BaseInv, TypeOK
<1>2. readers[q] \in Nat \ {0}
  BY AnnouncedCounted
<1>3. readers' = [readers EXCEPT ![q] = @ - 1]
  BY DEF Release
<1>4. /\ rpc'[r] \in {woken, else}
      /\ \A x \in Readers \ {r} : rpc'[x] = rpc[x]
  BY <1>1 DEF Release, Goto
<1>5. Announced(q)' = Announced(q) \ {r}
  BY <1>1, <1>4 DEF Announced
<1>6. \A s \in Slots \ {q} : Announced(s)' = Announced(s)
  BY <1>1, <1>4 DEF Announced
<1>7. r \in Announced(q)
  BY DEF Announced
<1>8. Cardinality(Announced(q)') = Cardinality(Announced(q)) - 1
  BY <1>5, <1>7, AnnouncedFinite, FS_RemoveElement
<1>9. \A s \in Slots : readers'[s] = Cardinality(Announced(s))'
  BY <1>1, <1>3, <1>6, <1>8 DEF BaseInv, CountOK
<1>10. readers' \in [Slots -> Nat]
  BY <1>1, <1>2, <1>3
<1>11. QED  BY <1>9, <1>10 DEF CountOK

(* A step of reader r that leaves it announced, or not, where it was.      *)
LEMMA SameAnnounced ==
    ASSUME BaseInv, NEW r \in Readers, NEW l \in ReaderPoints,
           Goto(r, l), slot' = slot, readers' = readers,
           rpc[r] \in {"recheck", "unstable", "load", "using"} <=>
             l \in {"recheck", "unstable", "load", "using"}
    PROVE  CountOK'
<1>1. /\ rpc'[r] = l
      /\ \A x \in Readers \ {r} : rpc'[x] = rpc[x]
  BY DEF BaseInv, TypeOK, Goto
<1>2. \A s \in Slots : Announced(s)' = Announced(s)
  BY <1>1 DEF Announced
<1>3. QED  BY <1>2, CountUnchanged DEF BaseInv

LEMMA BaseReaderStep ==
    ASSUME BaseInv, NEW r \in Readers, ReaderStep(r)
    PROVE  BaseInv'
<1> USE DEF BaseInv
<1>1. CASE LoadPhase(r)
  <2>1. TypeOK'
    BY <1>1 DEF LoadPhase, Goto, TypeOK, ReaderPoints, tableVars, gate, writerVars
  <2>2. /\ rpc[r] \notin {"recheck", "unstable", "load", "using"}
        /\ rpc' = [rpc EXCEPT ![r] = "add"]
        /\ slot' = [slot EXCEPT ![r] = phase]
        /\ readers' = readers
    BY <1>1 DEF LoadPhase, Goto, gate
  <2>3. \A s \in Slots : Announced(s)' = Announced(s)
    BY <2>2 DEF Announced, TypeOK
  <2>4. QED  BY <2>1, <2>2, <2>3, CountUnchanged
<1>2. CASE AddReader(r)
  <2> DEFINE q == slot[r]
  <2>1. /\ q \in Slots
        /\ readers' = [readers EXCEPT ![q] = @ + 1]
        /\ rpc[r] = "add"
        /\ rpc' = [rpc EXCEPT ![r] = "recheck"]
        /\ slot' = slot
    BY <1>2 DEF AddReader, Goto, TypeOK
  <2>2. TypeOK'
    BY <1>2, <2>1 DEF AddReader, TypeOK, ReaderPoints, tableVars, writerVars
  <2>3. Announced(q)' = Announced(q) \cup {r}
    BY <2>1 DEF Announced, TypeOK
  <2>4. \A s \in Slots \ {q} : Announced(s)' = Announced(s)
    BY <2>1 DEF Announced, TypeOK
  <2>5. r \notin Announced(q)
    BY <2>1 DEF Announced
  <2>6. Cardinality(Announced(q)') = Cardinality(Announced(q)) + 1
    BY <2>3, <2>5, AnnouncedFinite, FS_AddElement
  <2>7. CountOK'
    BY <2>1, <2>4, <2>6 DEF CountOK, TypeOK
  <2>8. QED  BY <2>2, <2>7
<1>3. CASE Recheck(r)
  <2>1. TypeOK'
    BY <1>3 DEF Recheck, Goto, TypeOK, ReaderPoints, tableVars, gate, writerVars
  <2>2. CountOK'
    BY <1>3, SameAnnounced DEF Recheck, gate, ReaderPoints
  <2>3. QED  BY <2>1, <2>2
<1>4. CASE LoadTable(r)
  <2>1. TypeOK'
    BY <1>4 DEF LoadTable, Goto, TypeOK, ReaderPoints, tableVars, gate, writerVars
  <2>2. CountOK'
    BY <1>4, SameAnnounced DEF LoadTable, gate, ReaderPoints
  <2>3. QED  BY <2>1, <2>2
<1>5. CASE Retry(r)
  <2>1. CountOK' /\ readers' \in [Slots -> Nat]
    BY <1>5, ReleaseCount DEF Retry
  <2>2. TypeOK'
    BY <1>5, <2>1 DEF Retry, Release, Goto, TypeOK, ReaderPoints, tableVars, writerVars
  <2>3. QED  BY <2>1, <2>2
<1>6. CASE Exit(r)
  <2>1. CountOK' /\ readers' \in [Slots -> Nat]
    BY <1>6, ReleaseCount DEF Exit
  <2>2. TypeOK'
    BY <1>6, <2>1 DEF Exit, Release, Goto, TypeOK, ReaderPoints, Pointers, tableVars, writerVars
  <2>3. QED  BY <2>1, <2>2
<1>7. CASE Broadcast(r)
  <2>1. TypeOK'
    BY <1>7 DEF Broadcast, Goto, TypeOK, ReaderPoints, WriterPoints, tableVars, gate
  <2>2. CountOK'
    BY <1>7, SameAnnounced DEF Broadcast, gate, ReaderPoints
  <2>3. QED  BY <2>1, <2>2
<1>8. QED
  BY <1>1, <1>2, <1>3, <1>4, <1>5, <1>6, <1>7 DEF ReaderStep

(* The writer never touches a counter and never moves a reader.            *)
WriterNext ==
    \/ \E new \in Tables : PublishFirst(new)
    \/ \E new \in Pointers, prune \in BOOLEAN : Publish(new, prune)
    \/ Rollback
    \/ WriterStep
    \/ SpuriousWakeup

(* While a table is being retired, it is one that was published before and *)
(* nothing but it and the published table is allocated; a prune never      *)
(* publishes NULL, so a rollback has a table to discard.                   *)
TableInv ==
    /\ NoLeakNoLoss
    /\ wpc = "idle" <=> retired = NoTable
    /\ pruning => table # NoTable

LEMMA BaseWriterStep ==
    ASSUME BaseInv, TableInv, WriterNext
    PROVE  BaseInv'
<1>1. readers' = readers /\ rpc' = rpc /\ slot' = slot /\ held' = held
  BY DEF WriterNext, PublishFirst, Publish, Rollback, WriterStep, FlipPhase,
         LockReaderMtx, CheckDrained, FreeRetired, SpuriousWakeup,
         gate, readerVars
<1>2. CountOK'
  BY <1>1, CountUnchanged DEF BaseInv, Announced
<1>3. TypeOK'
  <2> USE <1>1 DEF BaseInv, TypeOK, WriterPoints, Pointers
  <2>1. CASE \E new \in Tables : PublishFirst(new)
    BY <2>1 DEF PublishFirst, gate, readerVars, writerVars
  <2>2. CASE \E new \in Pointers, prune \in BOOLEAN : Publish(new, prune)
    BY <2>2 DEF Publish, StoreTable, gate
  <2>3. CASE Rollback
    <3>1. retired \in Tables
      BY <2>3 DEF Rollback, TableInv
    <3>2. QED  BY <2>3, <3>1 DEF Rollback, StoreTable, gate
  <2>4. CASE FlipPhase
    BY <2>4 DEF FlipPhase, tableVars, Slots
  <2>5. CASE LockReaderMtx
    BY <2>5 DEF LockReaderMtx, tableVars, gate
  <2>6. CASE CheckDrained
    BY <2>6 DEF CheckDrained, tableVars, gate
  <2>7. CASE FreeRetired
    BY <2>7 DEF FreeRetired, gate
  <2>8. CASE SpuriousWakeup
    BY <2>8 DEF SpuriousWakeup, tableVars, gate
  <2>9. QED
    BY <2>1, <2>2, <2>3, <2>4, <2>5, <2>6, <2>7, <2>8
    DEF WriterNext, WriterStep
<1>4. QED  BY <1>2, <1>3 DEF BaseInv

LEMMA TableStep ==
    ASSUME BaseInv, TableInv, [Next]_vars
    PROVE  TableInv'
<1> USE NoTableIsNoTable DEF TableInv, NoLeakNoLoss, BaseInv, TypeOK, Pointers
<1>1. CASE \E r \in Readers : ReaderStep(r)
  BY <1>1 DEF ReaderStep, LoadPhase, AddReader, Recheck, LoadTable, Retry,
              Exit, Broadcast, tableVars, writerVars
<1>2. CASE \E new \in Tables : PublishFirst(new)
  BY <1>2 DEF PublishFirst, writerVars
<1>3. CASE \E new \in Pointers, prune \in BOOLEAN : Publish(new, prune)
  BY <1>3 DEF Publish, StoreTable
<1>4. CASE Rollback
  BY <1>4 DEF Rollback, StoreTable
<1>5. CASE FlipPhase
  BY <1>5 DEF FlipPhase, tableVars
<1>6. CASE LockReaderMtx
  BY <1>6 DEF LockReaderMtx, tableVars
<1>7. CASE CheckDrained
  BY <1>7 DEF CheckDrained, tableVars
<1>8. CASE FreeRetired
  BY <1>8 DEF FreeRetired
<1>9. CASE SpuriousWakeup
  BY <1>9 DEF SpuriousWakeup, tableVars
<1>10. CASE UNCHANGED vars
  BY <1>10 DEF vars
<1>11. QED
  BY <1>1, <1>2, <1>3, <1>4, <1>5, <1>6, <1>7, <1>8, <1>9, <1>10
  DEF Next, WriterStep

LEMMA BaseStep ==
    ASSUME BaseInv, TableInv, [Next]_vars
    PROVE  BaseInv'
<1>1. CASE \E r \in Readers : ReaderStep(r)
  BY <1>1, BaseReaderStep
<1>2. CASE WriterNext
  BY <1>2, BaseWriterStep
<1>3. CASE UNCHANGED vars
  BY <1>3 DEF vars, BaseInv, TypeOK, CountOK, Announced
<1>4. QED
  BY <1>1, <1>2, <1>3 DEF Next, WriterNext

(* Every variable keeps its type; in particular no counter goes below      *)
(* zero, so the uint64_t readers[] never wraps.                            *)
THEOREM TypeCorrect == Spec => []TypeOK
<1>1. Init => BaseInv /\ TableInv
  BY BaseInit DEF Init, TableInv, NoLeakNoLoss
<1>2. BaseInv /\ TableInv /\ [Next]_vars => (BaseInv /\ TableInv)'
  BY BaseStep, TableStep
<1>3. BaseInv => TypeOK
  BY DEF BaseInv
<1>4. QED  BY <1>1, <1>2, <1>3, PTL DEF Spec

(* The published table is never freed and no table leaks, whether or not   *)
(* prunes are rolled back.                                                 *)
THEOREM TablesOwned == Spec => []NoLeakNoLoss
<1>1. Init => BaseInv /\ TableInv
  BY BaseInit DEF Init, TableInv, NoLeakNoLoss
<1>2. BaseInv /\ TableInv /\ [Next]_vars => (BaseInv /\ TableInv)'
  BY BaseStep, TableStep
<1>3. TableInv => NoLeakNoLoss
  BY DEF TableInv
<1>4. QED  BY <1>1, <1>2, <1>3, PTL DEF Spec

(***************************************************************************)
(* The gate itself, as long as no prune is rolled back.                    *)
(***************************************************************************)
PastRecheck(r) == rpc[r] \in {"load", "using"}

(* Where the writer is in the life of the retired table.                   *)
WriterInv ==
    /\ wpc \notin {"rollbackFlip", "retire"}
    /\ wpc = "flip" => retire_reader_slot[retired] = phase
    /\ wpc \notin {"idle", "flip"} => retire_reader_slot[retired] = 1 - phase

(* Outside the drain every reader past its recheck is in the current slot; *)
(* during it, one that holds the retired table is in the slot drained.     *)
ReaderInv ==
    \A r \in Readers : PastRecheck(r) =>
        /\ wpc \in {"idle", "flip", "free"} => slot[r] = phase
        /\ rpc[r] = "using" =>
             /\ held[r] \in {table, retired, NoTable}
             /\ (held[r] = retired /\ wpc \notin {"idle", "flip"}) =>
                    slot[r] = retire_reader_slot[retired]

GateInv == BaseInv /\ TableInv /\ WriterInv /\ ReaderInv

LEMMA GateReaderStep ==
    ASSUME GateInv, NEW x \in Readers, ReaderStep(x)
    PROVE  WriterInv' /\ ReaderInv'
<1> USE DEF GateInv, BaseInv, TypeOK
<1>1. CASE Broadcast(x)
  <2>1. /\ UNCHANGED <<table, retired, retire_reader_slot, phase, slot, held>>
        /\ wpc' \in {wpc, "relock"}
        /\ wpc' = "relock" => wpc \in {"asleep", "relock"}
        /\ \A r \in Readers : PastRecheck(r)' => PastRecheck(r) /\ rpc'[r] = rpc[r]
    BY <1>1 DEF Broadcast, Goto, PastRecheck, tableVars, gate
  <2>2. QED  BY <2>1 DEF WriterInv, ReaderInv
<1>2. CASE ~Broadcast(x)
  <2>1. UNCHANGED <<table, retired, retire_reader_slot, phase, wpc>>
    BY <1>2 DEF ReaderStep, LoadPhase, AddReader, Recheck, LoadTable, Retry,
                Exit, tableVars, gate, writerVars
  <2>2. WriterInv'
    BY <2>1 DEF WriterInv
  <2>3. CASE LoadPhase(x) \/ AddReader(x) \/ Retry(x) \/ Exit(x)
    <3>1. \A r \in Readers : PastRecheck(r)' =>
             /\ PastRecheck(r)
             /\ rpc'[r] = rpc[r] /\ slot'[r] = slot[r] /\ held'[r] = held[r]
      BY <2>3 DEF LoadPhase, AddReader, Retry, Exit, Release, Goto, PastRecheck
    <3>2. QED  BY <2>1, <2>2, <3>1 DEF ReaderInv
  <2>4. CASE Recheck(x)
    <3>1. /\ slot' = slot /\ held' = held
          /\ \A r \in Readers :
                \/ rpc'[r] = rpc[r]
                \/ r = x /\ rpc'[r] = "load" /\ slot[r] = phase
                \/ r = x /\ rpc'[r] = "unstable"
      BY <2>4 DEF Recheck, Goto
    <3>2. QED  BY <2>1, <2>2, <3>1 DEF ReaderInv, PastRecheck
  <2>5. CASE LoadTable(x)
    <3>1. /\ slot' = slot
          /\ rpc[x] = "load" /\ rpc'[x] = "using" /\ held'[x] = table
          /\ \A r \in Readers \ {x} : rpc'[r] = rpc[r] /\ held'[r] = held[r]
      BY <2>5 DEF LoadTable, Goto
    <3>2. wpc # "idle" => held'[x] # retired
      BY <3>1 DEF TableInv, NoLeakNoLoss
    <3>3. ReaderInv'
      BY <2>1, <3>1, <3>2 DEF ReaderInv, PastRecheck
    <3>4. QED  BY <2>2, <3>3
  <2>6. QED  BY <1>2, <2>3, <2>4, <2>5 DEF ReaderStep
<1>3. QED  BY <1>1, <1>2

LEMMA GateWriterStep ==
    ASSUME ~CheckpointMayFail, GateInv, WriterNext
    PROVE  WriterInv' /\ ReaderInv'
<1> USE DEF GateInv, BaseInv, TypeOK, Pointers, Slots
<1>0. rpc' = rpc /\ slot' = slot /\ held' = held
  BY DEF WriterNext, PublishFirst, Publish, Rollback, WriterStep, FlipPhase,
         LockReaderMtx, CheckDrained, FreeRetired, SpuriousWakeup,
         gate, readerVars
<1>1. CASE \E new \in Tables : PublishFirst(new)
  <2>1. /\ wpc = "idle" /\ wpc' = wpc
        /\ retired = NoTable /\ retired' = retired
        /\ table = NoTable
        /\ UNCHANGED <<phase, retire_reader_slot>>
    BY <1>1 DEF PublishFirst, writerVars, gate, TableInv
  <2>2. QED  BY <1>0, <2>1 DEF WriterInv, ReaderInv, PastRecheck
<1>2. CASE \E new \in Pointers, prune \in BOOLEAN : Publish(new, prune)
  <2>1. /\ wpc = "idle" /\ wpc' = "flip"
        /\ retired = NoTable /\ retired' = table /\ table \in Tables
        /\ retire_reader_slot' = [retire_reader_slot EXCEPT ![table] = phase]
        /\ phase' = phase
    BY <1>2 DEF Publish, StoreTable, gate, TableInv
  <2>2. WriterInv'
    BY <2>1 DEF WriterInv
  <2>3. ReaderInv'
    BY <1>0, <2>1 DEF ReaderInv, PastRecheck
  <2>4. QED  BY <2>2, <2>3
<1>3. CASE Rollback
  BY <1>3 DEF Rollback
<1>4. CASE FlipPhase
  <2>1. /\ wpc = "flip" /\ wpc' = "published"
        /\ phase' = 1 - phase
        /\ UNCHANGED <<table, retired, retire_reader_slot>>
    BY <1>4 DEF FlipPhase, tableVars, WriterInv
  <2>2. WriterInv'
    BY <2>1 DEF WriterInv
  <2>3. ReaderInv'
    BY <1>0, <2>1 DEF ReaderInv, WriterInv, PastRecheck
  <2>4. QED  BY <2>2, <2>3
<1>5. CASE LockReaderMtx \/ SpuriousWakeup
  <2>1. /\ wpc \notin {"idle", "flip", "free"} /\ wpc' \in {"check", "relock"}
        /\ UNCHANGED <<table, retired, retire_reader_slot, phase>>
    BY <1>5 DEF LockReaderMtx, SpuriousWakeup, tableVars, gate
  <2>2. QED  BY <1>0, <2>1 DEF WriterInv, ReaderInv, PastRecheck
<1>6. CASE CheckDrained
  <2> DEFINE q == retire_reader_slot[retired]
  <2>1. /\ wpc = "check"
        /\ wpc' = IF readers[q] = 0 THEN "free" ELSE "asleep"
        /\ UNCHANGED <<table, retired, retire_reader_slot, phase>>
    BY <1>6 DEF CheckDrained, tableVars, gate
  <2>2. WriterInv'
    BY <2>1 DEF WriterInv
  <2>3. q = 1 - phase
    BY <2>1 DEF WriterInv
  <2>4. ASSUME readers[q] = 0, NEW r \in Readers, PastRecheck(r)
        PROVE  slot[r] = phase
    <3>1. readers[slot[r]] # 0
      BY <2>4, AnnouncedCounted DEF PastRecheck
    <3>2. slot[r] # q
      BY <2>4, <3>1
    <3>3. QED  BY <2>3, <3>2
  <2>5. ReaderInv'
    BY <1>0, <2>1, <2>4 DEF ReaderInv, PastRecheck
  <2>6. QED  BY <2>2, <2>5
<1>7. CASE FreeRetired
  <2>1. /\ wpc = "free" /\ wpc' = "idle"
        /\ retired \in Tables /\ retired' = NoTable
        /\ UNCHANGED <<table, retire_reader_slot, phase>>
    BY <1>7 DEF FreeRetired, gate, TableInv
  <2>2. \A r \in Readers : rpc[r] = "using" => held[r] # retired
    BY <2>1 DEF ReaderInv, WriterInv, PastRecheck
  <2>3. QED  BY <1>0, <2>1, <2>2 DEF WriterInv, ReaderInv, PastRecheck
<1>8. QED
  BY <1>1, <1>2, <1>3, <1>4, <1>5, <1>6, <1>7 DEF WriterNext, WriterStep

(* No reader ever dereferences a freed table, for every number of readers  *)
(* and of tables, as long as no prune is rolled back.                      *)
THEOREM ReadersSafe ==
    ASSUME ~CheckpointMayFail
    PROVE  Spec => []NoUseAfterFree
<1>1. Init => GateInv
  BY BaseInit
  DEF Init, GateInv, TableInv, NoLeakNoLoss, WriterInv, ReaderInv, PastRecheck
<1>2. GateInv /\ [Next]_vars => GateInv'
  <2> SUFFICES ASSUME GateInv, [Next]_vars PROVE GateInv'  OBVIOUS
  <2>1. BaseInv' /\ TableInv'
    BY BaseStep, TableStep DEF GateInv
  <2>2. CASE \E r \in Readers : ReaderStep(r)
    BY <2>1, <2>2, GateReaderStep DEF GateInv
  <2>3. CASE WriterNext
    BY <2>1, <2>3, GateWriterStep DEF GateInv
  <2>4. CASE UNCHANGED vars
    BY <2>1, <2>4 DEF GateInv, vars, WriterInv, ReaderInv, PastRecheck
  <2>5. QED  BY <2>2, <2>3, <2>4 DEF Next, WriterNext
<1>3. GateInv => NoUseAfterFree
  BY DEF GateInv, BaseInv, TypeOK, Pointers, TableInv, NoLeakNoLoss, ReaderInv,
         PastRecheck, NoUseAfterFree
<1>4. QED  BY <1>1, <1>2, <1>3, PTL DEF Spec
=============================================================================
