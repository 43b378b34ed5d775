----------------------------- MODULE ReaderGate -----------------------------
(***************************************************************************)
(* The epoch gate that lets request threads read the purge map's hash      *)
(* table without a lock while writers replace and free it.                 *)
(*                                                                         *)
(* A reader announces itself in readers[slot], re-reads the phase, and     *)
(* loads pm->table only if the phase did not move.  A writer (there is one *)
(* at a time: every writer holds idx->purge_mtx from its first store to    *)
(* its free) stores a new table, flips the phase, and frees the old table  *)
(* once the counter of the slot it retired reads zero, sleeping on         *)
(* reader_cond in between.  One action is one atomic operation of the C    *)
(* code; the seq_cst operations of the source justify interleaving them.   *)
(*                                                                         *)
(* What a table contains is not modelled here (see PurgeHistory): a table  *)
(* is an identity that is allocated or not.                                *)
(***************************************************************************)
EXTENDS Integers, FiniteSets

CONSTANTS
    Readers,            \* threads inside a probe or a diagnostic getter
    Tables,             \* table identities malloc can return
    NoTable,            \* the NULL table pointer
    CheckpointMayFail   \* persistence is on, so a prune may be rolled back

ASSUME ReadersFinite == IsFiniteSet(Readers)
ASSUME NoTableIsNoTable == NoTable \notin Tables
ASSUME CheckpointBoolean == CheckpointMayFail \in BOOLEAN

VARIABLES
    table,              \* pm->table
    live,               \* tables allocated and not yet freed
    retire_reader_slot, \* tbl->retire_reader_slot of every table
    phase,              \* pm->reader_gate.phase & 1
    readers,            \* pm->reader_gate.readers[2]
    rpc, slot, held,    \* per reader: control point, gate slot, table pointer
    wpc,                \* control point of the purge_mtx holder
    retired,            \* the writer's `retired` pointer
    pruning,            \* the publication under way is a prune
    reader_mtx          \* TRUE while the writer holds pm->reader_mtx

gate == <<phase, readers>>
readerVars == <<rpc, slot, held>>
writerVars == <<wpc, retired, pruning, reader_mtx>>
tableVars == <<table, live, retire_reader_slot>>
vars == <<table, live, retire_reader_slot, phase, readers, rpc, slot, held,
          wpc, retired, pruning, reader_mtx>>

Slots == {0, 1}
Pointers == Tables \cup {NoTable}

Init ==
    /\ table = NoTable
    /\ live = {}
    /\ retire_reader_slot = [t \in Tables |-> 0]
    /\ phase = 0
    /\ readers = [s \in Slots |-> 0]
    /\ rpc = [r \in Readers |-> "idle"]
    /\ slot = [r \in Readers |-> 0]
    /\ held = [r \in Readers |-> NoTable]
    /\ wpc = "idle"
    /\ retired = NoTable
    /\ pruning = FALSE
    /\ reader_mtx = FALSE

(***************************************************************************)
(* Readers                                                                 *)
(***************************************************************************)
Goto(r, l) == rpc' = [rpc EXCEPT ![r] = l]

(* cachetag_epoch_gate_acquire, first load of the phase.                   *)
LoadPhase(r) ==
    /\ rpc[r] \in {"idle", "enter"}
    /\ slot' = [slot EXCEPT ![r] = phase]
    /\ Goto(r, "add")
    /\ UNCHANGED <<tableVars, gate, held, writerVars>>

AddReader(r) ==
    /\ rpc[r] = "add"
    /\ readers' = [readers EXCEPT ![slot[r]] = @ + 1]
    /\ Goto(r, "recheck")
    /\ UNCHANGED <<tableVars, phase, slot, held, writerVars>>

(* Mutant: the phase is not looked at again after the increment.           *)
RecheckSkipped(r) ==
    /\ rpc[r] = "recheck"
    /\ Goto(r, "load")
    /\ UNCHANGED <<tableVars, gate, slot, held, writerVars>>

(* *stablep: the phase still is the one the reader announced itself in.    *)
Recheck(r) ==
    /\ rpc[r] = "recheck"
    /\ Goto(r, IF phase = slot[r] THEN "load" ELSE "unstable")
    /\ UNCHANGED <<tableVars, gate, slot, held, writerVars>>

LoadTable(r) ==
    /\ rpc[r] = "load"
    /\ held' = [held EXCEPT ![r] = table]
    /\ Goto(r, "using")
    /\ UNCHANGED <<tableVars, gate, slot, writerVars>>

(* cachetag_epoch_gate_release; the reader that takes the counter to zero  *)
(* goes on to wake the writer.                                             *)
Release(r, woken, else) ==
    /\ readers' = [readers EXCEPT ![slot[r]] = @ - 1]
    /\ Goto(r, IF readers[slot[r]] = 1 THEN woken ELSE else)

(* Mutant: the retry leaves the slot of the phase it has just read.        *)
RetryWrongSlot(r) ==
    /\ rpc[r] = "unstable"
    /\ readers' = [readers EXCEPT ![1 - slot[r]] = @ - 1]
    /\ Goto(r, "enter")
    /\ UNCHANGED <<tableVars, phase, slot, held, writerVars>>

(* Mutant: only reader_exit wakes the writer, a retry does not.            *)
RetrySilent(r) ==
    /\ rpc[r] = "unstable"
    /\ Release(r, "enter", "enter")
    /\ UNCHANGED <<tableVars, phase, slot, held, writerVars>>

(* reader_enter lost the race with a flip: leave the slot and try again.   *)
Retry(r) ==
    /\ rpc[r] = "unstable"
    /\ Release(r, "wakeRetry", "enter")
    /\ UNCHANGED <<tableVars, phase, slot, held, writerVars>>

(* reader_exit: the probe is over and drops its table pointer.             *)
Exit(r) ==
    /\ rpc[r] = "using"
    /\ Release(r, "wakeExit", "idle")
    /\ held' = [held EXCEPT ![r] = NoTable]
    /\ UNCHANGED <<tableVars, phase, slot, writerVars>>

(* Lock reader_mtx, broadcast, unlock: the lock is never held across       *)
(* another step of a reader, so one action does all three.                 *)
Broadcast(r) ==
    /\ rpc[r] \in {"wakeRetry", "wakeExit"}
    /\ ~reader_mtx
    /\ wpc' = IF wpc = "asleep" THEN "relock" ELSE wpc
    /\ Goto(r, IF rpc[r] = "wakeRetry" THEN "enter" ELSE "idle")
    /\ UNCHANGED <<tableVars, gate, slot, held, retired, pruning, reader_mtx>>

ReaderStep(r) ==
    \/ LoadPhase(r) \/ AddReader(r) \/ Recheck(r) \/ LoadTable(r)
    \/ Retry(r) \/ Exit(r) \/ Broadcast(r)

(***************************************************************************)
(* The writer: rebuild, reclaim and prune publish a table the same way.    *)
(***************************************************************************)

(* Store new in pm->table and remember old and the slot it retires from.   *)
StoreTable(old, new) ==
    /\ retire_reader_slot' = [retire_reader_slot EXCEPT ![old] = phase]
    /\ table' = new
    /\ retired' = old

(* rebuild_locked or reclaim_locked on an empty map: nothing is retired    *)
(* and the phase stays.                                                    *)
PublishFirst(new) ==
    /\ wpc = "idle"
    /\ table = NoTable
    /\ new \in Tables \ live
    /\ table' = new
    /\ live' = live \cup {new}
    /\ UNCHANGED <<retire_reader_slot, gate, readerVars, writerVars>>

(* rebuild_locked and prune_locked always store a fresh table;             *)
(* reclaim_locked stores NULL when no entry survives.                      *)
Publish(new, prune) ==
    /\ wpc = "idle"
    /\ table # NoTable
    /\ new \in Pointers \ live
    /\ prune => new # NoTable
    /\ StoreTable(table, new)
    /\ live' = live \cup ({new} \ {NoTable})
    /\ pruning' = prune
    /\ wpc' = "flip"
    /\ UNCHANGED <<gate, readerVars, reader_mtx>>

FlipPhase ==
    /\ wpc \in {"flip", "rollbackFlip"}
    /\ phase' = 1 - phase
    /\ wpc' = IF wpc = "flip" THEN "published" ELSE "retire"
    /\ UNCHANGED <<tableVars, readers, readerVars, retired, pruning, reader_mtx>>

(* Mutant: the caller keeps the `retired` that prune_locked returned.      *)
RollbackKeepsRetired ==
    /\ wpc = "published"
    /\ pruning /\ CheckpointMayFail
    /\ retire_reader_slot' = [retire_reader_slot EXCEPT ![table] = phase]
    /\ table' = retired
    /\ wpc' = "rollbackFlip"
    /\ UNCHANGED <<live, gate, readerVars, retired, pruning, reader_mtx>>

(* prune_rollback_locked: the checkpoint that must follow a prune failed,  *)
(* so the original table is published again and the replacement retired.   *)
Rollback ==
    /\ wpc = "published"
    /\ pruning /\ CheckpointMayFail
    /\ StoreTable(table, retired)
    /\ wpc' = "rollbackFlip"
    /\ UNCHANGED <<live, gate, readerVars, pruning, reader_mtx>>

(* retire_after_commit: take reader_mtx ...                                *)
LockReaderMtx ==
    /\ wpc \in {"published", "retire", "relock"}
    /\ ~reader_mtx
    /\ reader_mtx' = TRUE
    /\ wpc' = "check"
    /\ UNCHANGED <<tableVars, gate, readerVars, retired, pruning>>

(* ... and either leave the loop, or unlock and sleep on reader_cond.      *)
CheckDrained ==
    /\ wpc = "check"
    /\ reader_mtx' = FALSE
    /\ wpc' = IF readers[retire_reader_slot[retired]] = 0
                THEN "free" ELSE "asleep"
    /\ UNCHANGED <<tableVars, gate, readerVars, retired, pruning>>

(* pthread_cond_wait may return without a broadcast.                       *)
SpuriousWakeup ==
    /\ wpc = "asleep"
    /\ wpc' = "relock"
    /\ UNCHANGED <<tableVars, gate, readerVars, retired, pruning, reader_mtx>>

FreeRetired ==
    /\ wpc = "free"
    /\ live' = live \ {retired}
    /\ retired' = NoTable
    /\ pruning' = FALSE
    /\ wpc' = "idle"
    /\ UNCHANGED <<table, retire_reader_slot, gate, readerVars, reader_mtx>>

WriterStep ==
    FlipPhase \/ LockReaderMtx \/ CheckDrained \/ FreeRetired

Next ==
    \/ \E r \in Readers : ReaderStep(r)
    \/ \E new \in Tables : PublishFirst(new)
    \/ \E new \in Pointers, prune \in BOOLEAN : Publish(new, prune)
    \/ Rollback
    \/ WriterStep
    \/ SpuriousWakeup

Spec == Init /\ [][Next]_vars

(* A thread inside the gate keeps running (a probe does not block), the    *)
(* purge_mtx holder keeps running, and a thread that keeps asking for      *)
(* reader_mtx eventually gets it.  Nothing is assumed of spurious wakeups, *)
(* of new readers, or of new writers.                                      *)
Fairness ==
    /\ WF_vars(WriterStep)
    /\ \A r \in Readers :
         /\ WF_vars(rpc[r] # "idle" /\ ReaderStep(r))
         /\ SF_vars(Broadcast(r))

FairSpec == Spec /\ Fairness

(***************************************************************************)
(* Properties                                                              *)
(***************************************************************************)
ReaderPoints ==
    {"idle", "enter", "add", "recheck", "unstable", "load", "using",
     "wakeRetry", "wakeExit"}
WriterPoints ==
    {"idle", "flip", "published", "rollbackFlip", "retire", "check",
     "asleep", "relock", "free"}

(* Every variable has its type.                                            *)
TypeOK ==
    /\ table \in Pointers
    /\ live \in SUBSET Tables
    /\ retire_reader_slot \in [Tables -> Slots]
    /\ phase \in Slots
    /\ readers \in [Slots -> Nat]
    /\ rpc \in [Readers -> ReaderPoints]
    /\ slot \in [Readers -> Slots]
    /\ held \in [Readers -> Pointers]
    /\ wpc \in WriterPoints
    /\ retired \in Pointers
    /\ pruning \in BOOLEAN
    /\ reader_mtx \in BOOLEAN

(* A table that a reader may dereference has not been freed: the purpose   *)
(* of reader_enter, of retire_reader_slot and of the drain in              *)
(* cachetag_purgemap_retire_after_commit.                                  *)
NoUseAfterFree ==
    \A r \in Readers : rpc[r] = "using" => held[r] \in live \cup {NoTable}

(* The published table is never freed, and nothing is allocated beyond it  *)
(* and the one table waiting to be freed: no path of rebuild, prune,       *)
(* rollback and reclaim leaks a table or frees the one just published.     *)
NoLeakNoLoss ==
    /\ live = ({table, retired} \ {NoTable})
    /\ retired # NoTable => retired # table

(* The retirement of a table ends: the writer, which holds purge_mtx all   *)
(* this time and so blocks every purge, cannot sleep on reader_cond        *)
(* for ever through a lost wakeup or through readers that keep arriving.   *)
RetireCompletes == wpc # "idle" ~> wpc = "idle"
=============================================================================
