--------------------------- MODULE PublicationGate ---------------------------
(***************************************************************************)
(* Registration, purge, sweep and reclamation of purge history in a        *)
(* memory-only namespace.                                                  *)
(*                                                                         *)
(* An object registers under the purge sequence it reads while it holds a  *)
(* slot of idx->publication_gate, and gives the slot back once it is in    *)
(* the object index (or has died).  A sweep takes a certificate (cutoff,   *)
(* phase), flips the gate, and judges every indexed object; when it was    *)
(* not aborted, and the slot of the old phase is empty, every purge up to  *)
(* the cutoff can be forgotten: purgemap_reclaim_locked drops it.          *)
(*                                                                         *)
(* Purges, certificates and reclaims hold idx->purge_mtx; wpc # "idle"     *)
(* means that a purge or a compaction has it.  Sweeps hold idx->sweep_mtx, *)
(* so there is one sweeper.  A probe of the history is one step here; its  *)
(* own steps are the subject of PurgeHistory.                              *)
(***************************************************************************)
EXTENDS Integers, FiniteSets

CONSTANTS
    Objects,        \* objcores; each is registered at most once
    Keys,           \* tag digests
    Tags,           \* the keys that each object is tagged with
    MaxSeq,         \* largest purge sequence (UINT64_MAX in the code)
    HistoryCap      \* limits.purgemap_history_max_entries, 0 = no cap

ASSUME ObjectsFinite == IsFiniteSet(Objects)
ASSUME TagsType == Tags \in [Objects -> SUBSET Keys]
ASSUME MaxSeqNat == MaxSeq \in Nat
ASSUME CapNat == HistoryCap \in Nat

VARIABLES
    seq,                    \* pm->seq
    entry,                  \* hard_seq and soft_seq of every key, 0 = none
    floor,                  \* pm->hard_floor and pm->soft_floor
    purged,                 \* newest purge of every key (not in the code)
    wpc,                    \* control point of the purge_mtx holder
    batch,                  \* keys and mode of the purge under way
    newFloor,               \* floors that the prune under way will store
    phase,                  \* idx->publication_gate.phase & 1
    readers,                \* idx->publication_gate.readers[2]
    state,                  \* control point of each object's registration
    slot,                   \* publication_phase of each object
    reg_seq,                \* publication_seq, later the record's reg_seq
    reduced,                \* EXP_Reduce has ended the object's TTL
    spc,                    \* control point of the sweeper
    cert, cutoff, certPhase,    \* locals of purgemap_run_sweep
    todo,                   \* indexed objects the sweep has yet to judge
    reclaim_pending, reclaim_cutoff, reclaim_phase,
    publication_blocked, publication_blocked_phase

historyVars == <<seq, entry, floor, purged>>
writerVars == <<wpc, batch, newFloor>>
gateVars == <<phase, readers>>
objectVars == <<state, slot, reg_seq, reduced>>
sweepVars == <<spc, cert, cutoff, certPhase, todo>>
reclaimVars == <<reclaim_pending, reclaim_cutoff, reclaim_phase,
                 publication_blocked, publication_blocked_phase>>
vars == <<seq, entry, floor, purged, wpc, batch, newFloor, phase, readers,
          state, slot, reg_seq, reduced, spc, cert, cutoff, certPhase, todo,
          reclaim_pending, reclaim_cutoff, reclaim_phase,
          publication_blocked, publication_blocked_phase>>

Modes == {"hard", "soft"}
Slots == {0, 1}
Seqs == 0 .. MaxSeq
NoPurge == [m \in Modes |-> 0]
NoBatch == [keys |-> {}, mode |-> "hard"]

Init ==
    /\ seq = 0
    /\ entry = [k \in Keys |-> NoPurge]
    /\ floor = NoPurge
    /\ purged = [k \in Keys |-> NoPurge]
    /\ wpc = "idle"
    /\ batch = NoBatch
    /\ newFloor = NoPurge
    /\ phase = 0
    /\ readers = [s \in Slots |-> 0]
    /\ state = [o \in Objects |-> "new"]
    /\ slot = [o \in Objects |-> 0]
    /\ reg_seq = [o \in Objects |-> 0]
    /\ reduced = [o \in Objects |-> FALSE]
    /\ spc = "idle"
    /\ cert = FALSE
    /\ cutoff = 0
    /\ certPhase = 0
    /\ todo = {}
    /\ reclaim_pending = FALSE
    /\ reclaim_cutoff = 0
    /\ reclaim_phase = 0
    /\ publication_blocked = FALSE
    /\ publication_blocked_phase = 0

(***************************************************************************)
(* The history that a probe reads                                          *)
(***************************************************************************)

(* cachetag_purgemap_probe_reader_guarded for one mode.                    *)
Invalidated(o, m) ==
    \/ \E k \in Tags[o] : entry[k][m] > reg_seq[o]
    \/ floor[m] > reg_seq[o]

Probe(o) ==
    IF Invalidated(o, "hard") THEN "hard"
    ELSE IF Invalidated(o, "soft") THEN "soft" ELSE "none"

(***************************************************************************)
(* Purges                                                                  *)
(***************************************************************************)
MaxOf(a, b) == IF a > b THEN a ELSE b
Newest(e) == MaxOf(e["hard"], e["soft"])
Present == {k \in Keys : Newest(entry[k]) # 0}
OverCap(present) == HistoryCap # 0 /\ Cardinality(present) > HistoryCap

(* cachetag_purge (one key) and cachetag_purge_batch take purge_mtx and    *)
(* publish the sequence, which orders the purge among registrations.       *)
PurgeBegin(K, m) ==
    /\ wpc = "idle"
    /\ seq < MaxSeq
    /\ seq' = seq + 1
    /\ batch' = [keys |-> K, mode |-> m]
    /\ wpc' = "apply"
    /\ UNCHANGED <<entry, floor, purged, newFloor, gateVars, objectVars,
                   sweepVars, reclaimVars>>

(* The entries are upserted; a map over its cap is then pruned, unless the *)
(* prune runs out of memory, whose result the purge ignores.               *)
PurgeApply ==
    /\ wpc = "apply"
    /\ LET upsert(f) == [k \in Keys |-> IF k \in batch.keys
                            THEN [f[k] EXCEPT ![batch.mode] = seq] ELSE f[k]]
       IN  /\ entry' = upsert(entry)
           /\ purged' = upsert(purged)
    /\ wpc' \in {"idle"} \cup
           IF OverCap(Present \cup batch.keys) THEN {"swap"} ELSE {}
    /\ batch' = NoBatch
    /\ UNCHANGED <<seq, floor, newFloor, gateVars, objectVars,
                   sweepVars, reclaimVars>>

(* cachetag_compact_all prunes first, if the last purge could not.         *)
CompactPrune ==
    /\ wpc = "idle" /\ spc = "idle"
    /\ OverCap(Present)
    /\ wpc' = "swap"
    /\ UNCHANGED <<historyVars, batch, newFloor, gateVars, objectVars,
                   sweepVars, reclaimVars>>

(* The need-th smallest of the newest sequences: pruning up to it, ties    *)
(* included, brings the map to three quarters of its cap.                  *)
PruneCutoff ==
    LET need == Cardinality(Present) - (HistoryCap * 75) \div 100
        upTo(v) == {k \in Present : Newest(entry[k]) <= v}
    IN  CHOOSE v \in Seqs :
           /\ Cardinality(upTo(v)) >= need
           /\ \A w \in Seqs : w < v => Cardinality(upTo(w)) < need

(* Mutant: only the hard floor is raised.                                  *)
PruneSwapHardOnly ==
    /\ wpc = "swap"
    /\ LET pruned == {k \in Present : Newest(entry[k]) <= PruneCutoff}
       IN  /\ entry' = [k \in Keys |-> IF k \in pruned THEN NoPurge
                                       ELSE entry[k]]
           /\ newFloor' = [floor EXCEPT !["hard"] =
                 CHOOSE v \in {@} \cup {entry[k]["hard"] : k \in pruned} :
                    /\ v >= floor["hard"]
                    /\ \A k \in pruned : v >= entry[k]["hard"]]
    /\ wpc' = "floors"
    /\ UNCHANGED <<seq, floor, purged, batch, gateVars, objectVars,
                   sweepVars, reclaimVars>>

(* purgemap_prune_locked stores the replacement table and its size first   *)
(* ...                                                                     *)
PruneSwap ==
    /\ wpc = "swap"
    /\ LET pruned == {k \in Present : Newest(entry[k]) <= PruneCutoff}
       IN  /\ entry' = [k \in Keys |-> IF k \in pruned THEN NoPurge
                                       ELSE entry[k]]
           /\ newFloor' = [m \in Modes |->
                 CHOOSE v \in {floor[m]} \cup {entry[k][m] : k \in pruned} :
                    /\ v >= floor[m]
                    /\ \A k \in pruned : v >= entry[k][m]]
    /\ wpc' = "floors"
    /\ UNCHANGED <<seq, floor, purged, batch, gateVars, objectVars,
                   sweepVars, reclaimVars>>

(* ... and the floors that stand for the dropped entries afterwards.       *)
PruneFloors ==
    /\ wpc = "floors"
    /\ floor' = newFloor
    /\ wpc' = "idle"
    /\ UNCHANGED <<seq, entry, purged, batch, newFloor, gateVars, objectVars,
                   sweepVars, reclaimVars>>

WriterStep == PurgeApply \/ PruneSwap \/ PruneFloors

(***************************************************************************)
(* Registration (add) and attachment (OEV_INSERT) of an object             *)
(***************************************************************************)
Goto(o, l) == state' = [state EXCEPT ![o] = l]

(* cachetag_publication_enter: acquire a slot whose phase is stable.       *)
LoadPhase(o) ==
    /\ state[o] \in {"new", "enter"}
    /\ slot' = [slot EXCEPT ![o] = phase]
    /\ Goto(o, "add")
    /\ UNCHANGED <<historyVars, writerVars, gateVars, reg_seq, reduced,
                   sweepVars, reclaimVars>>

AddReader(o) ==
    /\ state[o] = "add"
    /\ readers' = [readers EXCEPT ![slot[o]] = @ + 1]
    /\ Goto(o, "recheck")
    /\ UNCHANGED <<historyVars, writerVars, phase, slot, reg_seq, reduced,
                   sweepVars, reclaimVars>>

Recheck(o) ==
    /\ state[o] = "recheck"
    /\ Goto(o, IF phase = slot[o] THEN "stable" ELSE "unstable")
    /\ UNCHANGED <<historyVars, writerVars, gateVars, slot, reg_seq, reduced,
                   sweepVars, reclaimVars>>

(* Mutant: the retry leaves the slot of the current phase.                 *)
RetryWrongSlot(o) ==
    /\ state[o] = "unstable"
    /\ readers' = [readers EXCEPT ![phase] = @ - 1]
    /\ Goto(o, "enter")
    /\ UNCHANGED <<historyVars, writerVars, phase, slot, reg_seq, reduced,
                   sweepVars, reclaimVars>>

Retry(o) ==
    /\ state[o] = "unstable"
    /\ readers' = [readers EXCEPT ![slot[o]] = @ - 1]
    /\ Goto(o, "enter")
    /\ UNCHANGED <<historyVars, writerVars, phase, slot, reg_seq, reduced,
                   sweepVars, reclaimVars>>

(* *seqp is loaded last.  Every key the fetch adds registers under it.     *)
LoadSeq(o) ==
    /\ state[o] = "stable"
    /\ reg_seq' = [reg_seq EXCEPT ![o] = seq]
    /\ Goto(o, "pending")
    /\ UNCHANGED <<historyVars, writerVars, gateVars, slot, reduced,
                   sweepVars, reclaimVars>>

(* OEV_INSERT: append the record and probe, all under obj_mtx; a HARD      *)
(* verdict kills the object and removes its record again.                  *)
Attach(o) ==
    /\ state[o] = "pending"
    /\ Goto(o, IF Probe(o) = "hard" THEN "leaving" ELSE "attaching")
    /\ reduced' = [reduced EXCEPT ![o] = @ \/ Probe(o) = "soft"]
    /\ UNCHANGED <<historyVars, writerVars, gateVars, slot, reg_seq,
                   sweepVars, reclaimVars>>

(* The fetch is retried or fails before OEV_INSERT, the object is          *)
(* transient, or attaching it fails and it is killed (fail_closed).        *)
Abandon(o) ==
    /\ state[o] = "pending"
    /\ Goto(o, "leaving")
    /\ UNCHANGED <<historyVars, writerVars, gateVars, slot, reg_seq, reduced,
                   sweepVars, reclaimVars>>

(* Mutant: pending_unlink does not give the slot back.                     *)
PublicationExitLeaks(o) ==
    /\ state[o] \in {"attaching", "leaving"}
    /\ readers' = IF state[o] = "leaving" THEN readers
                  ELSE [readers EXCEPT ![slot[o]] = @ - 1]
    /\ Goto(o, IF state[o] = "attaching" THEN "attached" ELSE "gone")
    /\ UNCHANGED <<historyVars, writerVars, phase, slot, reg_seq, reduced,
                   sweepVars, reclaimVars>>

(* cachetag_pending_publication_done, or pending_unlink on the other paths.*)
PublicationExit(o) ==
    /\ state[o] \in {"attaching", "leaving"}
    /\ readers' = [readers EXCEPT ![slot[o]] = @ - 1]
    /\ Goto(o, IF state[o] = "attaching" THEN "attached" ELSE "gone")
    /\ UNCHANGED <<historyVars, writerVars, phase, slot, reg_seq, reduced,
                   sweepVars, reclaimVars>>

PublicationStep(o) ==
    \/ LoadPhase(o) \/ AddReader(o) \/ Recheck(o) \/ Retry(o) \/ LoadSeq(o)
    \/ Attach(o) \/ Abandon(o) \/ PublicationExit(o)

Indexed == {o \in Objects : state[o] \in {"attaching", "attached"}}

(* Take the object's record out of the index.                              *)
Remove(o) ==
    /\ Goto(o, IF state[o] = "attaching" THEN "leaving" ELSE "gone")
    /\ todo' = todo \ {o}

(* The record goes for a reason of its own: OEV_EXPIRE, stale() or the end *)
(* of the namespace.                                                       *)
Death(o) ==
    /\ o \in Indexed
    /\ Remove(o)
    /\ UNCHANGED <<historyVars, writerVars, gateVars, slot, reg_seq, reduced,
                   spc, cert, cutoff, certPhase, reclaimVars>>

(***************************************************************************)
(* Sweeps and reclamation                                                  *)
(***************************************************************************)
PurgeMtxFree == wpc = "idle"

(* purgemap_reclaim_locked: forget everything up to the cutoff.            *)
Forget(e) == [m \in Modes |-> IF e[m] <= reclaim_cutoff THEN 0 ELSE e[m]]

Reclaimable == reclaim_pending /\ readers[reclaim_phase] = 0

AfterReclaim == spc' = IF spc = "idle" THEN "begin" ELSE "idle"

(* try_reclaim runs at the start of a sweep and after a certified one.     *)
TryReclaim ==
    /\ spc \in {"idle", "finished"}
    /\ PurgeMtxFree
    /\ Reclaimable
    /\ entry' = [k \in Keys |-> Forget(entry[k])]
    /\ floor' = Forget(floor)
    /\ reclaim_pending' = FALSE
    /\ AfterReclaim
    /\ UNCHANGED <<seq, purged, writerVars, gateVars, objectVars, cert, cutoff,
                   certPhase, todo, reclaim_cutoff, reclaim_phase,
                   publication_blocked, publication_blocked_phase>>

(* Nothing to do, old publications still open, or no memory for the        *)
(* smaller table: the reclaim stays pending.                               *)
SkipReclaim ==
    /\ spc \in {"idle", "finished"}
    /\ PurgeMtxFree
    /\ AfterReclaim
    /\ UNCHANGED <<historyVars, writerVars, gateVars, objectVars, cert, cutoff,
                   certPhase, todo, reclaimVars>>

(* cert_begin, after its try_reclaim.                                      *)
StillBlocked ==
    publication_blocked /\ readers[publication_blocked_phase] # 0

CertRefused ==
    /\ spc = "begin"
    /\ PurgeMtxFree
    /\ StillBlocked \/ reclaim_pending
    /\ cert' = FALSE
    /\ spc' = "start"
    /\ publication_blocked' = StillBlocked
    /\ UNCHANGED <<historyVars, writerVars, gateVars, objectVars, cutoff,
                   certPhase, todo, reclaim_pending, reclaim_cutoff,
                   reclaim_phase, publication_blocked_phase>>

(* Mutant: a certificate does not wait for the slot of an aborted one.     *)
CertBeginUnblocked ==
    /\ spc = "begin"
    /\ PurgeMtxFree
    /\ ~reclaim_pending
    /\ publication_blocked' = FALSE
    /\ cert' = TRUE
    /\ cutoff' = seq
    /\ certPhase' = phase
    /\ phase' = 1 - phase
    /\ spc' = "start"
    /\ UNCHANGED <<historyVars, writerVars, readers, objectVars, todo,
                   reclaim_pending, reclaim_cutoff, reclaim_phase,
                   publication_blocked_phase>>

(* Mutant: the cutoff is read when the sweep has ended.                    *)
CertFinishLateCutoff ==
    /\ spc = "finish"
    /\ PurgeMtxFree
    /\ reclaim_cutoff' = seq
    /\ reclaim_phase' = certPhase
    /\ reclaim_pending' = TRUE
    /\ spc' = "finished"
    /\ UNCHANGED <<historyVars, writerVars, gateVars, objectVars, cert, cutoff,
                   certPhase, todo, publication_blocked,
                   publication_blocked_phase>>

CertBegin ==
    /\ spc = "begin"
    /\ PurgeMtxFree
    /\ ~StillBlocked /\ ~reclaim_pending
    /\ publication_blocked' = FALSE
    /\ cert' = TRUE
    /\ cutoff' = seq
    /\ certPhase' = phase
    /\ phase' = 1 - phase
    /\ spc' = "start"
    /\ UNCHANGED <<historyVars, writerVars, readers, objectVars, todo,
                   reclaim_pending, reclaim_cutoff, reclaim_phase,
                   publication_blocked_phase>>

(* record_sweep_purgemap: the objects that are indexed now will be judged  *)
(* (ObjectIndex), in batches between which obj_mtx is free.                *)
SweepStart ==
    /\ spc = "start"
    /\ todo' = Indexed
    /\ spc' = "sweep"
    /\ UNCHANGED <<historyVars, writerVars, gateVars, objectVars, cert, cutoff,
                   certPhase, reclaimVars>>

SweepKill(o) ==
    /\ spc = "sweep"
    /\ o \in todo
    /\ Probe(o) = "hard"
    /\ Remove(o)
    /\ UNCHANGED <<historyVars, writerVars, gateVars, slot, reg_seq, reduced,
                   spc, cert, cutoff, certPhase, reclaimVars>>

SweepKeep(o) ==
    /\ spc = "sweep"
    /\ o \in todo
    /\ Probe(o) # "hard"
    /\ reduced' = [reduced EXCEPT ![o] = @ \/ Probe(o) = "soft"]
    /\ todo' = todo \ {o}
    /\ UNCHANGED <<historyVars, writerVars, gateVars, state, slot, reg_seq,
                   spc, cert, cutoff, certPhase, reclaimVars>>

SweepEnd ==
    /\ spc = "sweep"
    /\ todo = {}
    /\ spc' = IF cert THEN "finish" ELSE "idle"
    /\ UNCHANGED <<historyVars, writerVars, gateVars, objectVars, cert, cutoff,
                   certPhase, todo, reclaimVars>>

(* sweep_stop was raised, or a record could not be removed.                *)
SweepAbort ==
    /\ spc \in {"start", "sweep"}
    /\ todo' = {}
    /\ spc' = IF cert THEN "aborted" ELSE "idle"
    /\ UNCHANGED <<historyVars, writerVars, gateVars, objectVars, cert, cutoff,
                   certPhase, reclaimVars>>

(* cert_finish *)
CertFinish ==
    /\ spc = "finish"
    /\ PurgeMtxFree
    /\ reclaim_cutoff' = cutoff
    /\ reclaim_phase' = certPhase
    /\ reclaim_pending' = TRUE
    /\ spc' = "finished"
    /\ UNCHANGED <<historyVars, writerVars, gateVars, objectVars, cert, cutoff,
                   certPhase, todo, publication_blocked,
                   publication_blocked_phase>>

CertAborted ==
    /\ spc = "aborted"
    /\ PurgeMtxFree
    /\ publication_blocked' = TRUE
    /\ publication_blocked_phase' = certPhase
    /\ spc' = "idle"
    /\ UNCHANGED <<historyVars, writerVars, gateVars, objectVars, cert, cutoff,
                   certPhase, todo, reclaim_pending, reclaim_cutoff,
                   reclaim_phase>>

SweepStep ==
    \/ TryReclaim \/ SkipReclaim \/ CertRefused \/ CertBegin
    \/ SweepStart \/ SweepEnd \/ CertFinish \/ CertAborted
    \/ \E o \in Objects : SweepKill(o) \/ SweepKeep(o)

Next ==
    \/ \E K \in SUBSET Keys \ {{}}, m \in Modes : PurgeBegin(K, m)
    \/ CompactPrune
    \/ WriterStep
    \/ \E o \in Objects : PublicationStep(o) \/ Death(o)
    \/ SweepStep
    \/ SweepAbort

Spec == Init /\ [][Next]_vars

(* The purge_mtx holder and the sweep thread keep running; a fetch that    *)
(* registered an object ends, one way or another; the allocation of a      *)
(* smaller table does not fail every time; and from some time on no        *)
(* certified sweep is aborted, since sweep_stop is raised once, to end the *)
(* sweep thread.  (Aborting a sweep without certificate is the same step   *)
(* as ending it.)  Nobody has to start a fetch, a purge or a compaction.   *)
Fairness ==
    /\ WF_vars(WriterStep)
    /\ WF_vars(SweepStep)
    /\ SF_vars(TryReclaim)
    /\ <>[][~(cert /\ SweepAbort)]_vars
    /\ \A o \in Objects :
         WF_vars(state[o] # "new" /\ PublicationStep(o))

FairSpec == Spec /\ Fairness

(***************************************************************************)
(* Properties                                                              *)
(***************************************************************************)
States == {"new", "enter", "add", "recheck", "unstable", "stable", "pending",
           "attaching", "attached", "leaving", "gone"}

(* Every variable has its type.                                            *)
TypeOK ==
    /\ seq \in Seqs
    /\ entry \in [Keys -> [Modes -> Seqs]]
    /\ floor \in [Modes -> Seqs]
    /\ purged \in [Keys -> [Modes -> Seqs]]
    /\ wpc \in {"idle", "apply", "swap", "floors"}
    /\ batch \in [keys : SUBSET Keys, mode : Modes]
    /\ newFloor \in [Modes -> Seqs]
    /\ phase \in Slots
    /\ readers \in [Slots -> Nat]
    /\ state \in [Objects -> States]
    /\ slot \in [Objects -> Slots]
    /\ reg_seq \in [Objects -> Seqs]
    /\ reduced \in [Objects -> BOOLEAN]
    /\ spc \in {"idle", "begin", "start", "sweep", "finish", "finished",
                "aborted"}
    /\ cert \in BOOLEAN
    /\ cutoff \in Seqs
    /\ certPhase \in Slots
    /\ todo \in SUBSET Objects
    /\ reclaim_pending \in BOOLEAN
    /\ reclaim_cutoff \in Seqs
    /\ reclaim_phase \in Slots
    /\ publication_blocked \in BOOLEAN
    /\ publication_blocked_phase \in Slots

Registered == {o \in Objects : state[o] \in {"pending", "attaching", "attached"}}

(* A completed purge newer than the registration of an object that is      *)
(* pending or indexed is still visible to a probe of the object, or has    *)
(* already ended its TTL: certificates, the gate and reclaim_locked never  *)
(* forget a purge too early.                                               *)
NoLostInvalidation ==
    \A o \in Registered, m \in Modes :
        (\E k \in Tags[o] : purged[k][m] > reg_seq[o]) =>
            Invalidated(o, m) \/ (m = "soft" /\ reduced[o])

(* The same while no purge or prune is in progress: what has been lost     *)
(* here stays lost.                                                        *)
NoPermanentLoss == wpc = "idle" => NoLostInvalidation

(* Outside the window of a prune, every purge newer than the last reclaim  *)
(* is still there under its own key or under the floor of its mode.        *)
HistoryIntact ==
    wpc # "floors" =>
        \A k \in Keys, m \in Modes :
            purged[k][m] > reclaim_cutoff =>
                \/ entry[k][m] = purged[k][m]
                \/ floor[m] >= purged[k][m]

(* Once purges stop, the history empties: aborted sweeps, deferred         *)
(* reclaims and blocked certificates never keep an entry for ever.         *)
HistoryDrains == <>[](Present = {} /\ floor = NoPurge)
=============================================================================
