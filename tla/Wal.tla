--------------------------------- MODULE Wal ---------------------------------
(***************************************************************************)
(* The write-ahead log of a namespace with a persist_path: appends, the    *)
(* rotation of segments, manifests, checkpoints, replay, and the purge     *)
(* path that drives them, against a file system that may fail any call,    *)
(* and with the process or the machine stopping between any two calls.     *)
(*                                                                         *)
(* A purge holds idx->purge_mtx and wal->mtx throughout, and a start is    *)
(* over before the first purge, so one control point (pc) stands for the   *)
(* call that is under way.                                                 *)
(*                                                                         *)
(* The disk.  meta is the directories as the system calls show them;       *)
(* images holds every state of them that the disk may hold after a loss    *)
(* of power.  On a journalled file system directory changes reach the disk *)
(* in order and a sync of either directory takes all of them; POSIX alone  *)
(* lets each change reach the disk on its own, and a sync takes one        *)
(* directory.  A manifest or checkpoint file is written under another      *)
(* name and synced before its rename, so it is its rename.                 *)
(***************************************************************************)
EXTENDS Integers, Sequences, FiniteSets

CONSTANTS
    Tags,               \* tag digests
    MaxSeq,             \* bound: purges that succeed or fail in a run
    SegmentMaxBytes,    \* wal->segment_max_bytes
    HistoryCap,         \* limits.purgemap_history_max_entries, 0 = no cap
    MaxGeneration       \* bound: compactions begin below this generation

ASSUME TagsFinite == IsFiniteSet(Tags) /\ Tags # {}
ASSUME MaxSeqNat == MaxSeq \in Nat
ASSUME SegmentMaxNat == SegmentMaxBytes \in Nat
ASSUME CapNat == HistoryCap \in Nat
ASSUME MaxGenerationNat == MaxGeneration \in Nat

VARIABLES
    journalled,         \* kind of file system
    meta, images,       \* the directories, and what may be on disk
    file,               \* the data of every segment, by first sequence
    next_seq, generation, checkpoint, segments, fd, degraded,
    seq, hist, floor,   \* pm->seq, newest purge of each tag, pm->hard_floor
    undo,               \* the history before the prune under way
    pc, op, batch,      \* control point, call and keys under way
    removed,            \* a clean-up has unlinked something
    newck, collected,   \* locals of cachetag_wal_checkpoint
    owed, peak          \* purges that returned success, newest sequence
                        \* published (neither is in the code)

diskVars == <<journalled, meta, images, file>>
walVars == <<next_seq, generation, checkpoint, segments, fd, degraded>>
mapVars == <<seq, hist, floor, undo>>
callVars == <<op, batch, removed, newck, collected>>
ghostVars == <<owed, peak>>
vars == <<journalled, meta, images, file, next_seq, generation, checkpoint,
          segments, fd, degraded, seq, hist, floor, undo, pc, op, batch,
          removed, newck, collected, owed, peak>>

MaxOf(a, b) == IF a > b THEN a ELSE b
Seqs == 0 .. MaxSeq
Firsts == 1 .. MaxSeq + 1
NoHistory == [t \in Tags |-> 0]
NoCheckpoint == [gen |-> 0, wal |-> 0, seq |-> 0, hist |-> NoHistory,
                 floor |-> 0]
NoManifest == [gen |-> 0, last |-> 0, ck |-> NoCheckpoint, segs |-> <<>>]
NoneCollected == [segs |-> {}, ck |-> NoCheckpoint]
NewSegment(n) == [first |-> n, last |-> 0, bytes |-> 0]
EmptyFile == [recs |-> <<>>, synced |-> 0, torn |-> FALSE, clean |-> TRUE]

(* Records differ in length: a header, and sixteen bytes a key.  A record  *)
(* knows where in its file it ends.                                        *)
Size(K) == 1 + Cardinality(K)
BytesOf(recs) == IF recs = <<>> THEN 0 ELSE recs[Len(recs)].end

Active == segments[Len(segments)]
Listed(segs) == {segs[i].first : i \in 1 .. Len(segs)}

Init ==
    /\ journalled \in BOOLEAN
    /\ meta = [man |-> NoManifest, cks |-> {}, names |-> {}]
    /\ images = {meta}
    /\ file = [n \in Firsts |-> EmptyFile]
    /\ next_seq = 1 /\ generation = 0 /\ checkpoint = NoCheckpoint
    /\ segments = <<NewSegment(1)>> /\ fd = FALSE /\ degraded = FALSE
    /\ seq = 0 /\ hist = NoHistory /\ floor = 0
    /\ undo = [hist |-> NoHistory, floor |-> 0]
    /\ pc = "off" /\ op = "recover" /\ batch = {} /\ removed = FALSE
    /\ newck = NoCheckpoint /\ collected = NoneCollected
    /\ owed = NoHistory /\ peak = 0

(***************************************************************************)
(* The file system                                                         *)
(***************************************************************************)

(* A change of a directory goes to what the calls show, and to the images  *)
(* that it may or may not reach.                                           *)
Bases == IF journalled THEN {meta} ELSE images

Link(n) ==
    LET With(m) == [m EXCEPT !.names = @ \cup {n}]
    IN  meta' = With(meta) /\ images' = images \cup {With(m) : m \in Bases}

Unlink(n) ==
    LET Without(m) == [m EXCEPT !.names = @ \ {n}]
    IN  meta' = Without(meta)
        /\ images' = images \cup {Without(m) : m \in Bases}

LinkCheckpoint(c) ==
    LET With(m) == [m EXCEPT !.cks = {d \in m.cks : d.gen # c.gen} \cup {c}]
    IN  meta' = With(meta) /\ images' = images \cup {With(m) : m \in Bases}

UnlinkCheckpoint(c) ==
    LET Without(m) == [m EXCEPT !.cks = @ \ {c}]
    IN  meta' = Without(meta)
        /\ images' = images \cup {Without(m) : m \in Bases}

LinkManifest(x) ==
    LET With(m) == [m EXCEPT !.man = x]
    IN  meta' = With(meta) /\ images' = images \cup {With(m) : m \in Bases}

(* cachetag_wal_fsync_dir of wal_dir, and of root.                         *)
SyncWal ==
    /\ images' = IF journalled THEN {meta}
                 ELSE {m \in images : m.names = meta.names}
    /\ UNCHANGED meta

SyncRoot ==
    /\ images' = IF journalled THEN {meta}
                 ELSE {m \in images : m.man = meta.man /\ m.cks = meta.cks}
    /\ UNCHANGED meta

Synced(f) == [f EXCEPT !.synced = Len(f.recs), !.clean = TRUE]

(* What a loss of power leaves of a file: what was synced, and perhaps     *)
(* more of it, and perhaps a part of a record.                             *)
Survivors(f) ==
    IF f.clean THEN {f}
    ELSE {[recs |-> SubSeq(f.recs, 1, n), synced |-> n, torn |-> x,
           clean |-> TRUE] : n \in f.synced .. Len(f.recs), x \in BOOLEAN}

(***************************************************************************)
(* The history                                                             *)
(***************************************************************************)
Present(h) == {t \in Tags : h[t] # 0}
OverCap(h) == HistoryCap # 0 /\ Cardinality(Present(h)) > HistoryCap

Upsert(h, K, s) == [t \in Tags |-> IF t \in K THEN s ELSE h[t]]

(* cachetag_purgemap_prune_locked: the oldest purges move to the floor,    *)
(* all that share a sequence together.                                     *)
Pruned(v) ==
    LET need == Cardinality(Present(v.hist)) - (HistoryCap * 75) \div 100
        upTo(s) == {t \in Present(v.hist) : v.hist[t] <= s}
        cutoff == CHOOSE s \in Seqs :
                     /\ Cardinality(upTo(s)) >= need
                     /\ \A r \in Seqs : r < s => Cardinality(upTo(r)) < need
    IN  IF ~OverCap(v.hist) THEN v
        ELSE [v EXCEPT !.hist = [t \in Tags |->
                                   IF t \in upTo(cutoff) THEN 0 ELSE @[t]],
                       !.floor = MaxOf(@, cutoff)]

(***************************************************************************)
(* Start: cachetag_persist_replay                                          *)
(***************************************************************************)
Start ==
    /\ pc = "off"
    /\ pc' = "load"
    /\ UNCHANGED <<diskVars, walVars, mapVars, callVars, ghostVars>>

(* The segments of a manifest start after its checkpoint, have no gap, and *)
(* only the last may be open.                                              *)
Contiguous(m) ==
    \A i \in 1 .. Len(m.segs) :
        /\ m.segs[i].first = 1 + IF i = 1 THEN m.ck.wal
                                 ELSE m.segs[i - 1].last
        /\ m.segs[i].last = 0 => i = Len(m.segs)
        /\ m.segs[i].last # 0 => m.segs[i].last >= m.segs[i].first

(* Without a manifest there must be no record.                             *)
LoadNothing ==
    /\ pc = "load"
    /\ meta.man = NoManifest
    /\ pc' = IF \A n \in meta.names : file[n].recs = <<>>
             THEN "gc" ELSE "refused"
    /\ UNCHANGED <<diskVars, walVars, mapVars, callVars, ghostVars>>

(* cachetag_wal_manifest_load_locked: if no segment is open, the next one  *)
(* will be.                                                                *)
LoadManifest ==
    LET m == meta.man
        last == MaxOf(m.last, m.ck.wal)
        open == m.segs # <<>> /\ m.segs[Len(m.segs)].last = 0
    IN  /\ pc = "load"
        /\ m # NoManifest
        /\ IF Contiguous(m)
           THEN /\ generation' = m.gen
                /\ checkpoint' = m.ck
                /\ segments' = IF open THEN m.segs
                               ELSE Append(m.segs, NewSegment(last + 1))
                /\ next_seq' = 1 + IF open THEN m.last ELSE last
                /\ pc' = "gc"
           ELSE pc' = "refused" /\ UNCHANGED <<generation, checkpoint,
                                               segments, next_seq>>
        /\ UNCHANGED <<diskVars, fd, degraded, mapVars, callVars, ghostVars>>

OrphanSegments ==
    IF meta.man = NoManifest THEN meta.names
    ELSE meta.names \ Listed(segments)

OrphanCheckpoints ==
    IF meta.man = NoManifest THEN {}
    ELSE {c \in meta.cks : c.gen # checkpoint.gen}

(* cachetag_wal_manifest_orphan_gc_locked, and the unlinking of record-    *)
(* less files in cachetag_wal_orphan_files_have_records.                   *)
UnlinkOrphan ==
    /\ pc = "gc"
    /\ \/ \E n \in OrphanSegments : Unlink(n)
       \/ /\ OrphanSegments = {}
          /\ \E c \in OrphanCheckpoints : UnlinkCheckpoint(c)
    /\ removed' = TRUE
    /\ UNCHANGED <<journalled, file, walVars, mapVars, pc, op, batch, newck,
                   collected, ghostVars>>

OrphansGone ==
    /\ pc = "gc"
    /\ OrphanSegments = {} /\ OrphanCheckpoints = {}
    /\ pc' = IF removed THEN "gcWal" ELSE "replay"
    /\ removed' = FALSE
    /\ UNCHANGED <<diskVars, walVars, mapVars, op, batch, newck, collected,
                   ghostVars>>

SyncOrphans ==
    /\ \/ /\ pc = "gcWal" /\ SyncWal
          /\ pc' = IF meta.man = NoManifest THEN "replay" ELSE "gcRoot"
       \/ /\ pc = "gcRoot" /\ SyncRoot
          /\ pc' = "replay"
    /\ UNCHANGED <<journalled, file, walVars, mapVars, callVars, ghostVars>>

(* The records of the listed segments, found by their number in the log.   *)
LogRecords ==
    UNION {{file[n].recs[j] : j \in 1 .. Len(file[n].recs)} :
               n \in Listed(segments)}
RecordAt(w) == CHOOSE r \in LogRecords : r.wal = w
LogEnd == Active.first + Len(file[Active.first].recs) - 1

(* A record must be newer than all before it.                              *)
Follows(r, s) == r.tags # {} /\ r.seq > s

(* Every segment goes on where the one before it ended, and so does every  *)
(* record.  A part of a record ends the open segment and spoils a sealed   *)
(* one.                                                                    *)
Replayable ==
    /\ checkpoint # NoCheckpoint => checkpoint \in meta.cks
    /\ Contiguous([ck |-> checkpoint, segs |-> segments])
    /\ \A i \in 1 .. Len(segments) :
          LET s == segments[i]
              f == file[s.first]
          IN  /\ s.first \in meta.names
              /\ \A j \in 1 .. Len(f.recs) : f.recs[j].wal = s.first + j - 1
              /\ s.last # 0 => /\ ~f.torn
                               /\ s.first + Len(f.recs) - 1 = s.last
                               /\ s.bytes = BytesOf(f.recs)
    /\ \A w \in checkpoint.wal + 1 .. LogEnd :
          Follows(RecordAt(w), IF w = checkpoint.wal + 1 THEN checkpoint.seq
                               ELSE RecordAt(w - 1).seq)

(* cachetag_purgemap_checkpoint_begin and _entry: the map is that of the   *)
(* checkpoint, or empty without one.                                       *)
FromCheckpoint ==
    [hist |-> checkpoint.hist, floor |-> checkpoint.floor,
     seq |-> checkpoint.seq]

(* cachetag_purgemap_replay: what Apply and Prune did, for one record.     *)
ReplayRecord(map, r) ==
    Pruned([map EXCEPT !.hist = Upsert(@, r.tags, r.seq), !.seq = r.seq])

(* cachetag_wal_replay_checkpoint, then the first n records in order.      *)
Replayed[n \in Seqs] ==
    IF n = 0 THEN FromCheckpoint
    ELSE ReplayRecord(Replayed[n - 1], RecordAt(checkpoint.wal + n))

Recovered == Replayed[LogEnd - checkpoint.wal]

(* cachetag_wal_recovery_checkpoint_due                                    *)
RecoveryDue(next) == checkpoint = NoCheckpoint \/ next - 1 > checkpoint.wal

Replay ==
    /\ pc = "replay"
    /\ meta.man # NoManifest
    /\ IF Replayable
       THEN /\ hist' = Recovered.hist
            /\ floor' = Recovered.floor
            /\ seq' = Recovered.seq
            /\ next_seq' = MaxOf(next_seq, LogEnd + 1)
            /\ segments' = [segments EXCEPT ![Len(segments)].bytes =
                               BytesOf(file[Active.first].recs)]
            /\ IF RecoveryDue(next_seq')
               THEN pc' = "prep" /\ UNCHANGED peak
               ELSE pc' = "ready" /\ peak' = seq'
       ELSE /\ pc' = "refused"
            /\ UNCHANGED <<hist, floor, seq, next_seq, segments, peak>>
    /\ UNCHANGED <<diskVars, generation, checkpoint, fd, degraded, undo,
                   callVars, owed>>

(* A directory without a manifest has nothing to replay.                   *)
ReplayNothing ==
    /\ pc = "replay"
    /\ meta.man = NoManifest
    /\ pc' = "prep"
    /\ UNCHANGED <<diskVars, walVars, mapVars, callVars, ghostVars>>

(***************************************************************************)
(* cachetag_wal_prepare_locked                                             *)
(***************************************************************************)
Prepared == IF op = "append" THEN "room" ELSE "ckWrite"

(* Mutant: a torn record is left where the next one will be written.       *)
PrepareUncut ==
    LET n == Active.first IN
    /\ pc = "prep"
    /\ fd' = TRUE
    /\ IF fd \/ n \in meta.names
       THEN pc' = Prepared /\ UNCHANGED <<meta, images, file>>
       ELSE /\ Link(n)
            /\ file' = [file EXCEPT ![n] = EmptyFile]
            /\ pc' = "prepWal"
    /\ UNCHANGED <<journalled, next_seq, generation, checkpoint, segments,
                   degraded, mapVars, callVars, ghostVars>>

(* The open segment's file is opened, or created, and cut to the records   *)
(* that were replayed.  The directories it is in are taken to exist.       *)
Prepare ==
    LET n == Active.first IN
    /\ pc = "prep"
    /\ fd' = TRUE
    /\ IF fd \/ n \in meta.names
       THEN /\ file' = IF ~fd /\ file[n].torn
                       THEN [file EXCEPT ![n].torn = FALSE, ![n].clean = FALSE]
                       ELSE file
            /\ pc' = Prepared
            /\ UNCHANGED <<meta, images>>
       ELSE /\ Link(n)
            /\ file' = [file EXCEPT ![n] = EmptyFile]
            /\ pc' = "prepWal"
    /\ UNCHANGED <<journalled, next_seq, generation, checkpoint, segments,
                   degraded, mapVars, callVars, ghostVars>>

(* The directory of a new segment is synced before a manifest lists it.    *)
SyncNewSegment ==
    /\ \/ pc = "prepWal" /\ pc' = "prepRename"
       \/ pc = "rotWal" /\ pc' = "rotRename"
    /\ SyncWal
    /\ UNCHANGED <<journalled, file, walVars, mapVars, callVars, ghostVars>>

(***************************************************************************)
(* cachetag_wal_manifest_publish_locked                                    *)
(***************************************************************************)
ManifestNow == [gen |-> generation + 1, last |-> next_seq - 1,
                ck |-> checkpoint, segs |-> segments]

RenameManifest ==
    /\ \/ pc = "prepRename" /\ pc' = "prepRoot"
       \/ pc = "rotRename" /\ pc' = "rotRoot"
       \/ pc = "ckRename" /\ pc' = "ckPublish"
    /\ generation' = generation + 1
    /\ LinkManifest(ManifestNow)
    /\ UNCHANGED <<journalled, file, next_seq, checkpoint, segments, fd,
                   degraded, mapVars, callVars, ghostVars>>

SyncManifest ==
    /\ \/ pc = "prepRoot" /\ pc' = Prepared
       \/ pc = "rotRoot" /\ pc' = IF op = "append" THEN "write"
                                  ELSE "ckInstall"
       \/ pc = "ckPublish" /\ pc' = "ckUnlink"
    /\ SyncRoot
    /\ UNCHANGED <<journalled, file, walVars, mapVars, callVars, ghostVars>>

(***************************************************************************)
(* cachetag_wal_rotate_locked                                              *)
(***************************************************************************)
Rotate ==
    LET n == Active.first IN
    /\ pc = "rotate"
    /\ segments' = Append([segments EXCEPT ![Len(segments)].last =
                              next_seq - 1],
                          NewSegment(next_seq))
    /\ Link(next_seq)
    /\ file' = [file EXCEPT ![n] = Synced(@)]
    /\ fd' = TRUE
    /\ pc' = "rotWal"
    /\ UNCHANGED <<journalled, next_seq, generation, checkpoint, degraded,
                   mapVars, callVars, ghostVars>>

(***************************************************************************)
(* cachetag_purge and cachetag_purge_batch                                 *)
(***************************************************************************)
Purge(K) ==
    /\ pc = "ready"
    /\ ~degraded
    /\ seq < MaxSeq
    /\ batch' = K
    /\ op' = "append"
    /\ pc' = "prep"
    /\ UNCHANGED <<diskVars, walVars, mapVars, removed, newck, collected,
                   ghostVars>>

(* cachetag_wal_append: rotate when the record would pass the limit.       *)
MakeRoom ==
    /\ pc = "room"
    /\ pc' = IF /\ Active.bytes > 0
                /\ Active.bytes + Size(batch) > SegmentMaxBytes
             THEN "rotate" ELSE "write"
    /\ UNCHANGED <<diskVars, walVars, mapVars, callVars, ghostVars>>

(* cachetag_persist_key_purge_batch: one record has the whole batch.       *)
RecordOf(K) ==
    [wal |-> next_seq, seq |-> seq + 1, tags |-> K,
     end |-> BytesOf(file[Active.first].recs) + Size(K)]

WriteRecord ==
    LET n == Active.first
        r == RecordOf(batch)
    IN  /\ pc = "write"
        /\ next_seq' = next_seq + 1
        /\ file' = [file EXCEPT ![n].recs = Append(@, r), ![n].clean = FALSE]
        /\ pc' = "sync"
        /\ UNCHANGED <<journalled, meta, images, generation, checkpoint,
                       segments, fd, degraded, mapVars, callVars, ghostVars>>

(* Mutant: the record is left in the page cache.                           *)
SyncRecordLater ==
    /\ pc = "sync"
    /\ segments' = [segments EXCEPT ![Len(segments)].bytes = @ + Size(batch)]
    /\ pc' = "apply"
    /\ UNCHANGED <<diskVars, next_seq, generation, checkpoint, fd, degraded,
                   mapVars, callVars, ghostVars>>

SyncRecord ==
    /\ pc = "sync"
    /\ file' = [file EXCEPT ![Active.first] = Synced(@)]
    /\ segments' = [segments EXCEPT ![Len(segments)].bytes = @ + Size(batch)]
    /\ pc' = "apply"
    /\ UNCHANGED <<journalled, meta, images, next_seq, generation, checkpoint,
                   fd, degraded, mapVars, callVars, ghostVars>>

(* The purge takes effect in memory.                                       *)
Apply ==
    /\ pc = "apply"
    /\ seq' = seq + 1
    /\ hist' = Upsert(hist, batch, seq')
    /\ peak' = seq'
    /\ pc' = "prune"
    /\ UNCHANGED <<diskVars, walVars, floor, undo, callVars, owed>>

(* cachetag_wal_checkpoint_due                                             *)
CheckpointDue ==
    \E i \in 1 .. Len(segments) : segments[i].last > checkpoint.wal

(* The purge returns success.                                              *)
Return ==
    /\ pc' = "ready"
    /\ owed' = Upsert(owed, batch, seq)
    /\ batch' = {}
    /\ op' = "append"

(* cachetag_purgemap_prune_checkpoint_locked.  A prune that finds no       *)
(* memory leaves the checkpoint for another time.                          *)
Prune ==
    LET now == [hist |-> hist, floor |-> floor] IN
    /\ pc = "prune"
    /\ \/ /\ hist' = Pruned(now).hist
          /\ floor' = Pruned(now).floor
          /\ undo' = now
          /\ IF OverCap(hist) \/ CheckpointDue
             THEN /\ op' = "tidy"
                  /\ pc' = "ckWrite"
                  /\ UNCHANGED <<owed, batch>>
             ELSE Return
       \/ /\ OverCap(hist)
          /\ Return
          /\ UNCHANGED <<hist, floor, undo>>
    /\ UNCHANGED <<diskVars, walVars, seq, removed, newck, collected, peak>>

(* cachetag_compact_all prunes and writes a checkpoint in any case, for no *)
(* purge; one that finds no memory does nothing.                           *)
Compact ==
    LET now == [hist |-> hist, floor |-> floor] IN
    /\ pc = "ready"
    /\ ~degraded
    /\ generation < MaxGeneration
    /\ hist' = Pruned(now).hist
    /\ floor' = Pruned(now).floor
    /\ undo' = now
    /\ op' = "tidy"
    /\ batch' = {}
    /\ pc' = "prep"
    /\ UNCHANGED <<diskVars, walVars, seq, removed, newck, collected,
                   ghostVars>>

(***************************************************************************)
(* cachetag_wal_checkpoint                                                 *)
(***************************************************************************)

(* Every entry of the map, under a header with its sequence and floors.    *)
Snapshot == [gen |-> generation + 1, wal |-> next_seq - 1, seq |-> seq,
             hist |-> hist, floor |-> floor]

WriteCheckpoint ==
    /\ pc = "ckWrite"
    /\ newck' = Snapshot
    /\ LinkCheckpoint(newck')
    /\ pc' = "ckRoot"
    /\ UNCHANGED <<journalled, file, walVars, mapVars, op, batch, removed,
                   collected, ghostVars>>

SyncCheckpoint ==
    /\ pc = "ckRoot"
    /\ SyncRoot
    /\ pc' = IF Active.bytes > 0 THEN "rotate" ELSE "ckInstall"
    /\ UNCHANGED <<journalled, file, walVars, mapVars, callVars, ghostVars>>

(* Mutants: without the segment the checkpoint ends in; with the open one. *)
CoveredBefore(s) == s.last # 0 /\ s.last < newck.wal
CoveredOpen(s) == s.last <= newck.wal
Covered(s) == s.last # 0 /\ s.last <= newck.wal

(* Segments the checkpoint covers leave the list; they are the first ones. *)
InstallCheckpoint ==
    LET covered == Cardinality({i \in 1 .. Len(segments) :
                                    Covered(segments[i])})
        kept == SubSeq(segments, covered + 1, Len(segments))
    IN
    /\ pc = "ckInstall"
    /\ segments' = kept
    /\ collected' = [segs |-> Listed(segments) \ Listed(kept),
                     ck |-> checkpoint]
    /\ checkpoint' = newck
    /\ pc' = "ckRename"
    /\ UNCHANGED <<diskVars, next_seq, generation, fd, degraded, mapVars, op,
                   batch, removed, newck, ghostVars>>

(* Only then are the files unlinked; one that cannot be is left behind.    *)
UnlinkCovered ==
    /\ pc = "ckUnlink"
    /\ \/ \E n \in collected.segs :
             /\ Unlink(n) \/ UNCHANGED <<meta, images>>
             /\ collected' = [collected EXCEPT !.segs = @ \ {n}]
             /\ UNCHANGED pc
       \/ /\ collected.segs = {}
          /\ \/ collected.ck # NoCheckpoint /\ UnlinkCheckpoint(collected.ck)
             \/ UNCHANGED <<meta, images>>
          /\ collected' = NoneCollected
          /\ pc' = "ckDone"
    /\ UNCHANGED <<journalled, file, walVars, mapVars, op, batch, removed,
                   newck, ghostVars>>

(* The last two syncs may fail unnoticed.  At most one is taken: the other *)
(* would only take more images away.                                       *)
CheckpointDone ==
    /\ pc = "ckDone"
    /\ SyncWal \/ SyncRoot \/ UNCHANGED <<meta, images>>
    /\ newck' = NoCheckpoint
    /\ IF op = "tidy" THEN Return
       ELSE pc' = "ready" /\ UNCHANGED <<op, batch, owed>>
    /\ peak' = seq
    /\ UNCHANGED <<journalled, file, walVars, mapVars, removed, collected>>

(***************************************************************************)
(* Failures                                                                *)
(***************************************************************************)

(* cachetag_wal_fail_locked: a call of the file system fails.  The log     *)
(* takes nothing more; a start fails; a purge fails if its record was not  *)
(* yet synced, and otherwise succeeds, with a prune undone.                *)
Fail ==
    /\ pc \notin {"off", "refused", "failed", "ready", "room", "apply",
                  "prune", "ckInstall", "ckUnlink", "ckDone"}
    /\ degraded' = TRUE
    /\ file' \in IF pc = "write"
                 THEN {file, [file EXCEPT ![Active.first].torn = TRUE,
                                          ![Active.first].clean = FALSE]}
                 ELSE {file}
    /\ IF op = "tidy"
       THEN Return /\ hist' = undo.hist /\ floor' = undo.floor
       ELSE /\ pc' = IF op = "append" THEN "ready" ELSE "failed"
            /\ batch' = {}
            /\ UNCHANGED <<hist, floor, op, owed>>
    /\ UNCHANGED <<journalled, meta, images, next_seq, generation,
                   checkpoint, segments, fd, seq, undo, removed, newck,
                   collected, peak>>

Stopped ==
    /\ next_seq' = 1 /\ generation' = 0 /\ checkpoint' = NoCheckpoint
    /\ segments' = <<NewSegment(1)>> /\ fd' = FALSE /\ degraded' = FALSE
    /\ seq' = 0 /\ hist' = NoHistory /\ floor' = 0
    /\ undo' = [hist |-> NoHistory, floor |-> 0]
    /\ pc' = "off" /\ op' = "recover" /\ batch' = {} /\ removed' = FALSE
    /\ newck' = NoCheckpoint /\ collected' = NoneCollected

(* The process stops; its system calls stay.                               *)
Kill ==
    /\ pc # "off"
    /\ Stopped
    /\ UNCHANGED <<diskVars, ghostVars>>

(* The machine stops.                                                      *)
PowerLoss ==
    /\ Stopped
    /\ meta' \in images
    /\ images' = {meta'}
    /\ LET dirty == {n \in Firsts : ~file[n].clean}
       IN  \E g \in [dirty -> UNION {Survivors(file[n]) : n \in dirty}] :
              /\ \A n \in dirty : g[n] \in Survivors(file[n])
              /\ file' = [n \in Firsts |-> IF n \in dirty THEN g[n]
                                          ELSE file[n]]
    /\ UNCHANGED <<journalled, ghostVars>>

Next ==
    \/ Start \/ LoadNothing \/ LoadManifest
    \/ UnlinkOrphan \/ OrphansGone \/ SyncOrphans
    \/ Replay \/ ReplayNothing
    \/ Prepare \/ SyncNewSegment \/ RenameManifest \/ SyncManifest \/ Rotate
    \/ \E K \in (SUBSET Tags) \ {{}} : Purge(K)
    \/ MakeRoom \/ WriteRecord \/ SyncRecord \/ Apply \/ Prune
    \/ Compact
    \/ WriteCheckpoint \/ SyncCheckpoint \/ InstallCheckpoint
    \/ UnlinkCovered \/ CheckpointDone
    \/ Fail \/ Kill \/ PowerLoss

Spec == Init /\ [][Next]_vars

(***************************************************************************)
(* Properties                                                              *)
(***************************************************************************)
Steps == {"off", "load", "gc", "gcWal", "gcRoot", "replay", "prep", "prepWal",
          "prepRename", "prepRoot", "rotate", "rotWal", "rotRename",
          "rotRoot", "room", "write", "sync", "apply", "prune", "ckWrite",
          "ckRoot", "ckInstall", "ckRename", "ckPublish", "ckUnlink",
          "ckDone", "ready", "refused", "failed"}

Checkpoints == [gen : Nat, wal : Seqs, seq : Seqs, hist : [Tags -> Seqs],
                floor : Seqs]
Segments == [first : Firsts, last : Seqs, bytes : Nat]
Records == [wal : 1 .. MaxSeq, seq : 1 .. MaxSeq, tags : SUBSET Tags,
            end : Nat]
Metas == [man : [gen : Nat, last : Seqs, ck : Checkpoints,
                 segs : Seq(Segments)],
          cks : SUBSET Checkpoints, names : SUBSET Firsts]

(* The state is well formed: sequences stay within their bound and what    *)
(* power loss may leave includes what the system calls show.               *)
TypeOK ==
    /\ journalled \in BOOLEAN
    /\ images \subseteq Metas /\ meta \in images
    /\ file \in [Firsts -> [recs : Seq(Records), synced : Nat,
                           torn : BOOLEAN, clean : BOOLEAN]]
    /\ next_seq \in Firsts /\ generation \in Nat
    /\ checkpoint \in Checkpoints
    /\ segments \in Seq(Segments) /\ segments # <<>>
    /\ fd \in BOOLEAN /\ degraded \in BOOLEAN
    /\ seq \in Seqs /\ hist \in [Tags -> Seqs] /\ floor \in Seqs
    /\ undo \in [hist : [Tags -> Seqs], floor : Seqs]
    /\ pc \in Steps /\ op \in {"recover", "append", "tidy"}
    /\ batch \subseteq Tags /\ removed \in BOOLEAN
    /\ newck \in Checkpoints
    /\ collected \in [segs : SUBSET Firsts, ck : Checkpoints]
    /\ owed \in [Tags -> Seqs] /\ peak \in Seqs

(* Whatever stops or fails, the next start can read what it finds: a       *)
(* manifest never lists a file that is missing, short or of the wrong      *)
(* range, and no record lies outside a manifest (wal.c:1224, 1408-1425,    *)
(* 1580, 1632, 1657).  A disk that reorders directory changes can break    *)
(* this, if the process and then the machine stop.                         *)
NeverRefuses == journalled => pc # "refused"

(* The log stays bounded: when a purge is over, the checkpoint has         *)
(* collected every segment but the open one (wal.c:803, purgemap.c:1489).  *)
LogBounded ==
    pc = "ready" /\ ~degraded /\ ~OverCap(hist) => Len(segments) = 1

(* The namespace is warm.                                                  *)
Up == pc \in {"room", "write", "sync", "apply", "prune", "ready"}
          \/ op # "recover"

Durable ==
    INSTANCE DurableHistory WITH
        up <- Up, seq <- peak,
        bound <- IF Up THEN [t \in Tags |-> MaxOf(hist[t], floor)] ELSE owed

(* The namespace implements DurableHistory: a purge that returned success  *)
(* is in force after any stop, and no sequence is published twice          *)
(* (docs/usage.md:156, docs/strictness.md:50).                             *)
PurgesAreDurable == Durable!Spec
=============================================================================
