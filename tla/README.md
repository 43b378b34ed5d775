# cachetag in TLA+

This directory is a specification of `libvmod-cachetag`, a module for Vinyl
Cache (Varnish) that tags cached objects and purges them by tag. A purge does not walk the
cache: it records `(tag digest, mode) -> sequence` in a *purge map*, and an
object is stale when a purge of one of its tags, or a floor that stands for
forgotten purges, is newer than the sequence the object registered under. The
VCL asks `namespace.stale()` in `vcl_hit` and again in `vcl_deliver`; a sweep
thread kills stale objects nobody asks for and then lets the history shrink.

What makes this hard is that nearly everything runs at once without a common
lock: request threads read the map's hash table without a lock while writers
replace and free it; an object moves from a pending list into an index while
others look for it; history may be forgotten only when no object, and no fetch
under way, still needs it; and kills come from requests, the insert callback,
sweeps, the cache's own expiry and the end of a VCL.

Paths below are relative to the repository; line numbers are in `PROJECT.json`.

## The system's parts

| part | state | operations | locks | modelled by |
|---|---|---|---|---|
| table lifetime and reader gate (`vmod_cachetag_purgemap.c`, `vmod_cachetag_index_private.h`) | `pm->table`, `reader_gate.{phase,readers[2]}`, `retire_reader_slot`, `reader_cond` | reader_enter/exit, rebuild, reclaim, prune, rollback, retire | writers: `purge_mtx`; sleeping: `reader_mtx` | `ReaderGate` |
| history, registration and reclamation (same, and `vmod_cachetag.c`) | `seq`, entries, floors, `publication_gate`, reclaim and blocked flags, each object's `publication_seq` and phase | publication_enter/exit, purge, purge_batch, prune, cert_begin/finish, try_reclaim, sweep | `purge_mtx`, `sweep_mtx`, `obj_mtx` | `PublicationGate` |
| `stale()`, insert callback, departure (`vmod_cachetag.c`, `cachetag_stale`) | pending list, index record, `OC_F_BUSY`, `OC_F_DYING`, request memo, where the object is stored | vmod stale, obj_cb INSERT/EXPIRE, kill_all, retire, pending_fini | `ns->mtx`, `obj_mtx`, none for flags | `StaleLookup` |
| contents of the map (`vmod_cachetag_purgemap.c`) | open-addressing table, `nentry`, `hard_floor`, `soft_floor`, `memo_seq` | upsert, prune, reclaim, select; probe, fast path, memo | none for probes | `PurgeHistory` (its buckets: planned) |
| object index (`vmod_cachetag_index.c`) | dense segmented vector, side table from objcore to slot (with migration), sweep cursor | attach, remove (swap with last), sweep in batches, kill_all, retire, detach_all, low-water resize | `obj_mtx` | `TrackedObjects` (abstract), `ObjectIndex`, `SideTable` |
| write-ahead log (`vmod_cachetag_wal.c`, replay in `vmod_cachetag_index.c`) | segments, manifest, checkpoint, `next_seq`, `degraded`, and what is on disk | open with orphan GC, replay, prepare, append, rotate, checkpoint | caller's `purge_mtx` and `wal->mtx` | `DurableHistory` (abstract), `Wal` |
| intern registry of tag sets (`vmod_cachetag_index.c`) | counted sets in chained buckets, a second table during a migration, allocations in flight | lookup, insert, release, grow, migrate, retire, detach_all | `obj_mtx`, released for every allocation | `InternRegistry` |
| VCL lifecycle (`vmod_cachetag.c`) | list of namespaces, their indexes, warm/subscribed/active flags, the provider | constructor (and its failure), warm, cold, discard, retire_unshared | lifecycle mutex, CLI thread | `VclLifecycle` |
| Fellow attribute (`vmod_cachetag.c`) | the registrations of an object, as bytes | size and fill callbacks, visit (two formats) | global and `ns->mtx` | `FellowEnvelope` (pure operators), used by `StaleLookup` |
| tag parsing, digests, counters, VSC, test hooks, benchmarks, packaging | | | | not modelled: strings, statistics, tooling |

How they interact. `add()` in `vcl_backend_response` enters the publication gate and puts a
registration on `ns->pending`; the core's `OEV_INSERT` attaches the object to
the index, probes the map, and leaves the gate. `purge()` holds `purge_mtx`,
takes the next sequence, upserts entries (which may rebuild the table and so
go through the reader gate), prunes over the cap, signals the sweep thread and
publishes `memo_seq`. A sweep takes a certificate, judges all indexed objects
under `obj_mtx` in batches, and arranges for a reclaim that runs once the old
publication slot has drained. `stale()` looks at the memo, the dying flag, the
index, the pending list and the index again, and in a persistent namespace at
the attribute that the Fellow storage engine kept with the object. In such a
namespace a purge is written to the log before it is applied, and a prune ends
in a checkpoint. Attaching an object also finds or makes its interned tag set.
Loading a VCL adopts the indexes of older VCLs or makes new ones; warming it
retires those it does not share.

What makes each part correct: the reader gate never frees a table in use and
never sleeps for ever; reclamation forgets no purge that a registered object
must still see and forgets the others in the end; a stale object is neither
delivered nor kept; the index names exactly the live tracked objects and the
sweep misses none that was indexed when it began; the log loses no purge that
returned success, at any crash point; equal tag sets are one set, counted
exactly and never leaked; an index is used by the namespaces that own it, swept
while one of them is warm, and deleted with the last.

## Modules

| module | models | state and actions |
|---|---|---|
| `ReaderGate` | the epoch gate over `pm->table` | one reader action per atomic operation (`LoadPhase`, `AddReader`, `Recheck`, `LoadTable`, `Exit`/`Retry`, `Broadcast`); the writer publishes (`PublishFirst`, `Publish`), flips, perhaps rolls back, then drains under `reader_mtx` (`LockReaderMtx`, `CheckDrained`) and frees |
| `PublicationGate` | registration, purge, sweep, reclaim of one memory-only namespace | per object the publication steps; one `purge_mtx` writer (`PurgeBegin`, `PurgeApply`, prune in two stores `PruneSwap`, `PruneFloors`); the sweeper's `TryReclaim`/`SkipReclaim`, `CertBegin`/`CertRefused`, `SweepKill`/`SweepKeep`, `SweepAbort`, `CertFinish`/`CertAborted` |
| `PurgeHistory` | one request's probes against the `purge_mtx` holder | the writer store by store: `StoreSeq`, `Upsert`, `CountEntry`, `PruneSwap`, `ReclaimSwap`, `StoreCount`, `StoreFloors`, `StoreMemoSeq`; the request load by load: `Call` (memo), `NoEntries`, `NoFloors` (fast path), `ReaderEnter`, `LoadHard`, `LoadSoft`, `LoadHardFloor`, `LoadSoftFloor`, `Return` |
| `StaleLookup` | one tagged object's life, in memory or on Fellow, perhaps from an earlier process (`storage`) | the fetch and insert callback (`Unbusy`, `Consume`, `Attach`/`ProbeStored`/`KillStored` .. `TaskEnd`), each request's `stale()` calls one look at a time (`ReadMemo` .. `ProbeFellow`, `ActHard`, `Kill`, `Death`), `SweepKill`, `Retire`, the namespace going cold (`Unsubscribe`, then `KillAll`) and `Warm`, `Depart`, `Expire` (heard only while there is a subscription), `Free` |
| `FellowEnvelope` | the attribute's two formats | operators only: `Size`, `Fill`, `Visit`; `StaleLookup` computes its answers with them |
| `TrackedObjects` | what the index promises: a set of tracked objects, and sweeps each of which judges every object tracked when it began once, unless it departs | `Track`, `Depart`, the sweep, `Close` |
| `ObjectIndex` | the dense arrays, the side map as a function, the sweep cursor; implements `TrackedObjects` | `Attach`, `Invalidate` (swap with hole and last slot), the sweep object by object, `Retire`, `Stop`, `KillAll`/`KillLast`/`KillDone`, `Start` |
| `SideTable` | the side map bucket by bucket | attaching threads (`TryInsert`, `TryRollback`, `TryBusy`, `TryNeedsTable`, `AttachPublish`, ...); `SideRemove` with repair of the slot codes; the worker's `Migrate`, `Reverse`, `SoftResize`, `Shrink`, `DropTables` |
| `DurableHistory` | what a persistent namespace promises across stops: nothing that returned success is lost, no sequence is published twice | `Purge`, `Return`, `Trim`, `Stop`, `Start` |
| `Wal` | the log against a file system that may fail any call, and a process or machine that may stop between any two; implements `DurableHistory` | one action per system call: open (`LoadManifest`, orphan GC, `Replay`), `Prepare` .., `WriteRecord`, `SyncRecord`, `Rotate` .., `Prune`, `Compact`, `WriteCheckpoint` .., `Fail`, `Kill`, `PowerLoss` |
| `VclLifecycle` | the namespaces of all loaded VCLs and their indexes | the CLI thread's calls step by step (`Load`, `GlobalAdd`, `IndexStart`, `Subscribe`, `ProviderEnsure`, `RetireUnshared`, `MarkCold`, `IndexStop`, `KillAll`, `GlobalRemove`, `IndexDelete`), and `Fetch`, `Insert`, `Expire` of objects |
| `InternRegistry` | the registry of tag sets and its growth | attaching threads (`Try`, `Help`, `TableReady`, `NodeReady`, ..., `Leave`), `Invalidate`, `SweepKill`, `Retire`, `DetachAll`, `WorkerWakes`, `WorkerBatch`; each is one critical section of `obj_mtx` |
| `ReaderGateProofs`, `PublicationGateProofs`, `PurgeHistoryProofs`, `ObjectIndexProofs`, `StaleLookupProofs`, `VclLifecycleProofs`, `InternRegistryProofs`, `WalProofs` | theorems and proofs | |
| `MCReaderGate`, `MCPublicationGate`, `MCPurgeHistory`, `MCObjectIndex`, `MCSideTable`, `MCVclLifecycle`, `MCInternRegistry` | symmetry sets, tag assignments, hashes and declarations that TLC uses | |

How they fit together. `PublicationGate` takes a probe and a swap of the table
as single steps; `PurgeHistory` takes the probe apart and `ReaderGate` the
lifetime of the tables. `PublicationGate` sweeps a *set* of objects:
`ObjectIndex` shows that the array with its swaps provides that set, through
`TrackedObjects`. `ObjectIndex` takes the side map to be a function:
`SideTable` shows that its lookups are exact, bucket by bucket. `VclLifecycle`
takes an index to be the set of objects it tracks, and `StaleLookup`'s `Retire`,
`Unsubscribe` and `KillAll` are what its `RetireUnshared`, `MarkCold` and `KillAll` do
to one object. `Wal` has a history of
its own, of HARD purges, with the prune of `PurgeHistory` taken as one step,
because `purge_mtx` is held throughout.

A definition whose comment starts with "Mutant:" is not part of a
specification: it is a plausible mistake in the definition that follows it, and
substituting it there makes the property it is listed with in `PROJECT.json` fail.

## Runs

| run | question | bounds | result |
|---|---|---|---|
| `reader_gate` | with rollbacks, are tables leaked or lost, and does a retirement always end? | 2 readers, 2 tables | holds |
| `reader_gate_rollback` | can a reader use a freed table, with rollbacks? (without them it cannot: theorem `ReadersSafe`) | 2 readers, 3 tables | **violated** |
| `publication` | can a reclaim drop a purge an object still needs, no cap? | 2 objects, 1 key, 2 purges | holds |
| `publication_drain` | do floors remember what a prune drops, and does the history empty in the end? | 1 object, 2 keys, cap 1, 1 purge of any set of keys | holds |
| `publication_window` | is a purge lost for good across a prune? | 1 object, 2 keys, cap 1, 2 purges | **violated** |
| `history` | does a probe, its fast path or its memo miss a purge that returned before the call, or kill without a purge? | 1 object with 2 keys, cap 1, 3 purges | holds (outside a prune) |
| `stale` | do hits refuse stale objects, do purges take effect, do records outlive objects, is an object that a HARD purge meets ended? | 1 hit and 1 miss request, repeated, a sweep, 2 purges, every way an object can be stored | holds (outside the window of another `stale()`, and for records between the two steps of going cold) |
| `object_index` | do arrays, side map and cursor agree, does anything enter a closed index, does a sweep miss an object, does it end? | 5 objects, capacity 4 | holds |
| `side_table` | is every lookup exact, are live codes and tombstones counted? | 4 objects of which 3 fit, 2 hash values, tables of 2, 4, 8 buckets, 1 attacher | holds |
| `wal` | after any failure, crash or loss of power: can the namespace start, is the log bounded, is every purge that returned success in force? | 2 tags, 2 purges, segments of 4 bytes, cap 1, compactions below generation 3; journalled and POSIX directories | holds (starting: on journalled directories) |
| `lifecycle` | are indexes adopted, retired, swept and deleted by the right namespaces, does a purge through the newest VCL reach every object, is the provider registered exactly while needed? | 2 VCLs of 1 or 2 namespaces, 3 settings, 4 indexes, 1 object | holds |
| `intern` | are tag sets unique, counted, findable and freed, and is a migration ever left to nobody? | 3 objects, 2 attaches, 3 tag sets, tables of 1, 2, 4 buckets | holds |

The bounds are the smallest at which the interesting cases happen.

* A gate with two phases needs a reader that announced itself in the phase before
  last while another is in the current one; a rollback needs the published
  table, the replacement and one freed before.
* A reclaim that goes wrong needs one object registered before a purge and one
  after it; a prune needs more keys than the cap; a memo that goes wrong needs a
  purge before it, one during it and one to compare with; a stale delivery needs
  a victim and one other actor. `StaleLookup` makes no purge after a HARD one of
  the object, which nothing can add to.
* A removal under a sweep involves three slots (the one removed, the hole at the
  cursor, the last) and needs one object that stays out of it: four slots, and a
  fifth object that asks for room.
* `wal`: a second purge is what rotates a full segment and what an old checkpoint
  does not cover. A segment holds one record of each size but not two of
  the larger; the cap of one key makes the second purge prune and so publish a
  checkpoint. A compaction needs no purge, so their number has a bound of its own
  (`MaxGeneration`): the checkpoint of a start is the first manifest, and two more leave room
  for one before and one after a purge.
* `lifecycle`: sharing needs two VCLs; four indexes are as many as two VCLs of two
  namespaces can have without sharing. One VCL may declare a setting twice, and
  a namespace with a `persist_path` comes before and after one without.
* `intern`: two of the three sets collide until the table has four buckets; the
  table doubles twice. Helpers move one bucket (`MigrateSteps`), the worker two at
  a time (`BatchSteps`), so a migration is met half done. `DetachAll` starts the
  generations anew, since no thread remembers one then.

Sequences (`MaxSeq`, `MaxPurges`) are unbounded 64-bit counters in the code,
which refuses to purge at `UINT64_MAX`.

`side_table` has one attaching thread and tables that are too small to be
overfilled by a migration: the load limit of 8 buckets is 5, and 2 objects can
be left in the table of 4. At the sizes of the code one can be overfilled
(`SideTable_full.cfg`, below).

### What the violations say

* `publication_window`. `cachetag_purgemap_prune_locked` publishes the pruned table and
  `nentry` before `hard_floor` and `soft_floor`. A probe in between misses a
  purge that was just folded into a floor. Usually the next probe sees the floor; but
  if the probe was a sweep's, the object is kept, and the reclaim certified by
  that sweep lowers the floor again. A request's memo keeps such an answer too,
  for as long as `memo_seq` does not move, and the prune of a compaction does
  not move it. Storing the floors first would be safe. `history` therefore leaves
  answers out that were computed during a prune (`pruned`), and no others.
* `reader_gate_rollback`. A rolled back prune flips the phase twice, so a reader
  that announced itself in the first slot, was overtaken by the first flip
  after its re-read of the phase, and loaded the replacement is not waited for.

### Two more violations

Two configurations are not among the runs. Each checks one invariant that the comments of
the code imply and that TLC finds violated by what the code does; the properties that
the runs check make an exception of the same case.

* `tlc -config StaleLookup_cold.cfg StaleLookup` (`RecordsNeverFreed`).
  `cachetag_namespace_cold` unsubscribes from object events (`vmod_cachetag.c:2694`)
  before it stops the sweep and kills the objects (2700-2702). A departure in between
  is not heard (the comment at 2490 has the callback hear every one of them), and the
  record names a freed objcore until `kill_all`, which touches it, as may a sweep
  before it. Unsubscribing after `kill_all` would be safe for this. `RecordsAlive` and, in
  `VclLifecycle`, `DeparturesHeard` except this stretch.
* `tlc -config SideTable_full.cfg MCSideTable` (`EmptyBucketKept`). An insertion is
  refused room in the primary table at 7/10 of its buckets, but the objects that are
  still in the retiring table are moved into it without a look at its load. A table
  of 64 takes 44 objects; the next attach publishes one of 128, which takes 89 before
  an attach is made to help with the migration, and 44 + 89 is more than 128. The
  comment at `vmod_cachetag_index.c:2023` wants a bucket left empty: with none, a probe
  for an absent object is answered with `EFAULT`, and the migration is given up. The
  worker must be slow for this. All behaviours of 134 objects are more than TLC can
  search, so `FillSpec` takes those of `SideSpec` in which objects are attached one
  after the other and the worker, which is woken, does not get to run; all
  have one hash, which changes where they go and not how many there are. The
  run `side_table` says nothing about tables that are full, and `SideTableLookups`
  states the exception (`NoTableFull`).

### Met on the way

None of these is a run; each is an exception that a property names, or a bound.

* *Another request's window.* `cachetag_stale` removes the record; only its caller
  sets the dying flag. A second request that makes both its calls in between
  finds nothing and delivers. `HitsRefuseStale` excepts the requests that the
  window overlaps (`overlapped`), and no others. A request that missed has no
  second call: its only one reads the dying flag before the index, so a sweep's
  kill in between has the same effect; this is why the property is about hits.
* *A helper without work.* An attach that finds a migration in its way helps with
  it; if the worker ends the migration first, there is nothing to help with, and
  the attach is refused with `EBUSY` although there is room (`BusyRefused`).
* *Twins.* A VCL that declares two namespaces of one name and setting gives each the
  other's index at every reload, because the list is searched newest first.
  `usage.md:123` says the index follows the name, which is still true.
* *Directories that reorder.* On a file system that takes directory changes to disk
  in any order, `NeverRefuses` fails: the process is killed between the rename of
  a manifest and the sync of its directory, the next start collects orphans and
  syncs their removal first, and the power fails: the old manifest lists
  segments that are gone. The start then refuses, so no purge is forgotten
  (`PurgesAreDurable` holds on both kinds of file system).
* *The last sequence.* A purge at `UINT64_MAX - 1` is accepted, but its checkpoint is
  refused by the next start (`vmod_cachetag_purgemap.c:1887`). Out of the bounds here.
* `strictness.md:50` speaks of partial durable purges; a batch is one record of
  the log, so it is durable as a whole or not.

## Fairness

`ReaderGate`: threads inside the gate and the holder of `purge_mtx` keep running, and
a thread that keeps asking for `reader_mtx` gets it (strong fairness of
`Broadcast`; POSIX threads under a fair-enough scheduler). No fairness of new readers,
writers or spurious wakeups. `PublicationGate`: the purge under way, the sweep
thread and fetches that have begun keep running; allocating a smaller table does not
fail for ever; from some time on certified sweeps are not aborted (`sweep_stop`
is raised once, when the namespace ends). `StaleLookup`: the fetch task, the
requests that began and the sweep. `ObjectIndex`: the sweep thread and the loop of
`kill_all`. Nothing makes clients or purges arrive.

## Theorems

`tlapm` checks these for every value of the constants:

* `ReaderGateProofs!TypeCorrect`, `TablesOwned`, `ReadersSafe`. The argument of
  `ReadersSafe` is that `readers[s]` counts exactly the readers between
  `AddReader` and release in slot `s`, and that a reader using a table other
  than the published one sits in that table's `retire_reader_slot`; so
  an empty slot means nobody has it. The last part needs that no second
  flip happens before the drain, which is the assumption `~CheckpointMayFail`
  (the run `reader_gate_rollback` shows it is necessary).
* `PublicationGateProofs!TypeCorrect` and `HistoryNotLost` for any history cap, and
  `InvalidationsKept` under `HistoryCap = 0` (with a cap the run `publication_window` is a
  counterexample). Whatever the cap, a purge newer than the last reclaim is in
  the table or under a floor, the one stored or, within the window of a prune, the one
  about to be stored (`IntactInv`). Without a cap the invariant says in addition that slots
  count open publications; that an object whose slot is not the current phase's either
  belongs to the certificate under way, a pending reclaim or a blocked
  abort; that every indexed object a certified sweep has passed has no unseen
  purge up to the cutoff; and that an object which registers after the
  certificate has a registration sequence of at least the cutoff.

* `ObjectIndexProofs!TypeCorrect`, `MapAgrees`, `ClosedStaysEmpty`,
  `SweepsComplete`, for any objects and capacity. One inductive invariant,
  `IndexInv`, carries all four: the types, `Consistent` (side map and arrays are
  inverse to each other; this is what makes the checks of a removal succeed and
  the three-way move a permutation) and `ClosedIsEmpty`.
  `SweepsComplete` maps the slots below the cursor to the objects still to be
  judged, and shows action by action that a step of the array is a step, or a
  stutter, of `TrackedObjects`.

* `StaleLookupProofs!TypeCorrect`, `RecordsLive`, `HitsRefused`, `PurgesEffective`, for
  any number of requests and purges. `RecordsLive` is about a namespace that listens or is
  cold; between the two steps of going cold it is not true (`StaleLookup_cold.cfg`), and a
  cold index has no record at all. The invariant, `StaleInv`, follows the object
  first: the registration is listed until the backend task ends, and from
  the attachment on the object has a record, or is dying, or is in the window of
  a request (`AttachInv`). A look that finds nothing therefore leaves the object to the
  next look or meets a dying object. `CallInv` carries this along a call, with
  the memo: it is current only if nothing became due since its own call began. `HitInv`
  is the argument for two calls: the first of a hit whose object was purged before
  finds the verdict or leaves the object dying, and the second finds it dying. The
  proof uses one fact about the envelope, `OwnRegistrationIsRead`, an
  assumption without parameters that TLC evaluates in the run `stale`.

* `PurgeHistoryProofs!TypeCorrect`, `ProbesCoverReturned`, `ProbesKillNoOther`, for any keys,
  tagging, number of purges and history cap. The invariant starts with the writer: a
  purge that the object has yet to see is told of by the table or by a floor, except
  between a prune's new table and the floors that go with it (`HistoryInv`, `FloorInv`);
  with no entry left it is under a floor (`EmptyInv`, for the fast path). The table
  that a probe has pinned only gains, because it is not filled anew before it is
  drained. So at each load of a probe what is due is told of by the keys not
  yet probed, by a floor, or by the flag the probe carries (`ProbeInv`), and a
  verdict in the memo has met every purge up to its token (`MemoInv`). That the
  floor of a prune is the largest sequence it drops needs an induction (`Greatest`), which
  is had from the library's theorem on minimal elements of a well-founded set.

* `ObjectIndexProofs!SideTableLookups`, for any objects, threads, hashes and table sizes:
  `LookupsExact` holds in every state in which each table has an empty bucket
  (`NoTableFull`; `SideTable_full.cfg` shows how the code can get into others). The
  invariant, `SideInv`, says that each slot of the array is named by just one bucket of
  just one table (`MapInv`), that no empty bucket comes before it on the
  probe path of its object (`TableInv`), and that what a migration has passed is
  no longer live (`MigrationInv`). Tombstones are what keeps the paths: a removal or
  a move never makes a bucket empty (`StillReached`). The removal is the hard case: three
  codes change in two tables while the array closes up (`Removed`, `Recoded`). Nothing
  about load is needed: `SideInv` survives full tables too.

* `ObjectIndexProofs!SideTableCounts`, for the same constants: the types, and that `live`
  and `tombs` of both tables count their buckets. On top of `SideInv`, `LoadInv` follows the two
  sets whose cardinalities they are (`LiveCells`, `TombCells`) through every write of a
  bucket; an insertion reuses a tombstone or an empty bucket and the counters tell the
  two apart, and a removal that moves a code leaves both sets as many.

* `VclLifecycleProofs!RegistryTyped`, `IndexOwnership`, `Sweeping`, `WarmVclPurges`,
  `Departures`, `ProviderRegistration`, for any VCLs, indexes, objects and
  declarations. None of the six is inductive, because the CLI thread is in the middle of
  something almost always. The invariant says where it is: which declarations of a
  VCL are in the list by now (`VclInv`), which namespaces it has yet to visit, and in which
  order (`TodoInv`, `ShapeInv`), what it has taken half out of use
  (`OwnedInv`, `FlagsInv`, `SweepInv`), and that an index's objects are those it tracks
  (`TrackInv`). `SealInv` carries `PurgesReach`: at the end of a warm event each index
  is shared by the VCL or sealed (retired, or empty and without a worker), and
  only the fetches of a warm VCL add to an index. `ProviderInv` does the same for the
  storage provider's registration.

* `InternRegistryProofs!InternTyped`, `Interned`, `Releasable`, `RefsCounted`,
  `AllAccounted`, `MigrationAttended`, for any objects, threads, tag sets, hash function, sizes
  of tables and numbers of steps; finitely many objects, threads and
  addresses (`Finite`). `Good` is what a registry is at any moment, also between two
  migration steps: each set is in the bucket of its hash, once (`Housed`), the buckets before
  the cursor are empty (`CursorOK`), and the sets of the two tables are disjoint and have
  different tags (`SetsOK`). Lemmas about the operators come first: what a push, a pop
  and a removal do to a chain and to a table, that any number of migration steps leaves
  the same sets (`Migrated`: `Migrate` is a recursive function, and the smallest step at
  which it went wrong is refuted), that a lookup misses nothing (`Found`), and what the
  removal of a sequence of sets leaves (`UnlinkedAll`). The invariant, `IInv`, adds the
  threads: an attach has an object and, in hand, a candidate of its own with its own
  tags (`AttachInv`, `CandInv`); it looks again before it publishes, which is why
  the set it publishes is the first of its tags; and a table that it took off the
  registry is in its hands until it leaves (`TablesInv`). General steps (`ThreadStep`,
  `EnterStep`, `LoseStep`, `RegistryStep`) do the work once, and each action is shown to be an
  instance of one of them.

* `WalProofs!WalTyped`, `LogStaysBounded`, `StartsNeverRefuse` and the refinement
  `DurablePurges`, for any tags, number of purges, segment size and history cap, on both
  kinds of file system (`StartsNeverRefuse` on journalled ones, as the property says).
  The invariant, `WalInv`, starts on the disk, because that is all a start has:
  every image that a loss of power may leave has a good manifest (`GoodManifest`), one whose sealed
  segments are whole and synced, whose open segment is the last written to, and
  whose checkpoint and synced records tell of every purge that is owed (`Tells`). What is
  owed (`Owing`) counts a purge from the moment it takes effect, because
  its record was synced before. A record is written only while all images have the same open
  segment (`Agree`), which is why a rotation syncs the directory before it goes on; where an
  interrupted rotation left two kinds of manifest, the next start is bound to write
  a checkpoint, and with it syncs the directory (third part of `DiskInv`). On a journal
  each image also has the files its manifest lists (`JournalInv`). `MemoryInv` ties the
  variables of the instance to the disk at each control point. A replay is a recursive
  function; that the whole log is replayed (`Replays`) and that the function exists at
  all (`StepsExist`) is shown at the smallest record that would break it. Each action then preserves
  the invariant by a lemma of its own, and each is a step of `DurableHistory` or a
  stutter: `Apply` is its `Purge`, a return (which may undo a prune) its `Return`, a
  prune that goes on to a checkpoint its `Trim`, a kill or loss of power its `Stop`, and the
  end of a start its `Start`.

Assumed of the constants is only what the modules state by name (for `Wal`: finitely many
tags, at least one, and natural numbers).

Only model-checked: the claims about `FellowEnvelope` (`EveryNamespaceReadsItsOwn`, `DamageIsNoticed`,
`LengthTellsTheKind`: all lists of at most two registrations with at most two
keys), and all liveness (fairness and `ENABLED` are beyond the prover).

## Plan

Done: the two gates, the history seen by a probe, one object's life in both kinds of
namespace, the object index with its side map, the log, the lifecycle of
namespaces and the intern registry. What would come next:

1. `PurgeMapTable`: open addressing, rebuild and prune selection as functions,
   checked against their definitions.
2. An abstract `TagInvalidation` (register, purge, judge), implemented by
   `PublicationGate`.
3. The side map's segments and low-water resize, and a second attacher in `SideTable`.
4. Proofs about `FellowEnvelope`: its lengths are sums and its lists selections, which are
   folds, so each claim needs an induction of its own.

## Not modelled

Parsing, hashing and string handling (a tag is a key; two tags with one
digest are one key); counters and VSC; memory sizes; weak memory order
(the gates use sequentially consistent operations; see `ReaderGate`); objects
that are transient (pass, hit-for-miss), which the insert callback ignores. The
tests, hooks and benchmarks are tooling.

* `PurgeHistory`: entries are a function of the key; the probe sequence in buckets,
  tombstones and the selection of a prune's victims are abstracted.
* `StaleLookup`: a namespace is not unsubscribed while a task of its VCL runs, the CLI makes
  a VCL cold when it is no longer used; a sharing namespace's warm peer, which keeps the
  index, is in `VclLifecycle`. Addresses of objcores, so not the memo of an object whose address
  is used again within one request (`vmod_cachetag.c:1853`).
* `Wal`: the making of the root and `wal_dir` (`vmod_cachetag_wal.c:488-491`), which are taken
  to exist: the directory that the root is in is never synced, so on a disk that reorders
  directory changes a loss of power after the first start can take the whole root, and
  the next start finds nothing to read. The last two syncs of a checkpoint come one after
  the other; the model takes at most one of them, which leaves more images than the code.
  A start that is tried again in the same process after it failed; the kernel
  dropping dirty pages after a failed `fsync` (a failed one is never retried here,
  the log is degraded); a batch that fails for want of memory; two processes, or
  two VCLs during a reload, that open one `persist_path` (`install.md:191` forbids
  two namespaces there and no lock prevents it; but `usage.md:133` keeps the path
  across a reload, so a new VCL does open the log that the old one still has open;
  here the log has one user, and a reload no overlap).
* `VclLifecycle`: strings and limits of a declaration are one "setting"; threads of
  the sweep and the objects' concurrency are in the other modules.
* `InternRegistry`: after it has published a table an attach begins anew
  (`vmod_cachetag_index.c:3279`), and may release `obj_mtx` once more for a segment, the side
  map or maintenance before it comes to its tag set; here it goes straight on
  (`TableReady`), and the other places where it lets others in are enough. Objects with one tag, which have no set; a side map found
  corrupt; an index with periodic sweeps, whose worker comes by anyway. Liveness of
  a migration is stated as the invariant `MigrationHasWorker`.
* Fellow: how the callbacks find the loaded provider (`dlsym`, `dl_iterate_phdr`), and
  the provider itself; counts and lengths at their 16 and 32 bit limits.
