----------------------------- MODULE PurgeHistory ----------------------------
(***************************************************************************)
(* A lock-free probe of the purge history, load by load, against the       *)
(* holder of idx->purge_mtx, store by store.                               *)
(*                                                                         *)
(* A purge moves pm->seq, then upserts one entry per key (and counts the   *)
(* entries it creates), perhaps prunes the table, and moves pm->memo_seq   *)
(* last.  A reclaim replaces the table and lowers the floors.  A probe     *)
(* first looks whether there is any history at all, then reads the two     *)
(* sequences of each of its keys in the table it pinned, then the floors;  *)
(* an answer FALSE is reused by the next call of the request for as long   *)
(* as memo_seq has not moved.                                              *)
(*                                                                         *)
(* One object is looked at, by one request at a time: readers do not       *)
(* disturb each other.  A pinned table is not freed (ReaderGate), so at    *)
(* most two tables exist.  A reclaim is certified (PublicationGate): it    *)
(* forgets no purge that the object has yet to see.                        *)
(***************************************************************************)
EXTENDS Naturals, FiniteSets

CONSTANTS
    Keys,           \* tag digests
    Tags,           \* the keys of the object
    MaxSeq,         \* largest purge sequence (UINT64_MAX in the code)
    HistoryCap      \* limits.purgemap_history_max_entries, 0 = no cap

ASSUME KeysFinite == IsFiniteSet(Keys)
ASSUME TagsAreKeys == Tags \subseteq Keys
ASSUME MaxSeqNat == MaxSeq \in Nat
ASSUME CapNat == HistoryCap \in Nat

VARIABLES
    seq, memo_seq,      \* pm->seq and pm->memo_seq
    tables, cur,        \* contents of the two tables; which is pm->table
    nentry, floor,      \* pm->nentry, pm->hard_floor and pm->soft_floor
    wpc,                \* control point of the purge_mtx holder
    batch,              \* keys still to upsert, and the mode
    cutoff,             \* argument of the reclaim under way
    newFloor,           \* floors that the prune or reclaim will store
    mine,               \* purges of the object's tags (not in the code)
    returned,           \* the last purge that returned (not in the code)
    reg_seq, reduced,   \* of the object: registration, TTL ended
    pc,                 \* control point of the request
    seq_seen, memo,     \* its memo
    held,               \* the table it pinned
    rest, key, soft,    \* keys still to probe, the one in hand, flag `soft'
    ans,                \* the answer of the probe
    due,                \* modes due when the call began (not in the code)
    pruned,             \* a prune overlapped the call, or the one whose
                        \* answer the memo keeps (not in the code)
    floored             \* the highest HARD floor ever (not in the code)

tableVars == <<tables, cur, nentry, floor>>
seqVars == <<seq, memo_seq, mine, returned, floored>>
writerVars == <<wpc, batch, cutoff, newFloor>>
objectVars == <<reg_seq, reduced>>
memoVars == <<seq_seen, memo>>
probeVars == <<held, rest, key, soft, ans>>
callVars == <<pc, memoVars, probeVars, due, pruned>>
vars == <<seq, memo_seq, tables, cur, nentry, floor, wpc, batch, cutoff,
          newFloor, mine, returned, reg_seq, reduced, pc, seq_seen, memo, held,
          rest, key, soft, ans, due, pruned, floored>>

Modes == {"hard", "soft"}
NoPurge == [m \in Modes |-> 0]
Empty == [k \in Keys |-> NoPurge]
NoBatch == [keys |-> {}, mode |-> "hard"]
NoTable == 2        \* pinned by no one

Init ==
    /\ seq = 0 /\ memo_seq = 0
    /\ tables = [t \in {0, 1} |-> Empty]
    /\ cur = 0
    /\ nentry = 0
    /\ floor = NoPurge
    /\ wpc = "idle"
    /\ batch = NoBatch
    /\ cutoff = 0
    /\ newFloor = NoPurge
    /\ mine = [m \in Modes |-> {}]
    /\ returned = 0
    /\ reg_seq = 0 /\ reduced = FALSE
    /\ pc = "new"
    /\ seq_seen = 0 /\ memo = FALSE
    /\ held = NoTable
    /\ rest = {} /\ key = "none" /\ soft = FALSE /\ ans = "none"
    /\ due = {}
    /\ pruned = FALSE
    /\ floored = 0

(***************************************************************************)
(* The holder of purge_mtx                                                 *)
(***************************************************************************)
Table == tables[cur]
Present(t) == {k \in Keys : t[k] # NoPurge}
MaxOf(a, b) == IF a > b THEN a ELSE b
Newest(e) == MaxOf(e["hard"], e["soft"])
OverCap == HistoryCap # 0 /\ nentry > HistoryCap

(* The modes in which the purges up to s ask for the object to go.         *)
DueUpTo(s) == {m \in Modes : \E q \in mine[m] : reg_seq < q /\ q <= s}

(* Fill the other table and publish it.  Nobody has that one pinned, and   *)
(* the contents of the old one matter only if the reader has.              *)
Swap(t) ==
    /\ tables' = [i \in {0, 1} |->
                    IF i # cur THEN t
                    ELSE IF held = cur THEN tables[i] ELSE Empty]
    /\ cur' = 1 - cur

(* The retired table is freed, which waits for the reader that pinned it.  *)
Drained == held # 1 - cur

(* Mutant: the end of the sequence is not looked at.                       *)
PurgeBeginAnyway(K, m) ==
    /\ wpc = "idle"
    /\ batch' = [keys |-> K, mode |-> m]
    /\ wpc' = "seq"
    /\ UNCHANGED <<seqVars, tableVars, cutoff, newFloor, objectVars, callVars>>

(* A purge first makes room, perhaps in a new table, and persists nothing  *)
(* here.                                                                   *)
PurgeBegin(K, m) ==
    /\ wpc = "idle"
    /\ seq < MaxSeq
    /\ batch' = [keys |-> K, mode |-> m]
    /\ wpc' = "seq"
    /\ Swap(Table) \/ UNCHANGED <<tables, cur>>
    /\ UNCHANGED <<seqVars, nentry, floor, cutoff, newFloor, objectVars,
                   callVars>>

(* Mutant: the memo token moves together with the sequence.                *)
StoreSeqAndMemoSeq ==
    /\ wpc = "seq"
    /\ seq' = seq + 1
    /\ memo_seq' = seq + 1
    /\ mine' = IF batch.keys \cap Tags = {} THEN mine
               ELSE [mine EXCEPT ![batch.mode] = @ \cup {seq + 1}]
    /\ wpc' = "apply"
    /\ UNCHANGED <<tableVars, returned, floored, batch, cutoff, newFloor, objectVars,
                   callVars>>

StoreSeq ==
    /\ wpc = "seq"
    /\ seq' = seq + 1
    /\ mine' = IF batch.keys \cap Tags = {} THEN mine
               ELSE [mine EXCEPT ![batch.mode] = @ \cup {seq + 1}]
    /\ wpc' = "apply"
    /\ UNCHANGED <<tableVars, memo_seq, returned, floored, batch, cutoff,
                   newFloor, objectVars, callVars>>

(* apply_upsert_locked raises an entry, or creates one and then counts it. *)
Upsert(k) ==
    /\ wpc = "apply"
    /\ k \in batch.keys
    /\ tables' = [tables EXCEPT ![cur][k][batch.mode] = seq]
    /\ batch' = [batch EXCEPT !.keys = @ \ {k}]
    /\ wpc' = IF k \in Present(Table) THEN "apply" ELSE "count"
    /\ UNCHANGED <<seqVars, cur, nentry, floor, cutoff, newFloor, objectVars,
                   callVars>>

CountEntry ==
    /\ wpc = "count"
    /\ nentry' = nentry + 1
    /\ wpc' = "apply"
    /\ UNCHANGED <<seqVars, tables, cur, floor, batch, cutoff, newFloor,
                   objectVars, callVars>>

(* All keys are in.  The old table goes, and a map over its cap is pruned  *)
(* (or not, for want of memory).                                           *)
UpsertsDone ==
    /\ wpc = "apply" /\ batch.keys = {}
    /\ Drained
    /\ wpc' \in {"memo"} \cup IF OverCap THEN {"prune"} ELSE {}
    /\ UNCHANGED <<seqVars, tableVars, batch, cutoff, newFloor, objectVars,
                   callVars>>

(* The smallest sequence that takes the map to three quarters of its cap.  *)
PruneCutoff ==
    LET need == nentry - (HistoryCap * 75) \div 100
        upTo(v) == {k \in Present(Table) : Newest(Table[k]) <= v}
    IN  CHOOSE v \in 0 .. seq :
           /\ Cardinality(upTo(v)) >= need
           /\ \A w \in 0 .. seq : w < v => Cardinality(upTo(w)) < need

(* cachetag_compact_all prunes as well, if the last purge could not.  (It  *)
(* has no sequence to publish: StoreMemoSeq stores what is there.)         *)
CompactPrune ==
    /\ wpc = "idle"
    /\ OverCap
    /\ wpc' = "prune"
    /\ UNCHANGED <<seqVars, tableVars, batch, cutoff, newFloor, objectVars,
                   callVars>>

Probing == pc \notin {"new", "idle", "answer", "killed"}

(* prune_locked: the replacement table ...                                 *)
PruneSwap ==
    /\ wpc = "prune"
    /\ LET drop == {k \in Present(Table) : Newest(Table[k]) <= PruneCutoff}
       IN  /\ Swap([k \in Keys |-> IF k \in drop THEN NoPurge ELSE Table[k]])
           /\ newFloor' = [m \in Modes |->
                 CHOOSE v \in {floor[m]} \cup {Table[k][m] : k \in drop} :
                    /\ v >= floor[m]
                    /\ \A k \in drop : v >= Table[k][m]]
    /\ wpc' = "pruneCount"
    /\ pruned' = (pruned \/ Probing)
    /\ UNCHANGED <<seqVars, nentry, floor, batch, cutoff, objectVars, pc,
                   memoVars, probeVars, due>>

(* reclaim_locked: forget what is not newer than the cutoff c, in a new    *)
(* table ...                                                               *)
Forget(e, c) == [m \in Modes |-> IF e[m] <= c THEN 0 ELSE e[m]]

(* A sweep has judged the object: a HARD purge up to c would have ended it *)
(* and a SOFT one its TTL.                                                 *)
Judged(c) ==
    /\ "hard" \notin DueUpTo(c)
    /\ "soft" \in DueUpTo(c) => reduced

ReclaimSwap(c) ==
    /\ wpc = "idle"
    /\ Judged(c)
    /\ cutoff' = c
    /\ Swap([k \in Keys |-> Forget(Table[k], c)])
    /\ newFloor' = Forget(floor, c)
    /\ wpc' = "reclaimCount"
    /\ UNCHANGED <<seqVars, nentry, floor, batch, objectVars, callVars>>

(* ... then the number of its entries, then the floors.                    *)
StoreCount ==
    /\ wpc \in {"pruneCount", "reclaimCount"}
    /\ nentry' = Cardinality(Present(Table))
    /\ wpc' = IF wpc = "pruneCount" THEN "pruneHard" ELSE "reclaimHard"
    /\ UNCHANGED <<seqVars, tables, cur, floor, batch, cutoff, newFloor,
                   objectVars, callVars>>

StoreFloor(m, here, next) ==
    /\ wpc = here
    /\ floor' = [floor EXCEPT ![m] = newFloor[m]]
    /\ wpc' = next
    /\ floored' = IF m = "hard" THEN MaxOf(floored, newFloor[m]) ELSE floored
    /\ UNCHANGED <<seq, memo_seq, mine, returned, tables, cur, nentry, batch,
                   cutoff, newFloor, objectVars, callVars>>

StoreFloors ==
    \/ StoreFloor("hard", "pruneHard", "pruneSoft")
    \/ StoreFloor("soft", "pruneSoft", "memo")
    \/ StoreFloor("hard", "reclaimHard", "reclaimSoft")
    \/ StoreFloor("soft", "reclaimSoft", "reclaimed")

(* The purge returns.                                                      *)
StoreMemoSeq ==
    /\ wpc = "memo"
    /\ Drained
    /\ memo_seq' = seq
    /\ returned' = seq
    /\ batch' = NoBatch
    /\ newFloor' = NoPurge
    /\ wpc' = "idle"
    /\ UNCHANGED <<seq, mine, floored, tableVars, cutoff, objectVars, callVars>>

ReclaimDone ==
    /\ wpc = "reclaimed"
    /\ Drained
    /\ wpc' = "idle"
    /\ cutoff' = 0
    /\ newFloor' = NoPurge
    /\ UNCHANGED <<seqVars, tableVars, batch, objectVars, callVars>>

WriterStep ==
    \/ \E K \in SUBSET Keys \ {{}}, m \in Modes : PurgeBegin(K, m)
    \/ StoreSeq
    \/ \E k \in Keys : Upsert(k)
    \/ CountEntry \/ UpsertsDone \/ CompactPrune \/ PruneSwap
    \/ \E c \in 1 .. seq : ReclaimSwap(c)
    \/ StoreCount \/ StoreFloors \/ StoreMemoSeq \/ ReclaimDone

(***************************************************************************)
(* The request                                                             *)
(***************************************************************************)

(* An object (another one, if the last was killed) registers.              *)
Register ==
    /\ pc \in {"new", "killed"}
    /\ reg_seq' = seq
    /\ reduced' = FALSE
    /\ pc' = "idle"
    /\ memo' = FALSE /\ seq_seen' = 0
    /\ pruned' = FALSE
    /\ UNCHANGED <<seqVars, tableVars, writerVars, probeVars, due>>

(* The request is over and another one begins.                             *)
EndRequest ==
    /\ pc = "idle" /\ memo
    /\ memo' = FALSE /\ seq_seen' = 0
    /\ pruned' = FALSE
    /\ UNCHANGED <<seqVars, tableVars, writerVars, objectVars, pc, probeVars,
                   due>>

InPrune == wpc \in {"pruneCount", "pruneHard", "pruneSoft"}

(* stale() is called.  The memo answers, or the token of the next memo is  *)
(* taken before the probe.                                                 *)
Call ==
    /\ pc = "idle"
    /\ due' = DueUpTo(returned)
    /\ LET answers == memo /\ seq_seen = memo_seq
       IN  /\ pc' = IF answers THEN "answer" ELSE "nentry"
           /\ pruned' = IF answers THEN pruned ELSE InPrune
    /\ ans' = "none"
    /\ seq_seen' = memo_seq
    /\ UNCHANGED <<seqVars, tableVars, writerVars, objectVars, memo, held, rest,
                   key, soft>>

(* One load of the test for no history at all.                             *)
FastPath(here, zero, next) ==
    /\ pc = here
    /\ pc' = IF zero THEN next ELSE "enter"
    /\ UNCHANGED <<seqVars, tableVars, writerVars, objectVars, memoVars,
                   probeVars, due, pruned>>

(* Mutant: the test forgets the floors.                                    *)
NoEntriesAtAll == FastPath("nentry", nentry = 0, "answer")

NoEntries == FastPath("nentry", nentry = 0, "hardFloor0")

NoFloors ==
    \/ FastPath("hardFloor0", floor["hard"] = 0, "softFloor0")
    \/ FastPath("softFloor0", floor["soft"] = 0, "answer")

ReaderEnter ==
    /\ pc = "enter"
    /\ held' = cur
    /\ rest' = Tags
    /\ soft' = FALSE
    /\ pc' = "hard"
    /\ UNCHANGED <<seqVars, tableVars, writerVars, objectVars, memoVars, key,
                   ans, due, pruned>>

(* The answer is known: leave the gate.                                    *)
ReaderExit(a) ==
    /\ ans' = a
    /\ held' = NoTable
    /\ rest' = {} /\ key' = "none" /\ soft' = FALSE
    /\ pc' = "answer"

(* probe_one: the hard sequence of a key ...                               *)
LoadHardAs(k, newer) ==
    /\ pc = "hard"
    /\ k \in rest
    /\ IF newer
         THEN ReaderExit("hard")
         ELSE /\ key' = k
              /\ pc' = "soft"
              /\ UNCHANGED <<held, rest, soft, ans>>
    /\ UNCHANGED <<seqVars, tableVars, writerVars, objectVars, memoVars, due,
                   pruned>>

(* Mutant: a purge as old as the registration counts.                      *)
LoadHardOrEqual(k) ==
    LoadHardAs(k, k \in Present(tables[held]) /\
                  tables[held][k]["hard"] >= reg_seq)

LoadHard(k) == LoadHardAs(k, tables[held][k]["hard"] > reg_seq)

(* ... and then its soft sequence.                                         *)
LoadSoft ==
    /\ pc = "soft"
    /\ soft' = (soft \/ tables[held][key]["soft"] > reg_seq)
    /\ rest' = rest \ {key}
    /\ key' = "none"
    /\ pc' = "hard"
    /\ UNCHANGED <<seqVars, tableVars, writerVars, objectVars, memoVars, held,
                   ans, due, pruned>>

LoadHardFloor ==
    /\ pc = "hard" /\ rest = {}
    /\ IF floor["hard"] > reg_seq
         THEN ReaderExit("hard")
         ELSE /\ pc' = "softFloor"
              /\ UNCHANGED probeVars
    /\ UNCHANGED <<seqVars, tableVars, writerVars, objectVars, memoVars, due,
                   pruned>>

LoadSoftFloor ==
    /\ pc = "softFloor"
    /\ ReaderExit(IF soft \/ floor["soft"] > reg_seq THEN "soft" ELSE "none")
    /\ UNCHANGED <<seqVars, tableVars, writerVars, objectVars, memoVars, due,
                   pruned>>

(* stale() returns: a HARD verdict kills the object, a SOFT one ends its   *)
(* TTL, and FALSE is remembered.                                           *)
Return ==
    /\ pc = "answer"
    /\ pc' = IF ans = "hard" THEN "killed" ELSE "idle"
    /\ reduced' = (reduced \/ ans = "soft")
    /\ memo' = (ans # "hard")
    /\ ans' = "none"
    /\ due' = {}
    /\ UNCHANGED <<seqVars, tableVars, writerVars, reg_seq, seq_seen, held,
                   rest, key, soft, pruned>>

RequestStep ==
    \/ Register \/ EndRequest \/ Call \/ NoEntries \/ NoFloors \/ ReaderEnter
    \/ \E k \in Keys : LoadHard(k)
    \/ LoadSoft \/ LoadHardFloor \/ LoadSoftFloor \/ Return

Next == WriterStep \/ RequestStep

Spec == Init /\ [][Next]_vars

(***************************************************************************)
(* Properties                                                              *)
(***************************************************************************)
Seqs == 0 .. MaxSeq
Purges == [Keys -> [Modes -> Seqs]]

(* Every variable has its type.                                            *)
TypeOK ==
    /\ seq \in Seqs /\ memo_seq \in Seqs
    /\ tables \in [{0, 1} -> Purges] /\ cur \in {0, 1}
    /\ nentry \in 0 .. Cardinality(Keys)
    /\ floor \in [Modes -> Seqs] /\ newFloor \in [Modes -> Seqs]
    /\ wpc \in {"idle", "seq", "apply", "count", "prune", "pruneCount",
                "pruneHard", "pruneSoft", "memo", "reclaimCount",
                "reclaimHard", "reclaimSoft", "reclaimed"}
    /\ batch \in [keys : SUBSET Keys, mode : Modes]
    /\ cutoff \in Seqs
    /\ mine \in [Modes -> SUBSET Seqs] /\ returned \in Seqs
    /\ reg_seq \in Seqs /\ reduced \in BOOLEAN
    /\ pc \in {"new", "idle", "nentry", "hardFloor0", "softFloor0", "enter",
               "hard", "soft", "softFloor", "answer", "killed"}
    /\ seq_seen \in Seqs /\ memo \in BOOLEAN
    /\ held \in {0, 1, NoTable}
    /\ rest \subseteq Keys /\ key \in Keys \cup {"none"}
    /\ soft \in BOOLEAN /\ ans \in {"none", "soft", "hard"}
    /\ due \subseteq Modes /\ pruned \in BOOLEAN /\ floored \in Seqs

(* A purge that returned before the call is in its answer, whether the     *)
(* answer comes from the fast path, the table or the memo and whatever the *)
(* holder of purge_mtx does meanwhile, as long as that is not a prune: a   *)
(* HARD one kills, a SOFT one has ended or will end the TTL.               *)
AnswerCoversReturned ==
    (pc = "answer" /\ ~pruned) =>
        /\ "hard" \in due => ans = "hard"
        /\ "soft" \in due => ans # "none" \/ reduced

(* Nothing is killed by mistake: a HARD answer has a HARD purge of one of  *)
(* the object's own tags, newer than its registration, or a floor as new   *)
(* that a prune has left behind.                                           *)
NoOverKill ==
    (pc = "answer" /\ ans = "hard") =>
        "hard" \in DueUpTo(seq) \/ floored > reg_seq
=============================================================================
