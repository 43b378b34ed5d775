------------------------- MODULE PurgeHistoryProofs -------------------------
(***************************************************************************)
(* Proofs about PurgeHistory, for every set of keys, every tagging, any    *)
(* number of purges and every history cap.                                 *)
(*                                                                         *)
(* The argument: what the object owes to a purge that returned is in the   *)
(* table or under a floor, whatever the holder of purge_mtx does, except   *)
(* between a prune's table and its floors (HistoryInv).  With no entry at  *)
(* all it is under a floor (EmptyInv).  The table that a probe has pinned  *)
(* keeps what it had: upserts only raise it, and it is not filled anew     *)
(* before it is drained (Swaps).  Of the keys a probe has not passed, or   *)
(* the floors, one therefore still tells of the purge (ProbeInv), and a    *)
(* verdict that the memo keeps has met all purges up to its token          *)
(* (MemoInv).                                                              *)
(*                                                                         *)
(* That a prune finds the largest of the sequences it drops is the one     *)
(* induction needed (Greatest).                                            *)
(***************************************************************************)
EXTENDS PurgeHistory, Integers, FiniteSetTheorems, WellFoundedInduction,
        TLAPS

(***************************************************************************)
(* Largest elements                                                        *)
(***************************************************************************)
(* The order of the naturals, as a relation.                               *)
Below == {p \in Nat \X Nat : p[1] < p[2]}

(* No descent below zero goes on for ever.                                 *)
LEMMA BelowWellFounded == IsWellFoundedOn(Below, Nat)
BY NatLessThanWellFounded, Zenon DEF OpToRel, Below

(* A bounded set of naturals has a largest element, the smallest of the    *)
(* bounds.                                                                 *)
LEMMA Greatest ==
    ASSUME NEW b \in Nat, NEW S \in SUBSET (0 .. b), S # {}
    PROVE  \E v \in S : \A w \in S : w <= v
<1> DEFINE Bounds == {n \in Nat : \A w \in S : w <= n}
<1>1. b \in Bounds
  OBVIOUS
<1>2. PICK v \in Bounds : \A n \in Bounds : <<n, v>> \notin Below
  <2>1. Bounds \subseteq Nat /\ Bounds # {}
    BY <1>1
  <2> HIDE DEF Bounds
  <2> QED
    BY <2>1, BelowWellFounded, WFMin
<1>3. v \in Nat /\ \A n \in Bounds : ~(n < v)
  BY <1>2 DEF Below
<1>4. v \in S
  <2> SUFFICES ASSUME v \notin S PROVE FALSE
    OBVIOUS
  <2>1. \A w \in S : w \in Nat /\ w <= v /\ w # v
    BY <1>2
  <2>2. v > 0
    <3>1. PICK w \in S : TRUE
      OBVIOUS
    <3> QED
      BY <1>3, <2>1, <3>1
  <2>3. v - 1 \in Bounds
    BY <2>1, <2>2, <1>3
  <2> QED
    BY <1>3, <2>2, <2>3
<1> QED
  BY <1>2, <1>4

(* A purge is under way: its sequence is out and it has not returned.      *)
Applying == wpc \in {"apply", "count"}

(* Between the new table and the floor that goes with it, for mode m.      *)
Replacing(m) ==
    \/ wpc \in {"pruneCount", "pruneHard", "reclaimCount", "reclaimHard"}
    \/ wpc \in {"pruneSoft", "reclaimSoft"} /\ m = "soft"

WriterInv ==
    /\ memo_seq = returned
    /\ Applying => seq = returned + 1
    /\ wpc \in {"memo", "prune"} \/ InPrune => seq \in {returned, returned + 1}
    /\ ~Applying /\ wpc \notin {"memo", "prune"} /\ ~InPrune => seq = returned
    /\ wpc = "seq" => seq < MaxSeq
    /\ wpc \in {"idle", "prune"} => held # 1 - cur
    /\ floor["hard"] <= floored

CountInv ==
    /\ wpc = "count" => nentry + 1 = Cardinality(Present(Table))
    /\ wpc \notin {"count", "pruneCount", "reclaimCount"} =>
          nentry = Cardinality(Present(Table))

BaseInv == TypeOK /\ WriterInv /\ CountInv

(* What is in a table comes from a purge; for a key of the object, from a  *)
(* purge of the object.                                                    *)
TableInv ==
    /\ \A m \in Modes : \A q \in mine[m] : q <= seq
    /\ \A t \in {0, 1}, k \in Keys, m \in Modes : tables[t][k][m] <= seq
    /\ \A t \in {0, 1}, k \in Tags, m \in Modes :
          tables[t][k][m] = 0 \/ tables[t][k][m] \in mine[m]
    /\ Applying /\ batch.keys \cap Tags # {} => seq \in mine[batch.mode]

(* A purge that the object has yet to see.                                 *)
Owed(m, q) == q \in mine[m] /\ reg_seq < q /\ ~(m = "soft" /\ reduced)

Told(t, m, q) == \E k \in Tags : t[k][m] >= q

InHand(m, q) ==
    Applying /\ q = seq /\ m = batch.mode /\ batch.keys \cap Tags # {}

Kept(m, q) == Told(Table, m, q) \/ InHand(m, q) \/ floor[m] >= q

HistoryInv ==
    \A m \in Modes : \A q \in Seqs :
        Owed(m, q) /\ ~(InPrune /\ Replacing(m)) => Kept(m, q)

(* The floors that a prune or a reclaim is about to store.                 *)
FloorInv ==
    \A m \in Modes : \A q \in Seqs :
        Owed(m, q) /\ Replacing(m) =>
            /\ Told(Table, m, q) \/ newFloor[m] >= q
            /\ floor[m] >= q => newFloor[m] >= q

EmptyInv ==
    nentry = 0 =>
        \A m \in Modes : \A q \in Seqs :
            Owed(m, q) /\ q <= returned /\ ~(InPrune /\ Replacing(m)) =>
                floor[m] >= q

PurgesInv == HistoryInv /\ FloorInv /\ EmptyInv

(* From the call to its return.                                            *)
InCall == pc \in {"nentry", "hardFloor0", "softFloor0", "enter", "hard",
                  "soft", "softFloor", "answer"}

(* What this call must not answer FALSE to.                                *)
Owing(m) == m \in due /\ ~(m = "soft" /\ reduced)

(* A floor tells of what is due.                                           *)
FloorTells(m) == \E q \in Seqs : Owed(m, q) /\ floor[m] >= q

CallInv ==
    /\ seq_seen <= returned
    /\ InCall => due = DueUpTo(seq_seen)
    /\ Probing /\ ~pruned => ~InPrune
    /\ pc = "hardFloor0" /\ ~pruned =>
          \A m \in Modes : Owing(m) => FloorTells(m)
    /\ pc = "softFloor0" /\ ~pruned =>
          ~Owing("hard") /\ (Owing("soft") => FloorTells("soft"))
    /\ pc # "answer" => ans = "none"

(* The keys still to be probed tell of what is due, or the flag does.      *)
Tells(K, m) == \E k \in K : tables[held][k][m] > reg_seq

ProbeInv ==
    /\ pc \in {"hard", "soft", "softFloor"} => held \in {0, 1}
    /\ pc \in {"hard", "soft"} => rest \subseteq Tags
    /\ pc = "hard" /\ ~pruned /\ Owing("hard") =>
          Tells(rest, "hard") \/ FloorTells("hard")
    /\ pc = "soft" /\ ~pruned /\ Owing("hard") =>
          Tells(rest \ {key}, "hard") \/ FloorTells("hard")
    /\ pc \in {"hard", "soft"} /\ ~pruned /\ Owing("soft") =>
          soft \/ Tells(rest, "soft") \/ FloorTells("soft")
    /\ pc = "softFloor" /\ ~pruned => ~Owing("hard")
    /\ pc = "softFloor" /\ ~pruned /\ Owing("soft") =>
          soft \/ FloorTells("soft")

MemoInv ==
    ~InCall /\ memo /\ ~pruned =>
        \A m \in Modes : \A q \in Seqs : q <= seq_seen => ~Owed(m, q)

RequestInv ==
    CallInv /\ ProbeInv /\ MemoInv /\ AnswerCoversReturned /\ NoOverKill

Inv == BaseInv /\ TableInv /\ PurgesInv /\ RequestInv

(***************************************************************************)
(* Tables                                                                  *)
(***************************************************************************)
LEMMA ModesDiffer == "hard" \in Modes /\ "soft" \in Modes
BY DEF Modes

LEMMA EntryNat ==
    ASSUME NEW t \in Purges, NEW k \in Keys, NEW m \in Modes
    PROVE  t[k][m] \in Nat
BY MaxSeqNat DEF Purges, Seqs

(* An entry is present if and only if it has a sequence.                   *)
LEMMA PresentIff ==
    ASSUME NEW t \in Purges, NEW k \in Keys
    PROVE  k \in Present(t) <=> \E m \in Modes : t[k][m] # 0
<1>1. t[k] \in [Modes -> Seqs]
  BY DEF Purges
<1>2. t[k] = NoPurge <=> \A m \in Modes : t[k][m] = 0
  BY <1>1 DEF NoPurge
<1> QED
  BY <1>2 DEF Present

LEMMA PresentFinite ==
    ASSUME NEW t
    PROVE  /\ IsFiniteSet(Present(t))
           /\ Cardinality(Present(t)) \in 0 .. Cardinality(Keys)
<1>1. Present(t) \in SUBSET Keys
  BY DEF Present
<1>2. /\ IsFiniteSet(Present(t))
      /\ Cardinality(Present(t)) <= Cardinality(Keys)
  BY <1>1, KeysFinite, FS_Subset
<1>3. Cardinality(Present(t)) \in Nat /\ Cardinality(Keys) \in Nat
  BY <1>2, KeysFinite, FS_CardinalityType
<1> QED
  BY <1>2, <1>3

(* No entry, nothing told.                                                 *)
LEMMA NoneTold ==
    ASSUME TypeOK, Cardinality(Present(Table)) = 0,
           NEW m \in Modes, NEW q \in Seqs, q > 0
    PROVE  ~Told(Table, m, q)
<1>1. Table \in Purges
  BY DEF Table, TypeOK
<1>2. Present(Table) = {}
  BY PresentFinite, FS_EmptySet
<1>3. ASSUME NEW k \in Keys PROVE Table[k][m] = 0
  BY <1>1, <1>2, PresentIff
<1> QED
  BY <1>3, TagsAreKeys, MaxSeqNat DEF Told, Seqs

LEMMA NoPurgeType == NoPurge \in [Modes -> Seqs]
BY MaxSeqNat DEF NoPurge, Seqs

LEMMA ForgetType ==
    ASSUME NEW e \in [Modes -> Seqs], NEW c \in Seqs
    PROVE  /\ Forget(e, c) \in [Modes -> Seqs]
           /\ Forget(NoPurge, c) = NoPurge
BY MaxSeqNat DEF Forget, NoPurge, Seqs

(* A table that is filled while the old one is drained: the pinned table,  *)
(* which is then the current one or none, keeps its contents.              *)
LEMMA Swaps ==
    ASSUME TypeOK, held # 1 - cur, NEW t \in Purges, Swap(t)
    PROVE  /\ tables' \in [{0, 1} -> Purges] /\ cur' \in {0, 1}
           /\ Table' = t
           /\ held \in {0, 1} => tables'[held] = tables[held]
           /\ \A i \in {0, 1} : tables'[i] \in {tables[cur], t, Empty}
<1>1. Empty \in Purges
  BY MaxSeqNat DEF Empty, Purges, NoPurge, Seqs
<1>2. cur \in {0, 1} /\ cur' = 1 - cur /\ tables \in [{0, 1} -> Purges]
      /\ held \in {0, 1, 2}
  BY DEF Swap, TypeOK, NoTable
<1> QED
  BY <1>1, <1>2 DEF Table, Swap

(* An upsert raises one sequence of the published table.                   *)
LEMMA Upserts ==
    ASSUME TypeOK, NEW k \in Keys, Upsert(k)
    PROVE  /\ tables' \in [{0, 1} -> Purges]
           /\ \A t \in {0, 1}, j \in Keys, m \in Modes :
                 tables'[t][j][m] =
                    IF t = cur /\ j = k /\ m = batch.mode
                    THEN seq ELSE tables[t][j][m]
<1>1. /\ cur \in {0, 1} /\ batch.mode \in Modes /\ seq \in Seqs
      /\ tables \in [{0, 1} -> [Keys -> [Modes -> Seqs]]]
  BY DEF TypeOK, Purges
<1>2. tables' = [tables EXCEPT ![cur][k][batch.mode] = seq]
  BY DEF Upsert
<1> QED
  BY <1>1, <1>2 DEF Purges

(***************************************************************************)
(* Types, counts and the protocol of the writer                            *)
(***************************************************************************)

(* A new table instead of the current one.                                 *)
LEMMA SwapTypes ==
    ASSUME BaseInv, wpc = "idle", NEW t \in Purges, Swap(t)
    PROVE  tables' \in [{0, 1} -> Purges] /\ cur' \in {0, 1} /\ Table' = t
BY Swaps DEF BaseInv, WriterInv

(* What a prune leaves to be stored: floors as new as all it drops.        *)
NewFloors(drop) ==
    /\ newFloor' \in [Modes -> Seqs]
    /\ \A m \in Modes :
          newFloor'[m] >= floor[m] /\ \A k \in drop : newFloor'[m] >= Table[k][m]

LEMMA PruneDrops ==
    ASSUME TypeOK, PruneSwap
    PROVE  \E drop \in SUBSET Keys :
              /\ Swap([k \in Keys |-> IF k \in drop THEN NoPurge ELSE Table[k]])
              /\ NewFloors(drop)
<1> DEFINE drop == {k \in Present(Table) : Newest(Table[k]) <= PruneCutoff}
           sofar(m) == {floor[m]} \cup {Table[k][m] : k \in drop}
           largest(m, v) == v >= floor[m] /\ \A k \in drop : v >= Table[k][m]
<1>1. drop \in SUBSET Keys
  BY DEF Present
<1>2. /\ Swap([k \in Keys |-> IF k \in drop THEN NoPurge ELSE Table[k]])
      /\ newFloor' = [m \in Modes |->
                         CHOOSE v \in sofar(m) : largest(m, v)]
  BY DEF PruneSwap
<1> HIDE DEF drop
<1>3. ASSUME NEW m \in Modes
      PROVE  \E v \in sofar(m) : largest(m, v)
  <2>1. Table \in Purges /\ floor[m] \in Seqs
    BY DEF TypeOK, Table
  <2>2. sofar(m) \in SUBSET (0 .. MaxSeq) /\ sofar(m) # {}
    BY <1>1, <2>1 DEF Purges, Seqs
  <2>3. \E v \in sofar(m) : \A w \in sofar(m) : w <= v
    BY <2>2, Greatest, MaxSeqNat
  <2> QED
    BY <2>1, <2>2, <2>3, MaxSeqNat DEF Seqs
<1>4. ASSUME NEW m \in Modes
      PROVE  newFloor'[m] \in sofar(m) /\ largest(m, newFloor'[m])
  BY <1>2, <1>3
<1>5. \A m \in Modes : sofar(m) \subseteq Seqs
  <2>1. Table \in Purges
    BY DEF TypeOK, Table
  <2> QED
    BY <1>1, <2>1 DEF TypeOK, Purges
<1>6. newFloor' \in [Modes -> Seqs]
  BY <1>2, <1>4, <1>5
<1> QED
  BY <1>1, <1>2, <1>4, <1>6 DEF NewFloors

LEMMA WriterTypes ==
    ASSUME BaseInv, WriterStep
    PROVE  BaseInv'
<1> USE DEF BaseInv, TypeOK, WriterInv, CountInv, Applying, InPrune
<1>b. /\ seq \in Nat /\ returned \in Nat /\ MaxSeq \in Nat
      /\ Table \in Purges
  BY MaxSeqNat DEF Seqs, Table
<1>1. ASSUME NEW K \in SUBSET Keys \ {{}}, NEW m \in Modes, PurgeBegin(K, m)
      PROVE  BaseInv'
  <2> USE <1>1 DEF PurgeBegin
  <2>1. /\ tables' \in [{0, 1} -> Purges] /\ cur' \in {0, 1}
        /\ Table' = Table
    BY <1>b, SwapTypes DEF Table
  <2>2. TypeOK' /\ WriterInv'
    BY <2>1, <1>b DEF seqVars, objectVars, callVars, memoVars, probeVars
  <2>3. CountInv'
    BY <2>1
  <2> QED
    BY <2>2, <2>3
<1>2. CASE StoreSeq
  <2> USE <1>2 DEF StoreSeq
  <2>1. seq + 1 \in Seqs /\ seq' = seq + 1
    BY <1>b DEF Seqs
  <2>2. mine' \in [Modes -> SUBSET Seqs]
    BY <2>1
  <2>3. TypeOK' /\ WriterInv'
    BY <2>1, <2>2, <1>b
       DEF tableVars, objectVars, callVars, memoVars, probeVars
  <2>4. CountInv'
    BY DEF tableVars, Table
  <2> QED
    BY <2>3, <2>4
<1>3. ASSUME NEW k \in Keys, Upsert(k)
      PROVE  BaseInv'
  <2> USE <1>3
  <2>1. tables' \in [{0, 1} -> Purges]
    BY Upserts
  <2>2. batch' \in [keys : SUBSET Keys, mode : Modes]
    BY DEF Upsert
  <2>3. TypeOK' /\ WriterInv'
    BY <2>1, <2>2, <1>b
       DEF Upsert, seqVars, objectVars, callVars, memoVars, probeVars
  <2>4. CountInv'
    <3>1. cur' = cur /\ nentry' = nentry /\ cur \in {0, 1}
      BY DEF Upsert
    <3>2. Table' \in Purges
      BY <2>1, <3>1 DEF Table
    <3>3. seq > 0
      BY <1>b DEF Upsert
    <3>4. ASSUME NEW j \in Keys
          PROVE  j \in Present(Table') <=> j = k \/ j \in Present(Table)
      <4>1. j \in Present(Table') <=> \E m \in Modes : Table'[j][m] # 0
        BY <3>2, PresentIff
      <4>2. j \in Present(Table) <=> \E m \in Modes : Table[j][m] # 0
        BY <1>b, PresentIff
      <4>3. \A m \in Modes :
               Table'[j][m] = IF j = k /\ m = batch.mode
                              THEN seq ELSE Table[j][m]
        BY <3>1, Upserts DEF Table
      <4>4. batch.mode \in Modes
        OBVIOUS
      <4> QED
        BY <4>1, <4>2, <4>3, <4>4, <3>3
    <3>5. Present(Table)' = Present(Table) \cup {k}
      <4>1. Present(Table)' \subseteq Keys /\ Present(Table) \subseteq Keys
        BY DEF Present
      <4> QED
        BY <3>4, <4>1 DEF Present
    <3>6. IsFiniteSet(Present(Table))
      BY PresentFinite
    <3>7. Cardinality(Present(Table)') =
             IF k \in Present(Table) THEN Cardinality(Present(Table))
             ELSE Cardinality(Present(Table)) + 1
      BY ZenonT(120), <3>5, <3>6, FS_AddElement
    <3> QED
      BY <3>1, <3>7 DEF Upsert
  <2> QED
    BY <2>3, <2>4
<1>4. CASE CountEntry
  <2> USE <1>4 DEF CountEntry
  <2>1. nentry' = Cardinality(Present(Table))
    OBVIOUS
  <2>2. nentry' \in 0 .. Cardinality(Keys)
    BY <2>1, PresentFinite
  <2>3. TypeOK' /\ WriterInv'
    BY <2>2, <1>b DEF seqVars, objectVars, callVars, memoVars, probeVars
  <2>4. CountInv'
    BY <2>1 DEF Table
  <2> QED
    BY <2>3, <2>4
<1>5. CASE UpsertsDone \/ CompactPrune \/ StoreMemoSeq \/ ReclaimDone
  <2> USE <1>5 DEF UpsertsDone, CompactPrune, StoreMemoSeq, ReclaimDone, Drained
  <2>1. /\ batch' \in [keys : SUBSET Keys, mode : Modes]
        /\ newFloor' \in [Modes -> Seqs]
        /\ cutoff' \in Seqs
    BY MaxSeqNat, ModesDiffer DEF NoBatch, NoPurge, Seqs
  <2>2. /\ memo_seq' = returned' /\ returned' \in Seqs
        /\ wpc' \in {"memo", "prune", "idle"}
        /\ wpc' # "idle" => seq \in {returned', returned' + 1}
        /\ wpc' = "idle" => seq = returned'
    BY <1>b DEF seqVars
  <2>3. UNCHANGED <<seq, mine, floored, tableVars, objectVars, callVars>>
    BY DEF seqVars
  <2>4. TypeOK'
    BY <2>1, <2>2, <2>3
       DEF tableVars, objectVars, callVars, memoVars, probeVars
  <2>5. WriterInv'
    BY <2>1, <2>2, <2>3 DEF tableVars, callVars, probeVars
  <2>6. CountInv'
    BY <2>2, <2>3 DEF tableVars, Table
  <2> QED
    BY <2>4, <2>5, <2>6
<1>6. ASSUME NEW c \in 1 .. seq, ReclaimSwap(c)
      PROVE  BaseInv'
  <2> USE <1>6 DEF ReclaimSwap
  <2>1. c \in Seqs
    BY <1>b DEF Seqs
  <2>2. [k \in Keys |-> Forget(Table[k], c)] \in Purges
    BY <1>b, <2>1, ForgetType DEF Purges
  <2>3. tables' \in [{0, 1} -> Purges] /\ cur' \in {0, 1}
    BY <2>2, SwapTypes
  <2>4. newFloor' \in [Modes -> Seqs]
    BY <2>1, ForgetType
  <2>5. TypeOK' /\ WriterInv'
    BY <2>1, <2>3, <2>4, <1>b
       DEF seqVars, objectVars, callVars, memoVars, probeVars
  <2>6. CountInv'
    OBVIOUS
  <2> QED
    BY <2>5, <2>6
<1>7. CASE StoreCount
  <2> USE <1>7 DEF StoreCount
  <2>1. nentry' \in 0 .. Cardinality(Keys)
    BY PresentFinite
  <2>2. TypeOK' /\ WriterInv'
    BY <2>1, <1>b DEF seqVars, objectVars, callVars, memoVars, probeVars
  <2>3. CountInv'
    BY DEF Table
  <2> QED
    BY <2>2, <2>3
<1>8. CASE StoreFloors
  <2> USE <1>8 DEF StoreFloors, StoreFloor
  <2>1. /\ floor' \in [Modes -> Seqs] /\ floored' \in Seqs
        /\ floor'["hard"] <= floored'
    BY <1>b, ModesDiffer DEF MaxOf, Seqs
  <2>2. TypeOK' /\ WriterInv'
    BY <2>1, <1>b DEF objectVars, callVars, memoVars, probeVars
  <2>3. CountInv'
    BY DEF Table
  <2> QED
    BY <2>2, <2>3
<1>9. CASE PruneSwap
  <2>1. PICK drop \in SUBSET Keys :
           /\ Swap([k \in Keys |-> IF k \in drop THEN NoPurge ELSE Table[k]])
           /\ NewFloors(drop)
    BY <1>9, PruneDrops
  <2>2. [k \in Keys |-> IF k \in drop THEN NoPurge ELSE Table[k]] \in Purges
    BY <1>b, NoPurgeType DEF Purges
  <2>3. tables' \in [{0, 1} -> Purges] /\ cur' \in {0, 1}
    BY <1>9, <2>1, <2>2, Swaps DEF PruneSwap
  <2>4. newFloor' \in [Modes -> Seqs]
    BY <2>1 DEF NewFloors
  <2>5. pruned' \in BOOLEAN
    BY <1>9 DEF PruneSwap, Probing
  <2>6. /\ wpc = "prune" /\ wpc' = "pruneCount"
        /\ UNCHANGED <<seq, memo_seq, mine, returned, floored, nentry, floor,
                       batch, cutoff, reg_seq, reduced, pc, seq_seen, memo,
                       held, rest, key, soft, ans, due>>
    BY <1>9 DEF PruneSwap, seqVars, objectVars, memoVars, probeVars
  <2>8. TypeOK'
    BY <2>3, <2>4, <2>5, <2>6
  <2>9. WriterInv'
    BY <2>6
  <2>7. CountInv'
    BY <1>9 DEF PruneSwap
  <2> QED
    BY <2>7, <2>8, <2>9
<1> QED
  BY <1>1, <1>2, <1>3, <1>4, <1>5, <1>6, <1>7, <1>8, <1>9 DEF WriterStep

LEMMA RequestTypes ==
    ASSUME BaseInv, RequestStep
    PROVE  BaseInv'
<1> USE DEF BaseInv, TypeOK, seqVars, tableVars, writerVars
<1>1. TypeOK'
  <2>1. CASE Register \/ EndRequest \/ Return
    <3>1. 0 \in Seqs
      BY MaxSeqNat DEF Seqs
    <3>2. CASE Register
      BY ZenonT(120), <3>1, <3>2 DEF Register, probeVars
    <3>3. CASE EndRequest
      BY ZenonT(120), <3>1, <3>3 DEF EndRequest, objectVars, probeVars
    <3>4. CASE Return
      <4>1. reduced' \in BOOLEAN /\ memo' \in BOOLEAN
            /\ pc' \in {"killed", "idle"}
        BY <3>4 DEF Return
      <4> QED
        BY <3>4, <4>1 DEF Return
    <3> QED
      BY <2>1, <3>2, <3>3, <3>4
  <2>2. CASE Call
    <3>1. due' \subseteq Modes
      BY <2>2 DEF Call, DueUpTo
    <3>2. pruned' \in BOOLEAN
      <4>1. InPrune \in BOOLEAN
        BY DEF InPrune
      <4>2. pruned' \in {pruned, InPrune}
        BY <2>2 DEF Call
      <4> QED
        BY <4>1, <4>2
    <3> QED
      BY <2>2, <3>1, <3>2 DEF Call, objectVars
  <2>3. CASE NoEntries \/ NoFloors
    BY <2>3 DEF NoEntries, NoFloors, FastPath, objectVars, memoVars, probeVars
  <2>4. CASE ReaderEnter
    BY ZenonT(120), <2>4, TagsAreKeys DEF ReaderEnter, objectVars, memoVars
  <2>5. ASSUME NEW k \in Keys, LoadHard(k) PROVE TypeOK'
    <3>1. CASE ReaderExit("hard")
      BY <2>5, <3>1 DEF LoadHard, LoadHardAs, ReaderExit, objectVars, memoVars
    <3>2. CASE key' = k /\ pc' = "soft" /\ UNCHANGED <<held, rest, soft, ans>>
      BY <2>5, <3>2 DEF LoadHard, LoadHardAs, objectVars, memoVars
    <3> QED
      BY <2>5, <3>1, <3>2 DEF LoadHard, LoadHardAs
  <2>6. CASE LoadSoft
    <3>1. soft' \in BOOLEAN
      BY <2>6 DEF LoadSoft
    <3> QED
      BY <2>6, <3>1 DEF LoadSoft, objectVars, memoVars
  <2>7. ASSUME NEW a \in {"none", "soft", "hard"}, ReaderExit(a),
               LoadHardFloor \/ LoadSoftFloor
        PROVE  TypeOK'
    <3>1. UNCHANGED <<seqVars, tableVars, writerVars, objectVars, memoVars, due,
                      pruned>>
      BY <2>7 DEF LoadHardFloor, LoadSoftFloor
    <3> QED
      BY <2>7, <3>1 DEF ReaderExit, objectVars, memoVars
  <2>8. CASE LoadHardFloor /\ pc' = "softFloor" /\ UNCHANGED probeVars
    BY <2>8 DEF LoadHardFloor, objectVars, memoVars, probeVars
  <2>9. CASE LoadHardFloor \/ LoadSoftFloor
    BY <2>7, <2>8, <2>9 DEF LoadHardFloor, LoadSoftFloor
  <2> QED
    BY <2>1, <2>2, <2>3, <2>4, <2>5, <2>6, <2>9 DEF RequestStep
<1>2. held' \in {held, cur, NoTable}
  BY DEF RequestStep, Register, EndRequest, Call, NoEntries, NoFloors, FastPath,
         ReaderEnter, LoadHard, LoadHardAs, LoadSoft, LoadHardFloor,
         LoadSoftFloor, Return, ReaderExit, probeVars
<1>3. UNCHANGED <<seqVars, tableVars, writerVars>>
  BY DEF RequestStep, Register, EndRequest, Call, NoEntries, NoFloors, FastPath,
         ReaderEnter, LoadHard, LoadHardAs, LoadSoft, LoadHardFloor,
         LoadSoftFloor, Return
<1>4. WriterInv'
  BY <1>2, <1>3 DEF WriterInv, Applying, InPrune, NoTable
<1>5. CountInv'
  BY <1>3 DEF CountInv, Table
<1> QED
  BY <1>1, <1>4, <1>5

LEMMA BaseNext ==
    ASSUME BaseInv, [Next]_vars
    PROVE  BaseInv'
<1>1. CASE UNCHANGED vars
  BY <1>1 DEF vars, BaseInv, TypeOK, WriterInv, CountInv, Applying, InPrune, Table,
              seqVars, tableVars, memoVars
<1> QED
  BY <1>1, WriterTypes, RequestTypes DEF Next

(***************************************************************************)
(* What the tables hold                                                    *)
(***************************************************************************)

(* Who changes what a table or a purge says.                               *)
WriterElsewhere ==
    \/ CountEntry \/ UpsertsDone \/ CompactPrune \/ StoreCount \/ StoreFloors
    \/ StoreMemoSeq \/ ReclaimDone

LEMMA TableKept ==
    ASSUME BaseInv, TableInv, WriterStep
    PROVE  TableInv'
<1> USE DEF BaseInv, TypeOK, TableInv
<1>b. seq \in Nat /\ cur \in {0, 1} /\ \A v \in Seqs : v \in Nat
  BY MaxSeqNat DEF Seqs
<1>c. \A t \in {0, 1}, k \in Keys, m \in Modes :
         /\ tables[t][k][m] \in Nat /\ Empty[k][m] = 0
  <2>1. \A t \in {0, 1} : tables[t] \in Purges
    OBVIOUS
  <2> QED
    BY <2>1, EntryNat DEF Empty, NoPurge
<1>1. ASSUME NEW K \in SUBSET Keys \ {{}}, NEW m \in Modes, PurgeBegin(K, m)
      PROVE  TableInv'
  <2> USE <1>1 DEF PurgeBegin
  <2>1. \A t \in {0, 1} : tables'[t] \in {tables[0], tables[1], Empty}
    <3>1. CASE Swap(Table)
      <4>1. Table \in Purges
        BY <1>b DEF Table
      <4> QED
        BY <1>b, <3>1, <4>1, Swaps DEF WriterInv, Table
    <3> QED
      BY <1>b, <3>1
  <2>2. UNCHANGED <<seq, mine>> /\ wpc' = "seq"
    BY DEF seqVars
  <2> QED
    BY <1>b, <1>c, <2>1, <2>2, TagsAreKeys DEF Applying
<1>2. CASE StoreSeq
  <2> USE <1>2 DEF StoreSeq
  <2>1. /\ seq' = seq + 1
        /\ \A m \in Modes : mine[m] \subseteq mine'[m]
        /\ \A m \in Modes : mine'[m] \subseteq mine[m] \cup {seq + 1}
    OBVIOUS
  <2>2. tables' = tables /\ batch' = batch
    BY DEF tableVars
  <2>3. \A m \in Modes : \A q \in mine[m] : q \in Nat
    BY <1>b
  <2>4. batch.keys \cap Tags # {} => seq' \in mine'[batch.mode]
    OBVIOUS
  <2> QED
    BY <1>b, <1>c, <2>1, <2>2, <2>3, <2>4, TagsAreKeys
<1>3. ASSUME NEW k \in Keys, Upsert(k)
      PROVE  TableInv'
  <2>1. UNCHANGED <<seq, mine>> /\ wpc = "apply" /\ k \in batch.keys
    BY <1>3 DEF Upsert, seqVars
  <2>2. \A t \in {0, 1}, j \in Keys, m \in Modes :
           tables'[t][j][m] =
              IF t = cur /\ j = k /\ m = batch.mode
              THEN seq ELSE tables[t][j][m]
    BY <1>3, Upserts
  <2>3. k \in Tags => seq \in mine[batch.mode]
    BY <2>1 DEF Applying
  <2>4. batch'.mode = batch.mode /\ batch'.keys \subseteq batch.keys
    BY <1>3 DEF Upsert
  <2>5. \A t \in {0, 1}, j \in Tags, m \in Modes :
           tables'[t][j][m] = 0 \/ tables'[t][j][m] \in mine'[m]
    BY <2>1, <2>2, <2>3, TagsAreKeys
  <2>6. \A t \in {0, 1}, j \in Keys, m \in Modes : tables'[t][j][m] <= seq'
    BY <1>b, <2>1, <2>2
  <2>7. Applying' /\ batch'.keys \cap Tags # {} => seq' \in mine'[batch'.mode]
    BY <2>1, <2>4 DEF Applying
  <2> QED
    BY <2>1, <2>5, <2>6, <2>7
<1>4. ASSUME NEW c \in 1 .. seq, ReclaimSwap(c)
      PROVE  TableInv'
  <2> USE <1>4 DEF ReclaimSwap
  <2> DEFINE new == [k \in Keys |-> Forget(Table[k], c)]
  <2>1. Table \in Purges /\ c \in Seqs
    BY <1>b, MaxSeqNat DEF Table, Seqs
  <2>2. new \in Purges
    BY <2>1, ForgetType DEF Purges
  <2>3. \A t \in {0, 1} : tables'[t] \in {tables[cur], new, Empty}
    BY <2>2, Swaps DEF WriterInv
  <2>4. \A k \in Keys, m \in Modes :
           new[k][m] = 0 \/ new[k][m] = tables[cur][k][m]
    BY DEF Forget, Table
  <2>5. UNCHANGED <<seq, mine>> /\ wpc' = "reclaimCount"
    BY DEF seqVars
  <2> HIDE DEF new
  <2>6. \A t \in {0, 1}, k \in Keys, m \in Modes :
           \/ tables'[t][k][m] = 0
           \/ tables'[t][k][m] = tables[cur][k][m]
    BY <1>c, <2>3, <2>4
  <2> QED
    BY <1>b, <1>c, <2>5, <2>6, TagsAreKeys DEF Applying
<1>5. CASE WriterElsewhere
  <2>1. UNCHANGED <<seq, mine, tables>>
    BY <1>5 DEF WriterElsewhere, CountEntry, UpsertsDone, CompactPrune, StoreCount,
                StoreFloors, StoreFloor, StoreMemoSeq, ReclaimDone, seqVars,
                tableVars
  <2>2. Applying' => Applying /\ batch' = batch
    BY <1>5 DEF WriterElsewhere, CountEntry, UpsertsDone, CompactPrune, StoreCount,
                StoreFloors, StoreFloor, StoreMemoSeq, ReclaimDone, Applying
  <2> QED
    BY <2>1, <2>2
<1>6. CASE PruneSwap
  <2>1. PICK drop \in SUBSET Keys :
           Swap([k \in Keys |-> IF k \in drop THEN NoPurge ELSE Table[k]])
    BY <1>6, PruneDrops
  <2> DEFINE new == [k \in Keys |-> IF k \in drop THEN NoPurge ELSE Table[k]]
  <2>2. new \in Purges
    <3>1. Table \in Purges
      BY <1>b DEF Table
    <3> QED
      BY <3>1, NoPurgeType DEF Purges
  <2>3. \A t \in {0, 1} : tables'[t] \in {tables[cur], new, Empty}
    BY <1>6, <2>1, <2>2, Swaps DEF PruneSwap, WriterInv
  <2>4. \A k \in Keys, m \in Modes :
           new[k][m] = 0 \/ new[k][m] = tables[cur][k][m]
    BY DEF NoPurge, Table
  <2>5. UNCHANGED <<seq, mine>> /\ wpc' = "pruneCount"
    BY <1>6 DEF PruneSwap, seqVars
  <2> HIDE DEF new
  <2>6. \A t \in {0, 1}, k \in Keys, m \in Modes :
           \/ tables'[t][k][m] = 0
           \/ tables'[t][k][m] = tables[cur][k][m]
    BY <1>c, <2>3, <2>4
  <2> QED
    BY <1>b, <1>c, <2>5, <2>6, TagsAreKeys DEF Applying
<1> QED
  BY <1>1, <1>2, <1>3, <1>4, <1>5, <1>6 DEF WriterStep, WriterElsewhere

(* The tables that a prune or a reclaim puts in place.                     *)
Replaces == PruneSwap \/ \E c \in 1 .. seq : ReclaimSwap(c)

(* Nothing but a prune or a reclaim makes the published table forget.      *)
LEMMA ToldKept ==
    ASSUME BaseInv, TableInv, WriterStep, ~Replaces,
           NEW m \in Modes, NEW q \in Seqs, Told(Table, m, q)
    PROVE  Told(Table, m, q)'
<1> USE DEF BaseInv, TypeOK
<1>1. PICK k \in Tags : Table[k][m] >= q
  BY DEF Told
<1>2. k \in Keys /\ cur \in {0, 1} /\ Table \in Purges
  BY TagsAreKeys DEF Table
<1>3. ASSUME NEW K \in SUBSET Keys \ {{}}, NEW n \in Modes, PurgeBegin(K, n)
      PROVE  Table' = Table
  BY <1>2, <1>3, SwapTypes DEF PurgeBegin, Table
<1>4. ASSUME NEW j \in Keys, Upsert(j) PROVE Table'[k][m] >= q
  <2>1. Table'[k][m] = IF k = j /\ m = batch.mode THEN seq ELSE Table[k][m]
    <3>1. cur' = cur
      BY <1>4 DEF Upsert
    <3> QED
      BY <1>2, <1>4, <3>1, Upserts DEF Table
  <2>2. Table[k][m] <= seq /\ Table[k][m] \in Nat
    BY <1>2, EntryNat DEF TableInv, Table
  <2> QED
    BY <1>1, <2>1, <2>2, MaxSeqNat DEF Seqs
<1>5. StoreSeq \/ WriterElsewhere => Table' = Table
  BY DEF StoreSeq, WriterElsewhere, CountEntry, UpsertsDone, CompactPrune,
     StoreCount, StoreFloors, StoreFloor, StoreMemoSeq, ReclaimDone, tableVars,
     Table
<1>6. Table' = Table \/ Table'[k][m] >= q
  BY <1>3, <1>4, <1>5 DEF WriterStep, WriterElsewhere, Replaces
<1> QED
  BY <1>1, <1>6 DEF Told

(* A new purge of the object is in the hand of the writer.                 *)
LEMMA OwedBefore ==
    ASSUME BaseInv, WriterStep, NEW m \in Modes, NEW q \in Seqs, Owed(m, q)'
    PROVE  \/ Owed(m, q)
           \/ StoreSeq /\ InHand(m, q)' /\ q > returned
<1>1. reg_seq' = reg_seq /\ reduced' = reduced
  BY DEF WriterStep, PurgeBegin, StoreSeq, Upsert, CountEntry, UpsertsDone,
         CompactPrune, PruneSwap, ReclaimSwap, StoreCount, StoreFloors,
         StoreFloor, StoreMemoSeq, ReclaimDone, objectVars
<1>2. CASE StoreSeq
  <2> USE <1>2 DEF StoreSeq
  <2>1. mine'[m] = IF batch.keys \cap Tags # {} /\ m = batch.mode
                     THEN mine[m] \cup {seq + 1} ELSE mine[m]
    BY DEF BaseInv, TypeOK
  <2>2. seq + 1 > returned
    BY MaxSeqNat DEF BaseInv, WriterInv, Applying, InPrune, TypeOK, Seqs
  <2> QED
    BY <1>1, <2>1, <2>2 DEF Owed, InHand, Applying
<1>3. CASE ~StoreSeq
  <2>1. mine' = mine
    BY <1>3 DEF WriterStep, PurgeBegin, Upsert, CountEntry, UpsertsDone,
       CompactPrune, PruneSwap, ReclaimSwap, StoreCount, StoreFloors,
       StoreFloor, StoreMemoSeq, ReclaimDone, seqVars
  <2> QED
    BY <1>1, <2>1 DEF Owed
<1> QED
  BY <1>2, <1>3

(* What the purge in hand has yet to tell, it tells with its upsert.       *)
LEMMA InHandKept ==
    ASSUME BaseInv, TableInv, WriterStep,
           NEW m \in Modes, NEW q \in Seqs, InHand(m, q)
    PROVE  Told(Table, m, q)' \/ InHand(m, q)'
<1> USE DEF BaseInv, TypeOK
<1>1. Applying /\ q = seq /\ m = batch.mode /\ batch.keys \cap Tags # {}
  BY DEF InHand
<1>2. ASSUME NEW k \in Keys, Upsert(k)
      PROVE  Told(Table, m, q)' \/ InHand(m, q)'
  <2>1. /\ UNCHANGED <<seq, cur>> /\ Applying' /\ cur \in {0, 1}
        /\ batch' = [batch EXCEPT !.keys = @ \ {k}]
    BY <1>2 DEF Upsert, seqVars, Applying
  <2>2. CASE k \in Tags
    <3>1. Table'[k][m] = seq
      BY <1>1, <1>2, <2>1, Upserts DEF Table
    <3> QED
      BY <1>1, <2>2, <3>1, MaxSeqNat DEF Told, Seqs
  <2>3. CASE k \notin Tags
    BY <1>1, <2>1, <2>3 DEF InHand
  <2> QED
    BY <2>2, <2>3
<1>3. CASE CountEntry
  BY <1>1, <1>3 DEF CountEntry, InHand, Applying, seqVars
<1>4. CountEntry \/ \E k \in Keys : Upsert(k)
  BY <1>1 DEF WriterStep, PurgeBegin, StoreSeq, UpsertsDone, CompactPrune,
         PruneSwap, ReclaimSwap, StoreCount, StoreFloors, StoreFloor,
         StoreMemoSeq, ReclaimDone, Applying
<1> QED
  BY <1>2, <1>3, <1>4

(* A prune or a reclaim starts from all that is owed, and what its table   *)
(* drops is under the floors it will store.                                *)
LEMMA ReplacesKeeps ==
    ASSUME BaseInv, TableInv, HistoryInv, Replaces,
           NEW m \in Modes, NEW q \in Seqs, Owed(m, q)
    PROVE  /\ Told(Table, m, q)' \/ newFloor'[m] >= q
           /\ floor[m] >= q => newFloor'[m] >= q
           /\ (\E c \in 1 .. seq : ReclaimSwap(c)) =>
                 Told(Table, m, q)' \/ floor[m] >= q
<1> USE DEF BaseInv, TypeOK
<1>a. /\ Table \in Purges /\ floor[m] \in Nat /\ q \in Nat /\ seq \in Nat
      /\ \A k \in Keys : Table[k][m] \in Nat
  BY MaxSeqNat, EntryNat DEF Table, Seqs
<1>b. Told(Table, m, q) \/ floor[m] >= q
  BY DEF HistoryInv, Kept, InHand, Applying, InPrune, Replaces, PruneSwap,
         ReclaimSwap
<1>1. CASE PruneSwap
  <2>1. PICK drop \in SUBSET Keys :
           /\ Swap([k \in Keys |-> IF k \in drop THEN NoPurge ELSE Table[k]])
           /\ NewFloors(drop)
    BY <1>1, PruneDrops
  <2> DEFINE new == [k \in Keys |-> IF k \in drop THEN NoPurge ELSE Table[k]]
  <2>2. new \in Purges
    BY <1>a, NoPurgeType DEF Purges
  <2>3. Table' = new
    BY <1>1, <2>1, <2>2, Swaps DEF PruneSwap, WriterInv
  <2>4. newFloor'[m] \in Nat /\ newFloor'[m] >= floor[m]
    BY <2>1, MaxSeqNat DEF NewFloors, Seqs
  <2>5. ASSUME Told(Table, m, q) PROVE Told(Table, m, q)' \/ newFloor'[m] >= q
    <3>1. PICK k \in Tags : Table[k][m] >= q
      BY <2>5 DEF Told
    <3>2. CASE k \in drop
      <4>1. newFloor'[m] >= Table[k][m]
        BY <2>1, <3>2 DEF NewFloors
      <4> QED
        BY <1>a, <2>4, <3>1, <3>2, <4>1
    <3>3. CASE k \notin drop
      BY <2>3, <3>1, <3>3, TagsAreKeys DEF Told
    <3> QED
      BY <3>2, <3>3
  <2>6. ~ \E c \in 1 .. seq : ReclaimSwap(c)
    BY <1>1 DEF PruneSwap, ReclaimSwap
  <2> QED
    BY <1>a, <1>b, <2>4, <2>5, <2>6
<1>2. ASSUME NEW c \in 1 .. seq, ReclaimSwap(c)
      PROVE  /\ Told(Table, m, q)' \/ floor[m] >= q
             /\ floor[m] >= q => newFloor'[m] >= q
  <2> USE <1>2 DEF ReclaimSwap
  <2>1. c \in Seqs
    BY <1>a, MaxSeqNat DEF Seqs
  <2>2. [k \in Keys |-> Forget(Table[k], c)] \in Purges
    BY <1>a, <2>1, ForgetType DEF Purges
  <2>3. Table' = [k \in Keys |-> Forget(Table[k], c)]
    BY <2>2, SwapTypes
  <2>4. q > c
    BY <1>a, <2>1 DEF Owed, Judged, DueUpTo, Modes
  <2>5. ASSUME Told(Table, m, q) PROVE Told(Table, m, q)'
    <3>1. PICK k \in Tags : Table[k][m] >= q
      BY <2>5 DEF Told
    <3>2. Table'[k][m] = Table[k][m]
      BY <1>a, <2>1, <2>3, <2>4, <3>1, TagsAreKeys DEF Forget
    <3> QED
      BY <3>1, <3>2 DEF Told
  <2>6. floor[m] >= q => newFloor'[m] = floor[m]
    BY <1>a, <2>4 DEF Forget
  <2> QED
    BY <1>b, <2>5, <2>6
<1> QED
  BY <1>1, <1>2 DEF Replaces

(* A store of a floor, and any other step: what it does to mode m.         *)
LEMMA FloorStored ==
    ASSUME BaseInv, StoreFloors, NEW m \in Modes
    PROVE  /\ ~Applying /\ nentry = Cardinality(Present(Table))
           /\ UNCHANGED <<nentry, newFloor, tables, cur, returned>>
           /\ \/ Replacing(m) /\ ~Replacing(m)' /\ floor'[m] = newFloor[m]
              \/ /\ floor'[m] = floor[m]
                 /\ InPrune /\ Replacing(m) => InPrune' /\ Replacing(m)'
                 /\ Replacing(m)' => Replacing(m)
<1> USE DEF StoreFloors, StoreFloor, BaseInv, TypeOK, CountInv
<1>1. /\ ~Applying /\ nentry = Cardinality(Present(Table))
      /\ UNCHANGED <<nentry, newFloor, tables, cur, returned>>
  BY DEF Applying
<1>2. \/ wpc = "pruneHard" /\ wpc' = "pruneSoft"
      \/ wpc = "reclaimHard" /\ wpc' = "reclaimSoft"
      \/ wpc = "pruneSoft" /\ wpc' = "memo"
      \/ wpc = "reclaimSoft" /\ wpc' = "reclaimed"
  OBVIOUS
<1>3. IF wpc \in {"pruneHard", "reclaimHard"}
        THEN floor'["hard"] = newFloor["hard"] /\ floor'["soft"] = floor["soft"]
        ELSE floor'["hard"] = floor["hard"] /\ floor'["soft"] = newFloor["soft"]
  BY DEF Modes
<1>4. m = "hard" \/ m = "soft"
  BY DEF Modes
<1> HIDE DEF StoreFloors
<1>5. CASE m = "hard"
  BY <1>1, <1>2, <1>3, <1>5 DEF Replacing, InPrune
<1>6. CASE m = "soft"
  BY <1>1, <1>2, <1>3, <1>6 DEF Replacing, InPrune
<1> QED
  BY <1>4, <1>5, <1>6

LEMMA FloorElsewhere ==
    ASSUME BaseInv, WriterStep, ~StoreFloors, NEW m \in Modes
    PROVE  /\ floor' = floor
           /\ InPrune /\ Replacing(m) => InPrune' /\ Replacing(m)'
           /\ ~Replaces /\ Replacing(m)' => Replacing(m) /\ newFloor' = newFloor
BY DEF WriterStep, PurgeBegin, StoreSeq, Upsert, CountEntry, UpsertsDone,
   CompactPrune, PruneSwap, ReclaimSwap, StoreCount, StoreMemoSeq, ReclaimDone,
   Replaces, Replacing, InPrune, tableVars

LEMMA HistoryKept ==
    ASSUME BaseInv, TableInv, PurgesInv, WriterStep
    PROVE  HistoryInv'
<1> SUFFICES ASSUME NEW m \in Modes, NEW q \in Seqs, Owed(m, q)',
                    ~(InPrune /\ Replacing(m))'
             PROVE  Kept(m, q)'
  BY DEF HistoryInv
<1> USE DEF PurgesInv
<1>1. CASE ~Owed(m, q)
  BY <1>1, OwedBefore DEF Kept
<1>2. CASE Owed(m, q) /\ Replaces
  <2>1. ~PruneSwap
    BY DEF PruneSwap, InPrune, Replacing
  <2>2. floor' = floor
    BY <1>2, <2>1 DEF Replaces, ReclaimSwap
  <2> QED
    BY <1>2, <2>1, <2>2, ReplacesKeeps DEF Kept, Replaces
<1>3. CASE Owed(m, q) /\ ~Replaces /\ StoreFloors
  <2>1. CASE Replacing(m) /\ floor'[m] = newFloor[m]
    BY <1>3, <2>1, ToldKept DEF FloorInv, Kept
  <2>2. CASE floor'[m] = floor[m] /\ ~(InPrune /\ Replacing(m))
    BY <1>3, <2>2, ToldKept, InHandKept DEF HistoryInv, Kept
  <2> QED
    BY <1>3, <2>1, <2>2, FloorStored
<1>4. CASE Owed(m, q) /\ ~Replaces /\ ~StoreFloors
  BY <1>4, FloorElsewhere, ToldKept, InHandKept DEF HistoryInv, Kept
<1> QED
  BY <1>1, <1>2, <1>3, <1>4

LEMMA FloorKept ==
    ASSUME BaseInv, TableInv, PurgesInv, WriterStep
    PROVE  FloorInv'
<1> SUFFICES ASSUME NEW m \in Modes, NEW q \in Seqs, Owed(m, q)', Replacing(m)'
             PROVE  /\ Told(Table, m, q)' \/ newFloor'[m] >= q
                    /\ floor'[m] >= q => newFloor'[m] >= q
  BY DEF FloorInv
<1> USE DEF PurgesInv
<1>1. Owed(m, q)
  <2>1. ~StoreSeq
    BY DEF StoreSeq, Replacing
  <2> QED
    BY <2>1, OwedBefore
<1>2. CASE Replaces
  <2>1. floor' = floor
    BY <1>2 DEF Replaces, PruneSwap, ReclaimSwap
  <2> QED
    BY <1>1, <1>2, <2>1, ReplacesKeeps
<1>3. CASE ~Replaces
  <2>1. Replacing(m) /\ newFloor' = newFloor /\ floor'[m] = floor[m]
    BY <1>3, FloorStored, FloorElsewhere
  <2> QED
    BY <1>1, <1>3, <2>1, ToldKept DEF FloorInv
<1> QED
  BY <1>2, <1>3

LEMMA EmptyKept ==
    ASSUME BaseInv, TableInv, PurgesInv, WriterStep
    PROVE  EmptyInv'
<1> SUFFICES ASSUME nentry' = 0, NEW m \in Modes, NEW q \in Seqs, Owed(m, q)',
                    q <= returned', ~(InPrune /\ Replacing(m))'
             PROVE  floor'[m] >= q
  BY DEF EmptyInv
<1> USE DEF PurgesInv
<1>1. Owed(m, q)
  <2>1. CASE StoreSeq
    <3>1. returned' = returned
      BY <2>1 DEF StoreSeq
    <3> QED
      BY <3>1, OwedBefore, MaxSeqNat DEF BaseInv, TypeOK, Seqs
  <2> QED
    BY <2>1, OwedBefore
<1>2. ASSUME Cardinality(Present(Table)) = 0 PROVE ~Told(Table, m, q)
  <2>1. q > 0
    BY <1>1, MaxSeqNat DEF Owed, BaseInv, TypeOK, Seqs
  <2> QED
    BY <1>2, <2>1, NoneTold DEF BaseInv
<1>3. CASE StoreMemoSeq \/ StoreCount
  <2>1. /\ Cardinality(Present(Table)) = 0 /\ ~Applying /\ floor' = floor
        /\ ~(InPrune /\ Replacing(m))
    BY <1>3 DEF StoreMemoSeq, StoreCount, Applying, BaseInv, CountInv, tableVars,
                InPrune, Replacing
  <2> QED
    BY <1>1, <1>2, <2>1 DEF HistoryInv, Kept, InHand
<1>4. CASE StoreFloors
  <2>1. Cardinality(Present(Table)) = 0 /\ nentry = 0 /\ returned' = returned
    BY <1>4, FloorStored
  <2>2. CASE Replacing(m) /\ floor'[m] = newFloor[m]
    BY <1>1, <1>2, <2>1, <2>2 DEF FloorInv
  <2>3. CASE floor'[m] = floor[m] /\ ~(InPrune /\ Replacing(m))
    BY <1>1, <2>1, <2>3 DEF EmptyInv
  <2> QED
    BY <1>4, <2>2, <2>3, FloorStored
<1>5. CASE CountEntry
  <2>1. nentry' # 0
    BY <1>5, KeysFinite, FS_CardinalityType DEF CountEntry, BaseInv, TypeOK
  <2> QED
    BY <2>1
<1>6. CASE ~(StoreMemoSeq \/ StoreCount \/ StoreFloors \/ CountEntry)
  <2>1. nentry' = nentry /\ returned' = returned
    BY <1>6 DEF WriterStep, PurgeBegin, StoreSeq, Upsert, UpsertsDone,
       CompactPrune, PruneSwap, ReclaimSwap, ReclaimDone, tableVars, seqVars
  <2> QED
    BY <1>1, <1>6, <2>1, FloorElsewhere DEF EmptyInv
<1> QED
  BY <1>3, <1>4, <1>5, <1>6

(***************************************************************************)
(* What the writer leaves to the request                                   *)
(***************************************************************************)

(* The writer touches neither the object nor the call, sequences only grow *)
(* and a new purge has not returned.                                       *)
LEMMA WriterFrame ==
    ASSUME BaseInv, WriterStep
    PROVE  /\ UNCHANGED <<objectVars, pc, memoVars, probeVars, due>>
           /\ seq <= seq' /\ returned <= returned'
           /\ \A m \in Modes : mine[m] \subseteq mine'[m]
           /\ \A m \in Modes : \A q \in mine'[m] \ mine[m] : q > returned
           /\ floored <= floored'
           /\ pruned => pruned'
           /\ Probing /\ ~pruned' => ~PruneSwap
<1> USE DEF BaseInv
<1>1. UNCHANGED <<objectVars, pc, memoVars, probeVars, due>>
  BY DEF WriterStep, PurgeBegin, StoreSeq, Upsert, CountEntry, UpsertsDone,
         CompactPrune, PruneSwap, ReclaimSwap, StoreCount, StoreFloors,
         StoreFloor, StoreMemoSeq, ReclaimDone, callVars
<1>2. /\ seq \in Nat /\ returned \in Nat /\ floored \in Nat
      /\ seq' \in Nat /\ returned' \in Nat /\ floored' \in Nat
      /\ newFloor["hard"] \in Nat
  <2>1. BaseInv'
    BY BaseNext DEF Next
  <2> QED
    BY <2>1, MaxSeqNat, ModesDiffer DEF TypeOK, Seqs
<1>3. seq' \in {seq, seq + 1} /\ returned' \in {returned, seq}
  BY DEF WriterStep, PurgeBegin, StoreSeq, Upsert, CountEntry, UpsertsDone,
         CompactPrune, PruneSwap, ReclaimSwap, StoreCount, StoreFloors,
         StoreFloor, StoreMemoSeq, ReclaimDone, seqVars
<1>4. returned <= seq
  BY <1>2 DEF WriterInv, Applying, InPrune
<1>5. mine' = mine \/ \A m \in Modes : mine'[m] \in {mine[m], mine[m] \cup {seq + 1}}
  BY DEF WriterStep, PurgeBegin, StoreSeq, Upsert, CountEntry, UpsertsDone,
         CompactPrune, PruneSwap, ReclaimSwap, StoreCount, StoreFloors,
         StoreFloor, StoreMemoSeq, ReclaimDone, seqVars, TypeOK
<1>6. floored' \in {floored, MaxOf(floored, newFloor["hard"])}
  BY DEF WriterStep, PurgeBegin, StoreSeq, Upsert, CountEntry, UpsertsDone,
         CompactPrune, PruneSwap, ReclaimSwap, StoreCount, StoreFloors,
         StoreFloor, StoreMemoSeq, ReclaimDone, seqVars
<1>7. pruned' = pruned \/ PruneSwap
  BY DEF WriterStep, PurgeBegin, StoreSeq, Upsert, CountEntry, UpsertsDone,
         CompactPrune, PruneSwap, ReclaimSwap, StoreCount, StoreFloors,
         StoreFloor, StoreMemoSeq, ReclaimDone, callVars
<1>8. PruneSwap /\ (pruned \/ Probing) => pruned'
  BY DEF PruneSwap
<1> QED
  BY <1>1, <1>2, <1>3, <1>4, <1>5, <1>6, <1>7, <1>8 DEF MaxOf

(* A pinned table forgets nothing.                                         *)
LEMMA PinnedTableGrows ==
    ASSUME BaseInv, TableInv, WriterStep, held \in {0, 1},
           NEW k \in Keys, NEW m \in Modes
    PROVE  tables'[held][k][m] >= tables[held][k][m]
<1> USE DEF BaseInv, TypeOK
<1>a. seq \in Nat /\ cur \in {0, 1} /\ tables[held][k][m] \in Nat
  BY MaxSeqNat, EntryNat DEF Seqs
<1>b. Table \in Purges
  BY <1>a DEF Table
<1>1. ASSUME NEW K \in SUBSET Keys \ {{}}, NEW n \in Modes, PurgeBegin(K, n)
      PROVE  tables'[held] = tables[held]
  BY <1>1, <1>b, Swaps DEF PurgeBegin, WriterInv
<1>2. ASSUME NEW c \in 1 .. seq, ReclaimSwap(c)
      PROVE  tables'[held] = tables[held]
  <2>1. c \in Seqs
    BY <1>a, MaxSeqNat DEF Seqs
  <2>2. [j \in Keys |-> Forget(Table[j], c)] \in Purges
    BY <1>b, <2>1, ForgetType DEF Purges
  <2> QED
    BY <1>2, <2>2, Swaps DEF ReclaimSwap, WriterInv
<1>3. ASSUME NEW j \in Keys, Upsert(j)
      PROVE  tables'[held][k][m] >= tables[held][k][m]
  <2>1. tables[held][k][m] <= seq
    BY DEF TableInv
  <2> QED
    BY <1>3, <1>a, <2>1, Upserts
<1>4. CASE StoreSeq \/ WriterElsewhere
  <2>1. tables' = tables
    BY <1>4 DEF StoreSeq, WriterElsewhere, CountEntry, UpsertsDone,
                CompactPrune, StoreCount, StoreFloors, StoreFloor, StoreMemoSeq,
                ReclaimDone, tableVars
  <2> QED
    BY <1>a, <2>1
<1>5. CASE PruneSwap
  <2>1. PICK drop \in SUBSET Keys :
           Swap([j \in Keys |-> IF j \in drop THEN NoPurge ELSE Table[j]])
    BY <1>5, PruneDrops
  <2>2. [j \in Keys |-> IF j \in drop THEN NoPurge ELSE Table[j]] \in Purges
    BY <1>b, NoPurgeType DEF Purges
  <2>3. tables'[held] = tables[held]
    BY <1>5, <2>1, <2>2, Swaps DEF PruneSwap, WriterInv
  <2> QED
    BY <1>a, <2>3
<1>6. CASE tables'[held] = tables[held]
  BY <1>a, <1>6
<1> QED
  BY <1>1, <1>2, <1>3, <1>4, <1>5, <1>6 DEF WriterStep, WriterElsewhere

(* A floor that tells goes on to tell: a reclaim keeps it, a prune raises  *)
(* it.                                                                     *)
LEMMA FloorTellsOn ==
    ASSUME BaseInv, TableInv, FloorInv, WriterStep, NEW m \in Modes,
           FloorTells(m)
    PROVE  FloorTells(m)'
<1>1. PICK q \in Seqs : Owed(m, q) /\ floor[m] >= q
  BY DEF FloorTells
<1>2. Owed(m, q)'
  BY <1>1, WriterFrame DEF Owed, objectVars
<1>3. floor'[m] >= q
  <2>1. CASE StoreFloors
    BY <1>1, <2>1, FloorStored DEF FloorInv
  <2>2. CASE ~StoreFloors
    BY <1>1, <2>2, FloorElsewhere
  <2> QED
    BY <2>1, <2>2
<1> QED
  BY <1>2, <1>3 DEF FloorTells

LEMMA WriterKeepsRequest ==
    ASSUME BaseInv, TableInv, PurgesInv, RequestInv, WriterStep
    PROVE  RequestInv'
<1> USE DEF RequestInv, PurgesInv
<1>1. /\ UNCHANGED <<reg_seq, reduced, pc, seq_seen, memo, held, rest, key, soft,
                     ans, due>>
      /\ pruned => pruned'
      /\ seq <= seq' /\ returned <= returned' /\ floored <= floored'
      /\ \A m \in Modes : mine[m] \subseteq mine'[m]
      /\ \A m \in Modes : \A q \in mine'[m] \ mine[m] : q > returned
  BY WriterFrame DEF objectVars, memoVars, probeVars
<1>2. /\ seq \in Nat /\ seq' \in Nat /\ returned \in Nat /\ returned' \in Nat
      /\ seq_seen \in Nat /\ reg_seq \in Nat
      /\ floored \in Nat /\ floored' \in Nat
      /\ \A m \in Modes : mine'[m] \subseteq Nat
  <2>1. BaseInv'
    BY BaseNext DEF Next
  <2> QED
    BY <2>1, MaxSeqNat DEF BaseInv, TypeOK, Seqs
<1>3. \A m \in Modes : \A q : q <= seq_seen => (q \in mine'[m] <=> q \in mine[m])
  BY <1>1, <1>2 DEF CallInv
<1>4. DueUpTo(seq_seen)' = DueUpTo(seq_seen)
  BY <1>1, <1>3 DEF DueUpTo
<1>5. \A m \in Modes : (FloorTells(m) => FloorTells(m)') /\ Owing(m)' = Owing(m)
  BY <1>1, FloorTellsOn DEF Owing
<1>6. CallInv'
  <2>1. Probing' = Probing
    BY <1>1 DEF Probing
  <2>2. Probing /\ ~pruned' => ~InPrune'
    <3>1. InPrune' => InPrune \/ PruneSwap
      BY DEF WriterStep, PurgeBegin, StoreSeq, Upsert, CountEntry, UpsertsDone,
         CompactPrune, PruneSwap, ReclaimSwap, StoreCount, StoreFloors,
         StoreFloor, StoreMemoSeq, ReclaimDone, InPrune
    <3> QED
      BY <1>1, <3>1, WriterFrame DEF CallInv
  <2> QED
    BY <1>1, <1>2, <1>4, <1>5, <2>1, <2>2, ModesDiffer DEF CallInv, InCall
<1>7. ProbeInv'
  <2>1. ASSUME NEW K, K \subseteq Tags, held \in {0, 1}, NEW m \in Modes,
               Tells(K, m)
        PROVE  Tells(K, m)'
    <3>1. PICK k \in K : tables[held][k][m] > reg_seq
      BY <2>1 DEF Tells
    <3>2. k \in Keys
      BY <2>1, TagsAreKeys
    <3>3. tables'[held][k][m] \in Nat /\ tables[held][k][m] \in Nat
      <4>1. TypeOK /\ TypeOK'
        BY BaseNext DEF Next, BaseInv
      <4> QED
        BY <2>1, <3>2, <4>1, EntryNat DEF TypeOK
    <3>4. tables'[held][k][m] > reg_seq'
      BY <1>1, <1>2, <2>1, <3>1, <3>2, <3>3, PinnedTableGrows
    <3> QED
      BY <1>1, <3>4 DEF Tells
  <2>2. rest \subseteq Tags => rest \ {key} \subseteq Tags
    OBVIOUS
  <2> QED
    BY <1>1, <1>5, <2>1, <2>2, ModesDiffer DEF ProbeInv
<1>8. MemoInv'
  BY <1>1, <1>3 DEF MemoInv, InCall, Owed
<1>9. AnswerCoversReturned'
  BY <1>1 DEF AnswerCoversReturned
<1>10. NoOverKill'
  <2>1. "hard" \in DueUpTo(seq) => "hard" \in DueUpTo(seq)'
    <3>1. ASSUME NEW q \in mine["hard"], reg_seq < q, q <= seq
          PROVE  q \in mine'["hard"] /\ reg_seq' < q /\ q <= seq'
      <4>1. q \in Nat
        BY <1>1, <1>2, <3>1, ModesDiffer
      <4> QED
        BY <1>1, <1>2, <3>1, <4>1, ModesDiffer
    <3> QED
      BY <3>1, ModesDiffer DEF DueUpTo
  <2> QED
    BY <1>1, <1>2, <2>1 DEF NoOverKill
<1> QED
  BY <1>6, <1>7, <1>8, <1>9, <1>10

(***************************************************************************)
(* The request                                                             *)
(***************************************************************************)

(* The request leaves the history as it is; what an object owes, only a    *)
(* verdict or a new registration changes.                                  *)
LEMMA RequestFrame ==
    ASSUME BaseInv, TableInv, PurgesInv, RequestStep
    PROVE  /\ UNCHANGED <<seqVars, tableVars, writerVars>>
           /\ TableInv' /\ PurgesInv'
<1>1. UNCHANGED <<seqVars, tableVars, writerVars>>
  BY DEF RequestStep, Register, EndRequest, Call, NoEntries, NoFloors, FastPath,
         ReaderEnter, LoadHard, LoadHardAs, LoadSoft, LoadHardFloor,
         LoadSoftFloor, Return
<1>2. TableInv'
  BY <1>1 DEF TableInv, Applying, seqVars, tableVars, writerVars
<1>3. ASSUME NEW m \in Modes, NEW q \in Seqs, Owed(m, q)'
      PROVE  Owed(m, q)
  <2>1. CASE Register
    <3>1. q <= seq /\ reg_seq' = seq /\ reg_seq' < q
      BY <1>1, <1>3, <2>1 DEF Owed, TableInv, Register, seqVars
    <3> QED
      BY <3>1, MaxSeqNat DEF BaseInv, TypeOK, Seqs
  <2>2. CASE ~Register
    <3>1. reg_seq' = reg_seq
      BY <2>2 DEF RequestStep, EndRequest, Call, NoEntries, NoFloors, FastPath,
         ReaderEnter, LoadHard, LoadHardAs, LoadSoft, LoadHardFloor,
         LoadSoftFloor, Return, objectVars
    <3>2. reduced => reduced'
      BY <2>2 DEF RequestStep, EndRequest, Call, NoEntries, NoFloors, FastPath,
         ReaderEnter, LoadHard, LoadHardAs, LoadSoft, LoadHardFloor,
         LoadSoftFloor, Return, objectVars
    <3> QED
      BY <1>1, <1>3, <3>1, <3>2 DEF Owed, seqVars
  <2> QED
    BY <2>1, <2>2
<1>4. PurgesInv'
  BY <1>1, <1>3
     DEF PurgesInv, HistoryInv, FloorInv, EmptyInv, Kept, Told, InHand, Applying,
         InPrune, Replacing, Table, seqVars, tableVars, writerVars
<1> QED
  BY <1>1, <1>2, <1>4

(* What is due is a purge that the object has yet to see.                  *)
LEMMA DueIsOwed ==
    ASSUME BaseInv, NEW m \in Modes, NEW s \in Seqs, m \in DueUpTo(s),
           ~(m = "soft" /\ reduced)
    PROVE  \E q \in Seqs : Owed(m, q) /\ q <= s
<1>1. PICK q \in mine[m] : reg_seq < q /\ q <= s
  BY DEF DueUpTo
<1>2. q \in Seqs
  BY DEF BaseInv, TypeOK
<1> QED
  BY <1>1, <1>2 DEF Owed

LEMMA RequestKeepsIdle ==
    ASSUME Inv, Register \/ EndRequest \/ Return
    PROVE  RequestInv'
<1> USE DEF Inv, RequestInv
<1>1. CASE Register \/ EndRequest
  <2>1. /\ pc' = "idle" /\ memo' = FALSE /\ seq_seen' = 0 /\ pc # "answer"
        /\ returned' = returned
        /\ ans' = ans /\ pruned' = FALSE
    BY <1>1 DEF Register, EndRequest, seqVars, probeVars
  <2>2. CallInv'
    BY <2>1, MaxSeqNat DEF CallInv, InCall, Probing, BaseInv, TypeOK, Seqs
  <2> QED
    BY <2>1, <2>2
       DEF ProbeInv, MemoInv, AnswerCoversReturned, NoOverKill
<1>2. CASE Return
  <2> USE <1>2 DEF Return
  <2>1. /\ pc' \in {"idle", "killed"} /\ ans' = "none"
        /\ UNCHANGED <<seq_seen, reg_seq, mine, returned, pruned>>
    BY DEF seqVars
  <2>2. CallInv'
    BY <2>1 DEF CallInv, InCall, Probing
  <2>3. ASSUME memo', ~pruned, NEW m \in Modes, NEW q \in Seqs, q <= seq_seen,
               Owed(m, q)'
        PROVE  FALSE
    <3>1. m \in due
      BY <2>1, <2>3 DEF CallInv, InCall, DueUpTo, Owed
    <3>2. ans # "hard" /\ ~(m = "soft" /\ (reduced \/ ans = "soft"))
      BY <2>3 DEF Owed
    <3> QED
      BY <2>3, <3>1, <3>2 DEF AnswerCoversReturned, Modes, BaseInv, TypeOK
  <2> QED
    BY <2>1, <2>2, <2>3
       DEF ProbeInv, MemoInv, AnswerCoversReturned, NoOverKill
<1> QED
  BY <1>1, <1>2

LEMMA RequestKeepsCall ==
    ASSUME Inv, Call
    PROVE  RequestInv'
<1> USE DEF Inv, RequestInv, Call
<1>1. /\ pc' \in {"answer", "nentry"} /\ ans' = "none"
      /\ UNCHANGED <<reg_seq, reduced, mine, returned, seq>>
      /\ seq_seen' = memo_seq /\ memo_seq = returned
      /\ due' = DueUpTo(returned)
  BY DEF seqVars, objectVars, BaseInv, WriterInv
<1>2. CallInv'
  <2>1. pc' = "nentry" => pruned' = InPrune
    OBVIOUS
  <2>2. Probing' /\ ~pruned' => ~InPrune'
    BY <1>1, <2>1 DEF Probing, InPrune, writerVars
  <2>3. seq_seen' <= returned' /\ due' = DueUpTo(seq_seen)'
    BY <1>1, MaxSeqNat DEF DueUpTo, BaseInv, TypeOK, Seqs
  <2> QED
    BY <1>1, <2>2, <2>3 DEF CallInv
<1>3. AnswerCoversReturned'
  <2> SUFFICES ASSUME memo, seq_seen = memo_seq, ~pruned,
                      NEW m \in DueUpTo(returned), ~(m = "soft" /\ reduced)
               PROVE  FALSE
    BY <1>1 DEF AnswerCoversReturned
  <2>1. m \in Modes /\ returned \in Seqs
    BY DEF DueUpTo, BaseInv, TypeOK
  <2> QED
    BY <1>1, <2>1, DueIsOwed DEF MemoInv, InCall
<1> QED
  BY <1>1, <1>2, <1>3 DEF ProbeInv, MemoInv, InCall, NoOverKill

(* The fast path finds no history only if nothing is due.                  *)
LEMMA FloorTellsNotZero ==
    ASSUME BaseInv, NEW m \in Modes, FloorTells(m)
    PROVE  floor[m] # 0 /\ floor[m] > reg_seq
BY MaxSeqNat DEF FloorTells, Owed, BaseInv, TypeOK, Seqs

LEMMA RequestKeepsFastPath ==
    ASSUME Inv, NoEntries \/ NoFloors
    PROVE  RequestInv'
<1> USE DEF Inv, RequestInv, NoEntries, NoFloors, FastPath
<1>1. /\ UNCHANGED <<reg_seq, reduced, mine, returned, seq, seq_seen, ans, due,
                     memo, pruned, wpc, floor>>
      /\ pc \in {"nentry", "hardFloor0", "softFloor0"}
      /\ pc' \in {"hardFloor0", "softFloor0", "answer", "enter"}
      /\ pc' = "hardFloor0" => pc = "nentry" /\ nentry = 0
      /\ pc' = "softFloor0" => pc = "hardFloor0" /\ floor["hard"] = 0
      /\ pc' = "answer" => pc = "softFloor0" /\ floor["soft"] = 0
  BY DEF seqVars, objectVars, memoVars, probeVars, writerVars, tableVars
<1>2. ASSUME pc' = "hardFloor0", ~pruned, NEW m \in Modes, Owing(m)
      PROVE  FloorTells(m)
  <2>1. /\ due = DueUpTo(seq_seen) /\ seq_seen \in Seqs /\ seq_seen <= returned
        /\ ~InPrune
    BY <1>1, <1>2 DEF CallInv, InCall, Probing, BaseInv, TypeOK
  <2>2. PICK q \in Seqs : Owed(m, q) /\ q <= seq_seen
    BY <1>2, <2>1, DueIsOwed DEF Owing
  <2>3. q <= returned
    BY <2>1, <2>2, MaxSeqNat DEF BaseInv, TypeOK, Seqs
  <2>4. floor[m] >= q
    BY <1>1, <1>2, <2>1, <2>2, <2>3 DEF PurgesInv, EmptyInv
  <2> QED
    BY <2>2, <2>4 DEF FloorTells
<1>3. ASSUME pc' = "softFloor0", ~pruned
      PROVE  ~Owing("hard") /\ (Owing("soft") => FloorTells("soft"))
  BY <1>1, <1>3, FloorTellsNotZero, ModesDiffer DEF CallInv
<1>4. ASSUME pc' = "answer", ~pruned
      PROVE  ~Owing("hard") /\ ~Owing("soft")
  BY <1>1, <1>4, FloorTellsNotZero, ModesDiffer DEF CallInv
<1>5. CallInv'
  <2>1. \A m \in Modes : FloorTells(m)' = FloorTells(m) /\ Owing(m)' = Owing(m)
    BY <1>1 DEF FloorTells, Owed, Owing
  <2>2. DueUpTo(seq_seen)' = DueUpTo(seq_seen) /\ InPrune' = InPrune
    BY <1>1 DEF DueUpTo, InPrune
  <2> QED
    BY <1>1, <1>2, <1>3, <2>1, <2>2, ModesDiffer DEF CallInv, InCall, Probing
<1>6. AnswerCoversReturned' /\ NoOverKill'
  BY <1>1, <1>4 DEF AnswerCoversReturned, NoOverKill, Owing, CallInv
<1> QED
  BY <1>1, <1>5, <1>6 DEF ProbeInv, MemoInv, InCall

(* The table just pinned tells of all that is due: it has returned.        *)
LEMMA RequestKeepsEnter ==
    ASSUME Inv, ReaderEnter
    PROVE  RequestInv'
<1> USE DEF Inv, RequestInv, ReaderEnter
<1>1. /\ UNCHANGED <<reg_seq, reduced, mine, returned, seq, seq_seen, ans, due,
                     memo, pruned, tables, cur, wpc, floor>>
      /\ held' = cur /\ rest' = Tags /\ pc' = "hard" /\ cur \in {0, 1}
  BY DEF seqVars, tableVars, writerVars, objectVars, memoVars, BaseInv, TypeOK
<1>2. ASSUME ~pruned, NEW m \in Modes, Owing(m)
      PROVE  Tells(Tags, m)' \/ FloorTells(m)
  <2>1. /\ due = DueUpTo(seq_seen) /\ seq_seen \in Seqs /\ seq_seen <= returned
        /\ ~InPrune
    BY <1>2 DEF CallInv, InCall, Probing, BaseInv, TypeOK
  <2>2. PICK q \in Seqs : Owed(m, q) /\ q <= seq_seen
    BY <1>2, <2>1, DueIsOwed DEF Owing
  <2>3. /\ q <= returned /\ reg_seq < q /\ (Applying => q < seq)
        /\ q \in Nat /\ reg_seq \in Nat
    BY <2>1, <2>2, MaxSeqNat DEF BaseInv, WriterInv, TypeOK, Seqs, Owed
  <2>4. Told(Table, m, q) \/ floor[m] >= q
    BY <2>1, <2>2, <2>3 DEF PurgesInv, HistoryInv, Kept, InHand
  <2>5. ASSUME Told(Table, m, q) PROVE Tells(Tags, m)'
    <3>1. PICK k \in Tags : Table[k][m] >= q
      BY <2>5 DEF Told
    <3>2. Table \in Purges
      BY <1>1 DEF Table, BaseInv, TypeOK
    <3>3. Table[k][m] > reg_seq
      BY <2>3, <3>1, <3>2, TagsAreKeys, EntryNat
    <3> QED
      BY <1>1, <3>3 DEF Tells, Table
  <2> QED
    BY <2>2, <2>4, <2>5 DEF FloorTells
<1>3. \A m \in Modes : FloorTells(m)' = FloorTells(m) /\ Owing(m)' = Owing(m)
  BY <1>1 DEF FloorTells, Owed, Owing
<1>4. CallInv'
  BY <1>1 DEF CallInv, InCall, DueUpTo, Probing, InPrune
<1>5. ProbeInv'
  BY <1>1, <1>2, <1>3, ModesDiffer DEF ProbeInv
<1> QED
  BY <1>1, <1>4, <1>5 DEF MemoInv, InCall, AnswerCoversReturned, NoOverKill

(* A HARD entry newer than the object is a purge of the object; a key that *)
(* has none is not the one that tells of a HARD purge.                     *)
LEMMA RequestKeepsHard ==
    ASSUME Inv, NEW k \in Keys, LoadHard(k)
    PROVE  RequestInv'
<1> USE DEF Inv, RequestInv, LoadHard, LoadHardAs
<1>1. /\ UNCHANGED <<reg_seq, reduced, mine, returned, seq, seq_seen, due, memo,
                     pruned, tables, wpc, floor>>
      /\ pc = "hard" /\ held \in {0, 1} /\ k \in Tags
  BY DEF seqVars, tableVars, writerVars, objectVars, memoVars, ProbeInv
<1>a. \A m \in Modes : FloorTells(m)' = FloorTells(m) /\ Owing(m)' = Owing(m)
  BY <1>1 DEF FloorTells, Owed, Owing
<1>2. CASE tables[held][k]["hard"] > reg_seq
  <2>1. pc' = "answer" /\ ans' = "hard"
    BY <1>2 DEF ReaderExit
  <2>2. "hard" \in DueUpTo(seq)
    <3>1. tables[held] \in Purges /\ reg_seq \in Nat
      BY <1>1, MaxSeqNat DEF BaseInv, TypeOK, Seqs
    <3>2. tables[held][k]["hard"] \in mine["hard"]
      BY <1>1, <1>2, <3>1, ModesDiffer DEF TableInv
    <3>3. tables[held][k]["hard"] <= seq
      BY <1>1, ModesDiffer DEF TableInv
    <3> QED
      BY <1>2, <3>2, <3>3, ModesDiffer DEF DueUpTo
  <2>3. CallInv'
    BY <1>1, <2>1 DEF CallInv, InCall, DueUpTo, Probing, InPrune
  <2>4. AnswerCoversReturned' /\ NoOverKill'
    BY <1>1, <2>1, <2>2 DEF AnswerCoversReturned, NoOverKill, DueUpTo
  <2> QED
    BY <2>1, <2>3, <2>4 DEF ProbeInv, MemoInv, InCall
<1>3. CASE ~(tables[held][k]["hard"] > reg_seq)
  <2>1. /\ pc' = "soft" /\ key' = k
        /\ UNCHANGED <<held, rest, soft, ans>>
    BY <1>3
  <2>2. CallInv'
    BY <1>1, <2>1 DEF CallInv, InCall, DueUpTo, Probing, InPrune
  <2>3. Tells(rest, "hard") => Tells(rest \ {k}, "hard")
    BY <1>3 DEF Tells
  <2>4. ProbeInv'
    BY <1>1, <1>a, <2>1, <2>3, ModesDiffer DEF ProbeInv, Tells
  <2> QED
    BY <2>1, <2>2, <2>4
       DEF MemoInv, InCall, AnswerCoversReturned, NoOverKill
<1> QED
  BY <1>2, <1>3

LEMMA RequestKeepsSoft ==
    ASSUME Inv, LoadSoft
    PROVE  RequestInv'
<1> USE DEF Inv, RequestInv, LoadSoft
<1>1. /\ UNCHANGED <<reg_seq, reduced, mine, returned, seq, seq_seen, due, memo,
                     pruned, tables, held, ans, wpc, floor>>
      /\ pc = "soft" /\ pc' = "hard" /\ rest' = rest \ {key}
      /\ soft' = (soft \/ tables[held][key]["soft"] > reg_seq)
  BY DEF seqVars, tableVars, writerVars, objectVars, memoVars
<1>a. \A m \in Modes : FloorTells(m)' = FloorTells(m) /\ Owing(m)' = Owing(m)
  BY <1>1 DEF FloorTells, Owed, Owing
<1>2. CallInv'
  BY <1>1 DEF CallInv, InCall, DueUpTo, Probing, InPrune
<1>3. soft \/ Tells(rest, "soft") => soft' \/ Tells(rest \ {key}, "soft")
  BY <1>1 DEF Tells
<1>4. ProbeInv'
  BY <1>1, <1>a, <1>3, ModesDiffer DEF ProbeInv, Tells
<1> QED
  BY <1>1, <1>2, <1>4 DEF MemoInv, InCall, AnswerCoversReturned, NoOverKill

(* All keys are passed, and none told: only the flag and the floors are    *)
(* left.                                                                   *)
LEMMA RequestKeepsFloors ==
    ASSUME Inv, LoadHardFloor \/ LoadSoftFloor
    PROVE  RequestInv'
<1> USE DEF Inv, RequestInv
<1>1. UNCHANGED <<reg_seq, reduced, mine, returned, seq, seq_seen, due, memo,
                  pruned, tables, wpc, floor, floored>>
  BY DEF LoadHardFloor, LoadSoftFloor, seqVars, tableVars, writerVars, objectVars,
         memoVars
<1>2. \A m \in Modes : FloorTells(m)' = FloorTells(m) /\ Owing(m)' = Owing(m)
  BY <1>1 DEF FloorTells, Owed, Owing
<1>3. CASE LoadHardFloor
  <2>1. ~Tells(rest, "hard") /\ ~Tells(rest, "soft")
    BY <1>3 DEF Tells, LoadHardFloor
  <2>2. CASE floor["hard"] > reg_seq
    <3>1. pc = "hard" /\ pc' = "answer" /\ ans' = "hard"
      BY <1>3, <2>2 DEF LoadHardFloor, ReaderExit
    <3>2. floored > reg_seq
      BY <2>2, MaxSeqNat, ModesDiffer DEF BaseInv, WriterInv, TypeOK, Seqs
    <3>3. CallInv'
      BY <1>1, <3>1 DEF CallInv, InCall, DueUpTo, Probing, InPrune
    <3>4. AnswerCoversReturned' /\ NoOverKill'
      BY <1>1, <3>1, <3>2 DEF AnswerCoversReturned, NoOverKill
    <3> QED
      BY <3>1, <3>3, <3>4 DEF ProbeInv, MemoInv, InCall
  <2>3. CASE ~(floor["hard"] > reg_seq)
    <3>1. /\ pc = "hard" /\ pc' = "softFloor"
          /\ UNCHANGED <<held, rest, key, soft, ans>>
      BY <1>3, <2>3 DEF LoadHardFloor, probeVars
    <3>2. CallInv'
      BY <1>1, <3>1 DEF CallInv, InCall, DueUpTo, Probing, InPrune
    <3>3. ~FloorTells("hard")
      BY <2>3, FloorTellsNotZero, ModesDiffer
    <3>4. ProbeInv'
      BY <1>1, <1>2, <2>1, <3>1, <3>3, ModesDiffer DEF ProbeInv
    <3> QED
      BY <3>1, <3>2, <3>4 DEF MemoInv, InCall, AnswerCoversReturned, NoOverKill
  <2> QED
    BY <2>2, <2>3
<1>4. CASE LoadSoftFloor
  <2>1. /\ pc = "softFloor" /\ pc' = "answer"
        /\ ans' = IF soft \/ floor["soft"] > reg_seq THEN "soft" ELSE "none"
    BY <1>4 DEF LoadSoftFloor, ReaderExit
  <2>2. CallInv'
    BY <1>1, <2>1 DEF CallInv, InCall, DueUpTo, Probing, InPrune
  <2>3. FloorTells("soft") => floor["soft"] > reg_seq
    BY FloorTellsNotZero, ModesDiffer
  <2>4. AnswerCoversReturned' /\ NoOverKill'
    BY <1>1, <2>1, <2>3 DEF AnswerCoversReturned, NoOverKill, ProbeInv, Owing
  <2> QED
    BY <2>1, <2>2, <2>4 DEF ProbeInv, MemoInv, InCall
<1> QED
  BY <1>3, <1>4

(***************************************************************************)
(* The theorems                                                            *)
(***************************************************************************)
LEMMA InvInit == Init => Inv
<1> SUFFICES ASSUME Init PROVE Inv
  OBVIOUS
<1> USE DEF Init
<1>1. 0 \in Seqs /\ NoPurge \in [Modes -> Seqs]
  BY MaxSeqNat DEF Seqs, NoPurge
<1>2. Empty \in Purges
  BY <1>1 DEF Empty, Purges
<1>3. Table = Empty /\ Present(Table) = {}
  BY DEF Table, Present, Empty
<1>4. Cardinality(Present(Table)) = 0
  BY <1>3, FS_EmptySet
<1>5. TypeOK
  <2>1. 0 \in 0 .. Cardinality(Keys)
    BY KeysFinite, FS_CardinalityType
  <2> QED
    BY <1>1, <1>2, <2>1, ModesDiffer DEF TypeOK, NoBatch, NoTable
<1>6. WriterInv /\ CountInv
  BY <1>4, ModesDiffer
     DEF WriterInv, CountInv, Applying, InPrune, NoTable, NoPurge
<1>7. TableInv /\ PurgesInv
  BY TagsAreKeys
     DEF TableInv, PurgesInv, HistoryInv, FloorInv, EmptyInv, Owed, Applying, Empty,
         NoPurge
<1>8. RequestInv
  BY DEF RequestInv, CallInv, ProbeInv, MemoInv, InCall, Probing,
         AnswerCoversReturned, NoOverKill
<1> QED
  BY <1>5, <1>6, <1>7, <1>8 DEF Inv, BaseInv

LEMMA InvNext ==
    ASSUME Inv, [Next]_vars
    PROVE  Inv'
<1>1. CASE WriterStep
  <2>1. PurgesInv'
    BY <1>1, HistoryKept, FloorKept, EmptyKept DEF Inv, PurgesInv
  <2> QED
    BY <1>1, <2>1, BaseNext, TableKept, WriterKeepsRequest DEF Inv, Next
<1>2. CASE RequestStep
  <2>1. RequestInv'
    BY <1>2, RequestKeepsIdle, RequestKeepsCall, RequestKeepsFastPath,
       RequestKeepsEnter, RequestKeepsHard, RequestKeepsSoft,
       RequestKeepsFloors
       DEF RequestStep
  <2> QED
    BY <1>2, <2>1, BaseNext, RequestFrame DEF Inv, Next
<1>3. CASE UNCHANGED vars
  <2> USE <1>3 DEF vars
  <2>1. TableInv' /\ PurgesInv'
    BY DEF Inv, TableInv, PurgesInv, HistoryInv, FloorInv, EmptyInv, Kept, Owed,
           Told, InHand, Applying, InPrune, Replacing, Table
  <2>2. RequestInv'
    BY DEF Inv, RequestInv, CallInv, ProbeInv, MemoInv, InCall, Probing, InPrune,
           AnswerCoversReturned, NoOverKill, FloorTells, Owed, Owing, Tells,
           DueUpTo
  <2> QED
    BY <2>1, <2>2, BaseNext DEF Inv
<1> QED
  BY <1>1, <1>2, <1>3 DEF Next

THEOREM Invariant == Spec => []Inv
<1>1. Init => Inv
  BY InvInit
<1>2. Inv /\ [Next]_vars => Inv'
  BY InvNext
<1> QED
  BY <1>1, <1>2, PTL DEF Spec

(* Every variable of a probe and of the writer keeps its type, for any     *)
(* keys, tags and number of purges.                                        *)
THEOREM TypeCorrect == Spec => []TypeOK
<1>1. Inv => TypeOK
  BY DEF Inv, BaseInv
<1> QED
  BY <1>1, Invariant, PTL

(* A call of stale() answers for every purge that returned before it, by   *)
(* the fast path, the table or the memo, with upserts and reclaims under   *)
(* way at any point of it.                                                 *)
THEOREM ProbesCoverReturned == Spec => []AnswerCoversReturned
<1>1. Inv => AnswerCoversReturned
  BY DEF Inv, RequestInv
<1> QED
  BY <1>1, Invariant, PTL

(* A HARD answer is due to a HARD purge of one of the object's own tags.   *)
THEOREM ProbesKillNoOther == Spec => []NoOverKill
<1>1. Inv => NoOverKill
  BY DEF Inv, RequestInv
<1> QED
  BY <1>1, Invariant, PTL
=============================================================================
