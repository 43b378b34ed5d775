----------------------- MODULE PublicationGateProofs -----------------------
(***************************************************************************)
(* Proofs about PublicationGate for every set of objects and of keys and   *)
(* every tagging: that no invalidation is lost for a namespace without a   *)
(* history cap, the rest for every cap.                                    *)
(*                                                                         *)
(* The argument: a purge newer than the last reclaim is in the table or    *)
(* under a floor, the one stored or the one a prune is about to store      *)
(* (IntactInv).  With no cap, a purge that an object still needs is in the *)
(* table until a reclaim whose cutoff covers it.  A certificate is taken   *)
(* while every registration that may predate it sits in the slot it drains *)
(* (PhaseInv).  From then on an object needs no purge up to the cutoff,    *)
(* because it registered later, was probed later, or was judged by the     *)
(* sweep, or else it is still to be judged or still in the drained slot    *)
(* (CertInv).  The sweep empties the first of these, the drain the second  *)
(* (ReclaimInv).                                                           *)
(***************************************************************************)
EXTENDS PublicationGate, FiniteSetTheorems, WellFoundedInduction, TLAPS

(***************************************************************************)
(* Largest elements                                                        *)
(***************************************************************************)
(* The order of the naturals, as a relation.                               *)
Below == {p \in Nat \X Nat : p[1] < p[2]}

(* No descent below zero goes on for ever.                                 *)
LEMMA BelowWellFounded == IsWellFoundedOn(Below, Nat)
BY NatLessThanWellFounded, Zenon DEF OpToRel, Below

(* A bounded set of naturals has a largest element, the smallest of the    *)
(* bounds.                                                                 *)
LEMMA Greatest ==
    ASSUME NEW b \in Nat, NEW S \in SUBSET (0 .. b), S # {}
    PROVE  \E v \in S : \A w \in S : w <= v
<1> DEFINE Bounds == {n \in Nat : \A w \in S : w <= n}
<1>1. b \in Bounds
  OBVIOUS
<1>2. PICK v \in Bounds : \A n \in Bounds : <<n, v>> \notin Below
  <2>1. Bounds \subseteq Nat /\ Bounds # {}
    BY <1>1
  <2> HIDE DEF Bounds
  <2> QED
    BY <2>1, BelowWellFounded, WFMin
<1>3. v \in Nat /\ \A n \in Bounds : ~(n < v)
  BY <1>2 DEF Below
<1>4. v \in S
  <2> SUFFICES ASSUME v \notin S PROVE FALSE
    OBVIOUS
  <2>1. \A w \in S : w \in Nat /\ w <= v /\ w # v
    BY <1>2
  <2>2. v > 0
    <3>1. PICK w \in S : TRUE
      OBVIOUS
    <3> QED
      BY <1>3, <2>1, <3>1
  <2>3. v - 1 \in Bounds
    BY <2>1, <2>2, <1>3
  <2> QED
    BY <1>3, <2>2, <2>3
<1> QED
  BY <1>2, <1>4

(* The control points at which an object is counted in its slot.           *)
CountedPoints ==
    {"recheck", "unstable", "stable", "pending", "attaching", "leaving"}

Holders(s) == {o \in Objects : state[o] \in CountedPoints /\ slot[o] = s}

CountOK == \A s \in Slots : readers[s] = Cardinality(Holders(s))

SeqInv ==
    /\ HistoryCap = 0 => wpc \in {"idle", "apply"}
    /\ \A k \in Keys, m \in Modes : purged[k][m] <= seq
    /\ \A o \in Objects : reg_seq[o] <= seq
    /\ cutoff <= seq /\ reclaim_cutoff <= cutoff
    /\ wpc = "apply" => cutoff < seq

BaseInv == TypeOK /\ CountOK /\ SeqInv

(* A certificate is open from cert_begin to cert_finish.                   *)
Active == cert /\ spc \in {"start", "sweep", "finish", "aborted"}

(* At most one drain of the gate is under way, and always of the slot that *)
(* is not the current one; without one every registration is current.      *)
PhaseInv ==
    /\ spc \in {"finish", "aborted"} => cert
    /\ spc = "finish" => todo = {}
    /\ Active =>
          certPhase = 1 - phase /\ ~reclaim_pending /\ ~publication_blocked
    /\ reclaim_pending =>
          reclaim_phase = 1 - phase /\ ~publication_blocked
    /\ publication_blocked => publication_blocked_phase = 1 - phase
    /\ ~Active /\ ~reclaim_pending /\ ~publication_blocked =>
          \A o \in Objects :
             state[o] \in {"stable", "pending"} => slot[o] = phase

(* The floors in force, or in the hands of a prune.                        *)
Floors == IF wpc = "floors" THEN newFloor ELSE floor

IntactInv ==
    \A k \in Keys, m \in Modes :
        purged[k][m] > reclaim_cutoff =>
            entry[k][m] = purged[k][m] \/ Floors[m] >= purged[k][m]

(* The purges that can still change what becomes of an object.             *)
Needed(o, k, m) == purged[k][m] > reg_seq[o] /\ ~(m = "soft" /\ reduced[o])

HistoryInv ==
    \A o \in Registered : \A k \in Tags[o], m \in Modes :
        Needed(o, k, m) => entry[k][m] = purged[k][m]

(* Object o needs no purge up to sequence c.                               *)
Covered(o, c) ==
    \A k \in Tags[o], m \in Modes : Needed(o, k, m) => purged[k][m] > c

PendingIn(o, s) == state[o] = "pending" /\ slot[o] = s

ToBeJudged(o) ==
    /\ spc \in {"start", "sweep"}
    /\ state[o] \in {"attaching", "attached"}
    /\ spc = "start" \/ o \in todo

CertInv ==
    Active /\ spc # "aborted" =>
        \A o \in Registered :
            Covered(o, cutoff) \/ PendingIn(o, certPhase) \/ ToBeJudged(o)

ReclaimInv ==
    reclaim_pending =>
        \A o \in Registered :
            Covered(o, reclaim_cutoff) \/ PendingIn(o, reclaim_phase)

HistInv == HistoryInv /\ CertInv /\ ReclaimInv
(* The objects that the sweep has yet to judge are indexed.                *)
TodoIndexed == spc = "sweep" => todo \subseteq Indexed

Inv ==
    /\ BaseInv /\ TodoIndexed /\ PhaseInv /\ IntactInv
    /\ HistoryCap = 0 => HistInv

(***************************************************************************)
(* Types, counters and sequences                                           *)
(***************************************************************************)

LEMMA HoldersFinite ==
    ASSUME NEW s
    PROVE  /\ IsFiniteSet(Holders(s))
           /\ Cardinality(Holders(s)) \in Nat
<1>1. Holders(s) \subseteq Objects  BY DEF Holders
<1>2. QED  BY <1>1, ObjectsFinite, FS_Subset, FS_CardinalityType

(* An object that holds a slot keeps the slot's counter above zero.        *)
LEMMA HolderCounted ==
    ASSUME TypeOK, CountOK, NEW o \in Objects, state[o] \in CountedPoints
    PROVE  readers[slot[o]] \in Nat \ {0}
<1>1. slot[o] \in Slots  BY DEF TypeOK
<1>2. o \in Holders(slot[o])  BY DEF Holders
<1>3. Cardinality(Holders(slot[o])) # 0
  BY <1>2, HoldersFinite, FS_EmptySet
<1>4. QED  BY <1>1, <1>3, HoldersFinite DEF CountOK

LEMMA CountUnchanged ==
    ASSUME CountOK, readers' = readers,
           \A s \in Slots : Holders(s)' = Holders(s)
    PROVE  CountOK'
BY DEF CountOK

(* Object o moves, and holds a slot afterwards just if it did before.      *)
LEMMA SameHolders ==
    ASSUME TypeOK, CountOK, NEW o \in Objects, NEW l \in States,
           Goto(o, l), slot' = slot, readers' = readers,
           state[o] \in CountedPoints <=> l \in CountedPoints
    PROVE  CountOK'
<1>1. /\ state'[o] = l
      /\ \A x \in Objects \ {o} : state'[x] = state[x]
  BY DEF TypeOK, Goto
<1>2. \A s \in Slots : Holders(s)' = Holders(s)
  BY <1>1 DEF Holders
<1>3. QED  BY <1>2, CountUnchanged

(* Object o gives its slot back.                                           *)
LEMMA ReleaseCount ==
    ASSUME TypeOK, CountOK, NEW o \in Objects, NEW l \in States \ CountedPoints,
           state[o] \in CountedPoints, Goto(o, l), slot' = slot,
           readers' = [readers EXCEPT ![slot[o]] = @ - 1]
    PROVE  CountOK' /\ readers' \in [Slots -> Nat]
<1> DEFINE q == slot[o]
<1>1. q \in Slots /\ readers \in [Slots -> Nat] /\ readers[q] \in Nat \ {0}
  BY HolderCounted DEF TypeOK
<1>2. /\ state'[o] = l
      /\ \A x \in Objects \ {o} : state'[x] = state[x]
  BY DEF TypeOK, Goto
<1>3. Holders(q)' = Holders(q) \ {o}
  BY <1>2 DEF Holders
<1>4. \A s \in Slots \ {q} : Holders(s)' = Holders(s)
  BY <1>2 DEF Holders
<1>5. o \in Holders(q)
  BY DEF Holders
<1>6. Cardinality(Holders(q)') = Cardinality(Holders(q)) - 1
  BY <1>3, <1>5, HoldersFinite, FS_RemoveElement
<1>7. \A s \in Slots : readers'[s] = Cardinality(Holders(s))'
  BY <1>1, <1>4, <1>6 DEF CountOK
<1>8. QED  BY <1>1, <1>7 DEF CountOK

LEMMA BaseInit == Init => BaseInv
<1> SUFFICES ASSUME Init PROVE BaseInv  OBVIOUS
<1>1. TypeOK
  <2>1. NoBatch \in [keys : SUBSET Keys, mode : Modes]
    BY DEF NoBatch, Modes
  <2>2. 0 \in Seqs
    BY MaxSeqNat DEF Seqs
  <2>3. NoPurge \in [Modes -> Seqs]
    BY <2>2 DEF NoPurge
  <2>4. QED
    BY <2>1, <2>2, <2>3 DEF Init, TypeOK, Slots, States
<1>2. \A s \in Slots : Holders(s) = {}
  BY DEF Init, Holders, CountedPoints
<1>3. CountOK
  BY <1>2, FS_EmptySet DEF Init, CountOK
<1>4. SeqInv
  BY DEF Init, SeqInv, NoPurge
<1>5. QED  BY <1>1, <1>3, <1>4 DEF BaseInv

LEMMA BasePublicationStep ==
    ASSUME BaseInv, NEW o \in Objects, PublicationStep(o)
    PROVE  BaseInv'
<1> USE DEF BaseInv
<1> USE DEF historyVars, writerVars, gateVars, sweepVars, reclaimVars, CountedPoints
<1>1. SeqInv'
  <2>1. /\ UNCHANGED <<seq, purged, wpc, cutoff, reclaim_cutoff>>
        /\ \A x \in Objects : reg_seq'[x] \in {reg_seq[x], seq}
    BY DEF PublicationStep, LoadPhase, AddReader, Recheck, Retry, LoadSeq,
           Attach, Abandon, PublicationExit, TypeOK
  <2>2. seq \in Int
    BY MaxSeqNat DEF TypeOK, Seqs
  <2>3. QED  BY <2>1, <2>2 DEF SeqInv
<1>2. CASE LoadPhase(o)
  <2>1. TypeOK'
    BY <1>2 DEF LoadPhase, Goto, TypeOK, States
  <2>2. /\ state[o] \notin CountedPoints
        /\ state' = [state EXCEPT ![o] = "add"]
        /\ slot' = [slot EXCEPT ![o] = phase]
        /\ readers' = readers
    BY <1>2 DEF LoadPhase, Goto
  <2>3. \A s \in Slots : Holders(s)' = Holders(s)
    BY <2>2 DEF Holders, TypeOK
  <2>4. QED  BY <1>1, <2>1, <2>2, <2>3, CountUnchanged
<1>3. CASE AddReader(o)
  <2> DEFINE q == slot[o]
  <2>1. /\ q \in Slots
        /\ readers' = [readers EXCEPT ![q] = @ + 1]
        /\ state[o] = "add"
        /\ state' = [state EXCEPT ![o] = "recheck"]
        /\ slot' = slot
    BY <1>3 DEF AddReader, Goto, TypeOK
  <2>2. TypeOK'
    BY <1>3, <2>1 DEF AddReader, TypeOK, States
  <2>3. Holders(q)' = Holders(q) \cup {o}
    BY <2>1 DEF Holders, TypeOK
  <2>4. \A s \in Slots \ {q} : Holders(s)' = Holders(s)
    BY <2>1 DEF Holders, TypeOK
  <2>5. o \notin Holders(q)
    BY <2>1 DEF Holders
  <2>6. Cardinality(Holders(q)') = Cardinality(Holders(q)) + 1
    BY <2>3, <2>5, HoldersFinite, FS_AddElement
  <2>7. CountOK'
    BY <2>1, <2>4, <2>6 DEF CountOK, TypeOK
  <2>8. QED  BY <1>1, <2>2, <2>7
<1>4. CASE Recheck(o)
  <2>1. TypeOK'
    BY <1>4 DEF Recheck, Goto, TypeOK, States
  <2>2. CountOK'
    BY <1>4, SameHolders DEF Recheck, States
  <2>3. QED  BY <1>1, <2>1, <2>2
<1>5. CASE Retry(o)
  <2>1. CountOK' /\ readers' \in [Slots -> Nat]
    BY <1>5, ReleaseCount DEF Retry, States
  <2>2. TypeOK'
    BY <1>5, <2>1 DEF Retry, Goto, TypeOK, States
  <2>3. QED  BY <1>1, <2>1, <2>2
<1>6. CASE LoadSeq(o)
  <2>1. TypeOK'
    BY <1>6 DEF LoadSeq, Goto, TypeOK, States
  <2>2. CountOK'
    BY <1>6, SameHolders DEF LoadSeq, States
  <2>3. QED  BY <1>1, <2>1, <2>2
<1>7. CASE Attach(o)
  <2>1. TypeOK'
    BY <1>7 DEF Attach, Goto, TypeOK, States
  <2>2. CountOK'
    BY <1>7, SameHolders DEF Attach, States
  <2>3. QED  BY <1>1, <2>1, <2>2
<1>8. CASE Abandon(o)
  <2>1. TypeOK'
    BY <1>8 DEF Abandon, Goto, TypeOK, States
  <2>2. CountOK'
    BY <1>8, SameHolders DEF Abandon, States
  <2>3. QED  BY <1>1, <2>1, <2>2
<1>9. CASE PublicationExit(o)
  <2>1. CountOK' /\ readers' \in [Slots -> Nat]
    BY <1>9, ReleaseCount DEF PublicationExit, States
  <2>2. TypeOK'
    BY <1>9, <2>1 DEF PublicationExit, Goto, TypeOK, States
  <2>3. QED  BY <1>1, <2>1, <2>2
<1>10. QED
  BY <1>2, <1>3, <1>4, <1>5, <1>6, <1>7, <1>8, <1>9 DEF PublicationStep

(* What is not a step of a registration.                                   *)
OtherNext ==
    \/ \E K \in SUBSET Keys \ {{}}, m \in Modes : PurgeBegin(K, m)
    \/ CompactPrune
    \/ WriterStep
    \/ \E o \in Objects : Death(o)
    \/ SweepStep
    \/ SweepAbort

(* A purge that ends without pruning is the only step of a writer besides  *)
(* its beginning: with no cap the map is never over it.                    *)
LEMMA Uncapped ==
    ASSUME HistoryCap = 0, SeqInv
    PROVE  /\ ~CompactPrune /\ ~PruneSwap /\ ~PruneFloors
           /\ PurgeApply => wpc' = "idle"
BY DEF SeqInv, CompactPrune, PruneSwap, PruneFloors, PurgeApply, OverCap

(* Taking a record out of the index leaves its object where it is counted. *)
LEMMA RemoveCount ==
    ASSUME TypeOK, CountOK, NEW o \in Indexed, Remove(o),
           slot' = slot, readers' = readers
    PROVE  CountOK' /\ state' \in [Objects -> States]
<1>1. /\ o \in Objects
      /\ state[o] \in {"attaching", "attached"}
      /\ Goto(o, IF state[o] = "attaching" THEN "leaving" ELSE "gone")
  BY DEF Indexed, Remove
<1>2. CountOK'
  BY <1>1, SameHolders DEF CountedPoints, States
<1>3. QED  BY <1>1, <1>2 DEF Goto, TypeOK, States

(* A prune keeps an entry as it is or drops it under the new floors, which *)
(* are nowhere below the old ones.                                         *)
LEMMA PruneFacts ==
    ASSUME TypeOK, PruneSwap
    PROVE  /\ entry' \in [Keys -> [Modes -> Seqs]]
           /\ newFloor' \in [Modes -> Seqs]
           /\ wpc' = "floors"
           /\ \A m \in Modes : newFloor'[m] >= floor[m]
           /\ \A k \in Keys, m \in Modes :
                 entry'[k][m] = entry[k][m] \/ newFloor'[m] >= entry[k][m]
<1> DEFINE pruned == {k \in Present : Newest(entry[k]) <= PruneCutoff}
           Candidates(m) == {floor[m]} \cup {entry[k][m] : k \in pruned}
           Top(m, v) == v >= floor[m] /\ \A k \in pruned : v >= entry[k][m]
<1>1. /\ entry' = [k \in Keys |-> IF k \in pruned THEN NoPurge ELSE entry[k]]
      /\ newFloor' = [m \in Modes |-> CHOOSE v \in Candidates(m) : Top(m, v)]
      /\ wpc' = "floors"
  BY DEF PruneSwap
<1>2. pruned \subseteq Keys
  BY DEF Present
<1> HIDE DEF pruned
<1>3. NoPurge \in [Modes -> Seqs]
  BY MaxSeqNat DEF NoPurge, Seqs
<1>4. ASSUME NEW m \in Modes
      PROVE  newFloor'[m] \in Seqs /\ Top(m, newFloor'[m])
  <2>1. Candidates(m) \in SUBSET Seqs /\ Candidates(m) # {}
    BY <1>2 DEF TypeOK
  <2>2. PICK v \in Candidates(m) : \A w \in Candidates(m) : w <= v
    BY <2>1, Greatest, MaxSeqNat DEF Seqs
  <2>3. \A w \in Candidates(m) : w \in Int /\ v \in Int
    BY <2>1, MaxSeqNat DEF Seqs
  <2>4. Top(m, v)
    BY <2>2, <2>3
  <2>5. \E v0 \in Candidates(m) : Top(m, v0)
    BY <2>4
  <2>6. newFloor'[m] = CHOOSE v0 \in Candidates(m) : Top(m, v0)
    BY <1>1
  <2> HIDE DEF Top, Candidates
  <2>7. newFloor'[m] \in Candidates(m) /\ Top(m, newFloor'[m])
    BY <2>5, <2>6
  <2> QED
    BY <2>1, <2>7
<1>5. entry' \in [Keys -> [Modes -> Seqs]]
  BY <1>1, <1>3 DEF TypeOK
<1>6. newFloor' \in [Modes -> Seqs]
  <2> HIDE DEF Top, Candidates
  <2> QED
    BY <1>1, <1>4
<1>7. \A k \in Keys, m \in Modes :
         entry'[k][m] = entry[k][m] \/ newFloor'[m] >= entry[k][m]
  BY <1>1, <1>4
<1> QED
  BY <1>1, <1>4, <1>5, <1>6, <1>7

LEMMA SeqOtherStep ==
    ASSUME BaseInv, OtherNext
    PROVE  SeqInv'
<1> USE DEF BaseInv, SeqInv, TypeOK, Seqs
<1> USE DEF historyVars, writerVars, gateVars, objectVars, sweepVars, reclaimVars
<1>0. seq \in Int /\ cutoff \in Int /\ reclaim_cutoff \in Int
  BY MaxSeqNat
<1>1. CASE \E K \in SUBSET Keys \ {{}}, m \in Modes : PurgeBegin(K, m)
  <2>1. /\ wpc' = "apply" /\ seq' = seq + 1
        /\ UNCHANGED <<purged, reg_seq, cutoff, reclaim_cutoff>>
    BY <1>1 DEF PurgeBegin
  <2>2. \A k \in Keys, m \in Modes : purged[k][m] \in Int
    BY MaxSeqNat
  <2>3. \A o \in Objects : reg_seq[o] \in Int
    BY MaxSeqNat
  <2>4. QED  BY <1>0, <2>1, <2>2, <2>3
<1>2. CASE CompactPrune \/ WriterStep
  <2>1. /\ UNCHANGED <<seq, reg_seq, cutoff, reclaim_cutoff>>
        /\ wpc' # "apply"
    BY <1>2 DEF CompactPrune, WriterStep, PurgeApply, PruneSwap, PruneFloors
  <2>2. \A k \in Keys, m \in Modes :
           purged'[k][m] = purged[k][m] \/ purged'[k][m] = seq
    <3>1. CASE PurgeApply
      BY <3>1 DEF PurgeApply
    <3>2. CASE CompactPrune \/ PruneSwap \/ PruneFloors
      BY <3>2 DEF CompactPrune, PruneSwap, PruneFloors
    <3>3. QED  BY <1>2, <3>1, <3>2 DEF WriterStep
  <2>3. HistoryCap = 0 => wpc' = "idle"
    BY <1>2, Uncapped DEF WriterStep
  <2>4. \A k \in Keys, m \in Modes : purged'[k][m] <= seq
    BY <1>0, <2>2
  <2>5. QED  BY <1>0, <2>1, <2>3, <2>4
<1>3. CASE \E o \in Objects : Death(o)
  BY <1>3 DEF Death
<1>4. CASE SweepStep \/ SweepAbort
  <2>1. /\ UNCHANGED <<seq, purged, wpc, reg_seq>>
        /\ cutoff' \in {cutoff, seq}
        /\ reclaim_cutoff' \in {reclaim_cutoff, cutoff}
        /\ cutoff' # cutoff => wpc = "idle"
    BY <1>4
    DEF SweepStep, SweepAbort, TryReclaim, SkipReclaim, CertRefused, CertBegin,
        SweepStart, SweepEnd, CertFinish, CertAborted, SweepKill, SweepKeep,
        PurgeMtxFree
  <2>2. QED  BY <1>0, <2>1
<1>5. QED  BY <1>1, <1>2, <1>3, <1>4 DEF OtherNext

LEMMA BaseOtherStep ==
    ASSUME BaseInv, TodoIndexed, OtherNext
    PROVE  BaseInv'
<1> USE DEF BaseInv
<1> USE DEF historyVars, writerVars, gateVars, objectVars, sweepVars, reclaimVars
<1>1. SeqInv'
  BY SeqOtherStep
<1>2. CASE \E K \in SUBSET Keys \ {{}}, m \in Modes : PurgeBegin(K, m)
  <2>1. PICK K \in SUBSET Keys \ {{}}, m \in Modes : PurgeBegin(K, m)
    BY <1>2
  <2>2. seq' \in Seqs
    BY <2>1, MaxSeqNat DEF PurgeBegin, TypeOK, Seqs
  <2>3. batch' \in [keys : SUBSET Keys, mode : Modes]
    BY <2>1 DEF PurgeBegin
  <2>4. TypeOK'
    BY <2>1, <2>2, <2>3 DEF PurgeBegin, TypeOK
  <2>5. CountOK'
    BY <2>1, CountUnchanged DEF PurgeBegin, Holders
  <2>6. QED  BY <1>1, <2>4, <2>5
<1>3. CASE CompactPrune \/ WriterStep
  <2>1. CASE PurgeApply
    <3>1. NoBatch \in [keys : SUBSET Keys, mode : Modes]
      BY DEF NoBatch, Modes
    <3>2. /\ entry' \in [Keys -> [Modes -> Seqs]]
          /\ purged' \in [Keys -> [Modes -> Seqs]]
      BY <2>1 DEF PurgeApply, TypeOK
    <3>3. wpc' \in {"idle", "swap"}
      BY <2>1 DEF PurgeApply
    <3>4. TypeOK'
      BY <2>1, <3>1, <3>2, <3>3 DEF PurgeApply, TypeOK
    <3>5. CountOK'
      BY <2>1, CountUnchanged DEF PurgeApply, Holders
    <3>6. QED  BY <1>1, <3>4, <3>5
  <2>2. CASE CompactPrune
    <3>1. TypeOK'
      BY <2>2 DEF CompactPrune, TypeOK
    <3>2. CountOK'
      BY <2>2, CountUnchanged DEF CompactPrune, Holders
    <3>3. QED  BY <1>1, <3>1, <3>2
  <2>3. CASE PruneSwap
    <3>1. /\ entry' \in [Keys -> [Modes -> Seqs]]
          /\ newFloor' \in [Modes -> Seqs]
          /\ wpc' = "floors"
      BY <2>3, PruneFacts DEF BaseInv
    <3>2. TypeOK'
      BY <2>3, <3>1 DEF PruneSwap, TypeOK
    <3>3. CountOK'
      BY <2>3, CountUnchanged DEF PruneSwap, Holders
    <3>4. QED  BY <1>1, <3>2, <3>3
  <2>4. CASE PruneFloors
    <3>1. TypeOK'
      BY <2>4 DEF PruneFloors, TypeOK
    <3>2. CountOK'
      BY <2>4, CountUnchanged DEF PruneFloors, Holders
    <3>3. QED  BY <1>1, <3>1, <3>2
  <2>5. QED
    BY <1>3, <2>1, <2>2, <2>3, <2>4 DEF WriterStep
<1>4. CASE \E o \in Objects : Death(o)
  <2>1. PICK o \in Objects : Death(o)
    BY <1>4
  <2>2. o \in Indexed /\ Remove(o) /\ slot' = slot /\ readers' = readers
    BY <2>1 DEF Death
  <2>3. CountOK' /\ state' \in [Objects -> States]
    BY <2>2, RemoveCount
  <2>4. TypeOK'
    BY <2>1, <2>2, <2>3 DEF Death, Remove, TypeOK
  <2>5. QED  BY <1>1, <2>3, <2>4
<1>5. CASE \E o \in Objects : SweepKill(o)
  <2>1. PICK o \in Objects : SweepKill(o)
    BY <1>5
  <2>2. o \in Indexed /\ Remove(o) /\ slot' = slot /\ readers' = readers
    BY <2>1 DEF SweepKill, TodoIndexed
  <2>3. CountOK' /\ state' \in [Objects -> States]
    BY <2>2, RemoveCount
  <2>4. TypeOK'
    BY <2>1, <2>2, <2>3 DEF SweepKill, Remove, TypeOK
  <2>5. QED  BY <1>1, <2>3, <2>4
<1>6. CASE TryReclaim
  <2>1. 0 \in Seqs
    BY MaxSeqNat DEF Seqs
  <2>2. \A e \in [Modes -> Seqs] : Forget(e) \in [Modes -> Seqs]
    BY <2>1 DEF Forget
  <2>3. TypeOK'
    BY <1>6, <2>2 DEF TryReclaim, AfterReclaim, TypeOK
  <2>4. CountOK'
    BY <1>6, CountUnchanged DEF TryReclaim, Holders
  <2>5. QED  BY <1>1, <2>3, <2>4
<1>7. CASE \/ SkipReclaim \/ CertRefused \/ CertBegin \/ SweepStart \/ SweepEnd
           \/ CertFinish \/ CertAborted \/ SweepAbort
           \/ \E o \in Objects : SweepKeep(o)
  <2>1. TypeOK'
    <3> USE DEF TypeOK, AfterReclaim
    <3>1. CASE SkipReclaim  BY <3>1 DEF SkipReclaim
    <3>2. CASE CertRefused  BY <3>2 DEF CertRefused, StillBlocked
    <3>3. CASE CertBegin
      <4>1. 1 - phase \in Slots  BY DEF Slots
      <4>2. QED  BY <3>3, <4>1 DEF CertBegin
    <3>4. CASE SweepStart  BY <3>4 DEF SweepStart, Indexed
    <3>5. CASE SweepEnd  BY <3>5 DEF SweepEnd
    <3>6. CASE CertFinish  BY <3>6 DEF CertFinish
    <3>7. CASE CertAborted  BY <3>7 DEF CertAborted
    <3>8. CASE SweepAbort  BY <3>8 DEF SweepAbort
    <3>9. CASE \E o \in Objects : SweepKeep(o)
      <4>1. PICK o \in Objects : SweepKeep(o)  BY <3>9
      <4>2. reduced' \in [Objects -> BOOLEAN]
        BY <4>1 DEF SweepKeep
      <4>3. QED  BY <4>1, <4>2 DEF SweepKeep
    <3>10. QED
      BY <1>7, <3>1, <3>2, <3>3, <3>4, <3>5, <3>6, <3>7, <3>8, <3>9
  <2>2. readers' = readers /\ state' = state /\ slot' = slot
    BY <1>7
    DEF SkipReclaim, CertRefused, CertBegin, SweepStart, SweepEnd, CertFinish,
        CertAborted, SweepAbort, SweepKeep
  <2>3. CountOK'
    BY <2>2, CountUnchanged DEF Holders
  <2>4. QED  BY <1>1, <2>1, <2>3
<1>8. QED
  BY <1>2, <1>3, <1>4, <1>5, <1>6, <1>7 DEF OtherNext, SweepStep

(***************************************************************************)
(* The phases of the gate                                                  *)
(***************************************************************************)

(* Once the slot under drain is empty, every registration is current.      *)
LEMMA CurrentSlots ==
    ASSUME BaseInv, PhaseInv, ~Active,
           reclaim_pending => readers[reclaim_phase] = 0,
           publication_blocked => readers[publication_blocked_phase] = 0,
           NEW o \in Objects, state[o] \in {"stable", "pending"}
    PROVE  slot[o] = phase
<1>1. readers[slot[o]] # 0
  BY HolderCounted DEF BaseInv, CountedPoints
<1>2. slot[o] \in Slots /\ phase \in Slots
  BY DEF BaseInv, TypeOK
<1>3. CASE reclaim_pending \/ publication_blocked
  BY <1>1, <1>2, <1>3 DEF PhaseInv, Slots
<1>4. CASE ~reclaim_pending /\ ~publication_blocked
  BY <1>4 DEF PhaseInv
<1>5. QED  BY <1>3, <1>4

LEMMA TodoStep ==
    ASSUME TypeOK, TodoIndexed, [Next]_vars
    PROVE  TodoIndexed'
<1> USE DEF TodoIndexed, Indexed, TypeOK
<1> USE DEF historyVars, writerVars, gateVars, objectVars, sweepVars, reclaimVars
<1>1. CASE \E o \in Objects : PublicationStep(o)
  BY <1>1 DEF PublicationStep, LoadPhase, AddReader, Recheck, Retry, LoadSeq,
              Attach, Abandon, PublicationExit, Goto
<1>2. CASE \E o \in Objects : Death(o) \/ SweepKill(o)
  BY <1>2 DEF Death, SweepKill, Remove, Goto
<1>3. CASE SweepStart
  BY <1>3 DEF SweepStart
<1>4. CASE \E o \in Objects : SweepKeep(o)
  BY <1>4 DEF SweepKeep
<1>5. CASE \/ TryReclaim \/ SkipReclaim \/ CertRefused \/ CertBegin
           \/ SweepEnd \/ CertFinish \/ CertAborted \/ SweepAbort
  BY <1>5 DEF TryReclaim, SkipReclaim, CertRefused, CertBegin, SweepEnd,
              CertFinish, CertAborted, SweepAbort, AfterReclaim
<1>6. CASE \/ \E K \in SUBSET Keys \ {{}}, m \in Modes : PurgeBegin(K, m)
           \/ CompactPrune \/ WriterStep
  BY <1>6 DEF PurgeBegin, CompactPrune, WriterStep, PurgeApply, PruneSwap,
              PruneFloors
<1>7. CASE UNCHANGED vars
  BY <1>7 DEF vars
<1>8. QED
  BY <1>1, <1>2, <1>3, <1>4, <1>5, <1>6, <1>7 DEF Next, SweepStep

LEMMA PhaseStep ==
    ASSUME BaseInv, PhaseInv, [Next]_vars
    PROVE  PhaseInv'
<1> USE DEF historyVars, writerVars, gateVars, objectVars, sweepVars, reclaimVars
<1>0. /\ phase \in Slots
      /\ state \in [Objects -> States]
      /\ slot \in [Objects -> Slots]
      /\ 1 - (1 - phase) = phase
  BY DEF BaseInv, TypeOK, Slots
<1>1. CASE \E o \in Objects : PublicationStep(o)
  <2>1. PICK o \in Objects : PublicationStep(o)
    BY <1>1
  <2>2. UNCHANGED <<phase, sweepVars, reclaimVars>>
    BY <2>1 DEF PublicationStep, LoadPhase, AddReader, Recheck, Retry,
                LoadSeq, Attach, Abandon, PublicationExit
  <2>3. \A x \in Objects : state'[x] \in {"stable", "pending"} =>
           \/ state[x] \in {"stable", "pending"} /\ slot'[x] = slot[x]
           \/ slot'[x] = phase
    BY <1>0, <2>1
    DEF PublicationStep, LoadPhase, AddReader, Recheck, Retry,
        LoadSeq, Attach, Abandon, PublicationExit, Goto
  <2>4. QED  BY <2>2, <2>3 DEF PhaseInv, Active
<1>2. CASE \E o \in Objects : Death(o) \/ SweepKill(o) \/ SweepKeep(o)
  <2>1. /\ UNCHANGED <<phase, slot, spc, cert, cutoff, certPhase, reclaimVars>>
        /\ todo' \subseteq todo
        /\ \A x \in Objects : state'[x] \in {"stable", "pending"} =>
              state[x] \in {"stable", "pending"}
    BY <1>0, <1>2 DEF Death, SweepKill, SweepKeep, Remove, Goto
  <2>2. QED  BY <2>1 DEF PhaseInv, Active
<1>3. CASE TryReclaim
  <2>1. /\ UNCHANGED <<phase, slot, state, cert, certPhase, todo, reclaim_phase,
                       publication_blocked, publication_blocked_phase>>
        /\ ~Active /\ ~Active' /\ spc' \in {"begin", "idle"}
        /\ reclaim_pending /\ readers[reclaim_phase] = 0 /\ ~reclaim_pending'
    BY <1>3 DEF TryReclaim, AfterReclaim, Reclaimable, Active
  <2>2. ~publication_blocked
    BY <2>1 DEF PhaseInv
  <2>3. \A o \in Objects : state[o] \in {"stable", "pending"} => slot[o] = phase
    BY <2>1, <2>2, CurrentSlots
  <2>4. QED  BY <2>1, <2>2, <2>3 DEF PhaseInv
<1>4. CASE SkipReclaim
  BY <1>4 DEF SkipReclaim, AfterReclaim, PhaseInv, Active
<1>5. CASE CertRefused
  <2>1. CASE StillBlocked
    BY <1>5, <2>1 DEF CertRefused, StillBlocked, PhaseInv, Active
  <2>2. CASE ~StillBlocked
    BY <1>5, <2>2 DEF CertRefused, PhaseInv, Active
  <2>3. QED  BY <2>1, <2>2
<1>6. CASE CertBegin
  BY <1>0, <1>6 DEF CertBegin, PhaseInv, Active
<1>7. CASE SweepStart
  BY <1>7 DEF SweepStart, PhaseInv, Active
<1>8. CASE SweepEnd
  BY <1>8 DEF SweepEnd, PhaseInv, Active
<1>9. CASE SweepAbort
  BY <1>9 DEF SweepAbort, PhaseInv, Active
<1>10. CASE CertFinish
  BY <1>10 DEF CertFinish, PhaseInv, Active
<1>11. CASE CertAborted
  BY <1>11 DEF CertAborted, PhaseInv, Active
<1>12. CASE \/ \E K \in SUBSET Keys \ {{}}, m \in Modes : PurgeBegin(K, m)
            \/ CompactPrune \/ WriterStep
  <2>1. UNCHANGED <<gateVars, objectVars, sweepVars, reclaimVars>>
    BY <1>12 DEF PurgeBegin, CompactPrune, WriterStep, PurgeApply, PruneSwap,
                 PruneFloors
  <2>2. QED  BY <2>1 DEF PhaseInv, Active
<1>13. CASE UNCHANGED vars
  BY <1>13 DEF vars, PhaseInv, Active
<1>14. QED
  BY <1>1, <1>2, <1>3, <1>4, <1>5, <1>6, <1>7, <1>8, <1>9, <1>10, <1>11,
     <1>12, <1>13
  DEF Next, SweepStep

(***************************************************************************)
(* No purge is forgotten while an object needs it                          *)
(***************************************************************************)

(* An object that survives a probe needs no purge any more: there is no    *)
(* newer HARD one, and a newer SOFT one has now ended its TTL.             *)
LEMMA ProbeJudges ==
    ASSUME HistoryInv, NEW o \in Registered, Probe(o) # "hard",
           purged' = purged, reg_seq' = reg_seq,
           Probe(o) = "soft" \/ reduced[o] => reduced'[o]
    PROVE  \A k \in Tags[o], m \in Modes : ~Needed(o, k, m)'
<1> SUFFICES ASSUME NEW k \in Tags[o], NEW m \in Modes, Needed(o, k, m)'
             PROVE  FALSE
  OBVIOUS
<1>1. Needed(o, k, m) /\ entry[k][m] = purged[k][m] /\ entry[k][m] > reg_seq[o]
  BY DEF Needed, HistoryInv
<1>2. Invalidated(o, m)
  BY <1>1 DEF Invalidated
<1>3. m = "soft"
  BY <1>2 DEF Probe, Modes
<1>4. Probe(o) = "soft"
  BY <1>2, <1>3 DEF Probe
<1>5. QED  BY <1>3, <1>4 DEF Needed

(* A step that leaves the history and the certificate alone, after which   *)
(* every object either needs nothing or is where it was.                   *)
LEMMA ObjectStep ==
    ASSUME HistInv,
           UNCHANGED <<entry, purged, spc, cert, cutoff, certPhase,
                       reclaim_pending, reclaim_cutoff, reclaim_phase>>,
           \A x \in Registered' :
              \/ \A k \in Tags[x], m \in Modes : ~Needed(x, k, m)'
              \/ /\ x \in Registered
                 /\ reg_seq'[x] = reg_seq[x] /\ reduced'[x] = reduced[x]
                 /\ \A s : PendingIn(x, s) => PendingIn(x, s)'
                 /\ ToBeJudged(x) => ToBeJudged(x)'
    PROVE  HistInv'
<1>1. ASSUME NEW x \in Registered',
             \A k \in Tags[x], m \in Modes : ~Needed(x, k, m)'
      PROVE  \A c : Covered(x, c)'
  BY <1>1 DEF Covered
<1>2. ASSUME NEW x, reg_seq'[x] = reg_seq[x], reduced'[x] = reduced[x]
      PROVE  /\ \A k, m : Needed(x, k, m)' = Needed(x, k, m)
             /\ \A c : Covered(x, c)' = Covered(x, c)
  BY <1>2 DEF Needed, Covered
<1>3. HistoryInv'
  BY <1>2 DEF HistInv, HistoryInv
<1>4. CertInv'
  BY <1>1, <1>2 DEF HistInv, CertInv, Active
<1>5. ReclaimInv'
  BY <1>1, <1>2 DEF HistInv, ReclaimInv
<1>6. QED  BY <1>3, <1>4, <1>5 DEF HistInv

LEMMA HistPublicationStep ==
    ASSUME BaseInv, HistInv, NEW o \in Objects, PublicationStep(o)
    PROVE  HistInv'
<1> USE DEF historyVars, writerVars, gateVars, sweepVars, reclaimVars
<1>0. /\ state \in [Objects -> States]
      /\ slot \in [Objects -> Slots]
      /\ reg_seq \in [Objects -> Seqs]
      /\ reduced \in [Objects -> BOOLEAN]
  BY DEF BaseInv, TypeOK
<1>1. UNCHANGED <<historyVars, sweepVars, reclaimVars>>
  BY DEF PublicationStep, LoadPhase, AddReader, Recheck, Retry, LoadSeq,
         Attach, Abandon, PublicationExit
<1>2. CASE LoadPhase(o) \/ AddReader(o) \/ Recheck(o) \/ Retry(o)
           \/ Abandon(o) \/ PublicationExit(o)
  <2>1. \A x \in Registered' :
           /\ x \in Registered
           /\ reg_seq'[x] = reg_seq[x] /\ reduced'[x] = reduced[x]
           /\ state[x] = "pending" => state'[x] = "pending" /\ slot'[x] = slot[x]
           /\ state[x] \in {"attaching", "attached"} =>
                 state'[x] \in {"attaching", "attached"}
    BY <1>0, <1>2 DEF LoadPhase, AddReader, Recheck, Retry, Abandon,
                      PublicationExit, Goto, Registered
  <2>2. QED  BY <1>1, <2>1, ObjectStep DEF PendingIn, ToBeJudged
<1>3. CASE LoadSeq(o)
  <2>1. \A x \in Registered' \ {o} :
           /\ x \in Registered
           /\ reg_seq'[x] = reg_seq[x] /\ reduced'[x] = reduced[x]
           /\ state'[x] = state[x] /\ slot'[x] = slot[x]
    BY <1>0, <1>3 DEF LoadSeq, Goto, Registered
  <2>2. \A k \in Tags[o], m \in Modes : ~Needed(o, k, m)'
    <3>1. \A k \in Tags[o], m \in Modes : purged[k][m] \in Int /\ purged[k][m] <= seq
      BY TagsType, MaxSeqNat DEF BaseInv, TypeOK, SeqInv, Seqs
    <3>2. reg_seq'[o] = seq /\ seq \in Int
      BY <1>0, <1>3, MaxSeqNat DEF LoadSeq, BaseInv, TypeOK, Seqs
    <3>3. QED  BY <1>1, <3>1, <3>2 DEF Needed
  <2>3. QED  BY <1>1, <2>1, <2>2, ObjectStep DEF PendingIn, ToBeJudged
<1>4. CASE Attach(o)
  <2>1. \A x \in Registered' \ {o} :
           /\ x \in Registered
           /\ reg_seq'[x] = reg_seq[x] /\ reduced'[x] = reduced[x]
           /\ state'[x] = state[x] /\ slot'[x] = slot[x]
    BY <1>0, <1>4 DEF Attach, Goto, Registered
  <2>2. ASSUME o \in Registered'
        PROVE  \A k \in Tags[o], m \in Modes : ~Needed(o, k, m)'
    <3>1. o \in Registered /\ Probe(o) # "hard"
      BY <1>0, <1>4, <2>2 DEF Attach, Goto, Registered
    <3>2. reg_seq' = reg_seq /\ (Probe(o) = "soft" \/ reduced[o] => reduced'[o])
      BY <1>0, <1>4 DEF Attach
    <3>3. QED  BY <1>1, <3>1, <3>2, ProbeJudges DEF HistInv
  <2>3. QED  BY <1>1, <2>1, <2>2, ObjectStep DEF PendingIn, ToBeJudged
<1>5. QED  BY <1>2, <1>3, <1>4 DEF PublicationStep

(* A finished purge is in the table, and newer than any open cutoff.       *)
LEMMA HistPurgeApply ==
    ASSUME BaseInv, HistInv, PurgeApply
    PROVE  HistInv'
<1> USE DEF gateVars, objectVars, sweepVars, reclaimVars
<1>1. /\ entry \in [Keys -> [Modes -> Seqs]]
      /\ purged \in [Keys -> [Modes -> Seqs]]
      /\ wpc = "apply"
      /\ seq \in Int /\ cutoff \in Int /\ reclaim_cutoff \in Int
      /\ cutoff < seq /\ reclaim_cutoff < seq
      /\ UNCHANGED <<seq, gateVars, objectVars, sweepVars, reclaimVars>>
  BY MaxSeqNat DEF BaseInv, TypeOK, SeqInv, Seqs, PurgeApply
<1>2. \A k \in Keys, m \in Modes :
         \/ purged'[k][m] = seq /\ entry'[k][m] = seq
         \/ purged'[k][m] = purged[k][m] /\ entry'[k][m] = entry[k][m]
  BY <1>1 DEF PurgeApply
<1>3. Registered' = Registered /\ Registered \subseteq Objects
  BY <1>1 DEF Registered
<1>4. HistoryInv'
  <2> SUFFICES ASSUME NEW o \in Registered, NEW k \in Tags[o], NEW m \in Modes,
                      Needed(o, k, m)'
               PROVE  entry'[k][m] = purged'[k][m]
    BY <1>3 DEF HistoryInv
  <2>1. k \in Keys
    BY <1>3, TagsType
  <2>2. CASE purged'[k][m] = purged[k][m] /\ entry'[k][m] = entry[k][m]
    BY <1>1, <2>2 DEF Needed, HistInv, HistoryInv
  <2>3. QED  BY <1>2, <2>1, <2>2
<1>5. ASSUME NEW o \in Registered, NEW c \in Int, c < seq, Covered(o, c)
      PROVE  Covered(o, c)'
  <2> SUFFICES ASSUME NEW k \in Tags[o], NEW m \in Modes, Needed(o, k, m)'
               PROVE  purged'[k][m] > c
    BY DEF Covered
  <2>1. k \in Keys
    BY <1>3, TagsType
  <2>2. CASE purged'[k][m] = purged[k][m]
    BY <1>1, <1>5, <2>2 DEF Needed, Covered
  <2>3. QED  BY <1>1, <1>2, <1>5, <2>1, <2>2
<1>6. CertInv'
  <2>1. \A o \in Registered : Covered(o, cutoff) => Covered(o, cutoff)'
    BY <1>1, <1>5
  <2>2. QED
    BY <1>1, <1>3, <2>1
    DEF HistInv, CertInv, Active, PendingIn, ToBeJudged
<1>7. ReclaimInv'
  <2>1. \A o \in Registered :
           Covered(o, reclaim_cutoff) => Covered(o, reclaim_cutoff)'
    BY <1>1, <1>5
  <2>2. QED  BY <1>1, <1>3, <2>1 DEF HistInv, ReclaimInv, PendingIn
<1>8. QED  BY <1>4, <1>6, <1>7 DEF HistInv

(* With the drained slot empty, no object needs what a reclaim forgets.    *)
LEMMA HistReclaim ==
    ASSUME BaseInv, PhaseInv, HistInv, TryReclaim
    PROVE  HistInv'
<1> USE DEF gateVars, objectVars
<1>1. /\ entry \in [Keys -> [Modes -> Seqs]]
      /\ reclaim_pending /\ ~reclaim_pending'
      /\ readers[reclaim_phase] = 0
      /\ UNCHANGED <<purged, objectVars>>
      /\ entry' = [k \in Keys |-> Forget(entry[k])]
      /\ ~Active'
  BY DEF BaseInv, TypeOK, TryReclaim, Reclaimable, AfterReclaim, Active
<1>2. Registered' = Registered /\ Registered \subseteq Objects
  BY <1>1 DEF Registered
<1>3. \A o \in Registered : Covered(o, reclaim_cutoff)
  <2> SUFFICES ASSUME NEW o \in Registered, PendingIn(o, reclaim_phase)
               PROVE  FALSE
    BY <1>1 DEF HistInv, ReclaimInv
  <2>1. readers[slot[o]] # 0
    BY <1>2, HolderCounted DEF BaseInv, PendingIn, CountedPoints
  <2>2. QED  BY <1>1, <2>1 DEF PendingIn
<1>4. HistoryInv'
  <2> SUFFICES ASSUME NEW o \in Registered, NEW k \in Tags[o], NEW m \in Modes,
                      Needed(o, k, m)'
               PROVE  entry'[k][m] = purged'[k][m]
    BY <1>2 DEF HistoryInv
  <2>1. k \in Keys
    BY <1>2, TagsType
  <2>2. Needed(o, k, m)
    BY <1>1 DEF Needed
  <2>3. entry[k][m] = purged[k][m] /\ purged[k][m] > reclaim_cutoff
    BY <1>3, <2>2 DEF HistInv, HistoryInv, Covered
  <2>4. entry'[k][m] = IF entry[k][m] <= reclaim_cutoff THEN 0 ELSE entry[k][m]
    BY <1>1, <2>1 DEF Forget
  <2>5. entry[k][m] \in Int /\ reclaim_cutoff \in Int
    BY <1>1, <2>1, MaxSeqNat DEF BaseInv, TypeOK, Seqs
  <2>6. QED  BY <1>1, <2>3, <2>4, <2>5
<1>5. QED  BY <1>1, <1>4 DEF HistInv, CertInv, ReclaimInv

(* A certificate opens while every indexed object is still to be judged    *)
(* and every pending one is in the slot that it drains.                    *)
LEMMA HistCertBegin ==
    ASSUME BaseInv, PhaseInv, HistInv, CertBegin
    PROVE  HistInv'
<1> USE DEF historyVars, objectVars
<1>1. /\ UNCHANGED <<entry, purged, objectVars, reclaim_pending>>
      /\ ~reclaim_pending /\ ~StillBlocked /\ ~Active
      /\ spc' = "start" /\ certPhase' = phase
  BY DEF CertBegin, Active
<1>2. \A o \in Objects : state[o] = "pending" => slot[o] = phase
  BY <1>1, CurrentSlots DEF StillBlocked
<1>3. HistoryInv'
  BY <1>1 DEF HistInv, HistoryInv, Registered, Needed
<1>4. CertInv'
  BY <1>1, <1>2 DEF CertInv, Registered, PendingIn, ToBeJudged
<1>5. ReclaimInv'
  BY <1>1 DEF ReclaimInv
<1>6. QED  BY <1>3, <1>4, <1>5 DEF HistInv

(* The other steps of the sweeper that judge no object.                    *)
LEMMA HistSweeperStep ==
    ASSUME BaseInv, PhaseInv, HistInv,
           \/ SkipReclaim \/ CertRefused \/ SweepStart \/ SweepEnd
           \/ SweepAbort \/ CertFinish \/ CertAborted
    PROVE  HistInv'
<1> USE DEF historyVars, objectVars, reclaimVars
<1>1. UNCHANGED <<entry, purged, objectVars>>
  BY DEF SkipReclaim, CertRefused, SweepStart, SweepEnd, SweepAbort,
         CertFinish, CertAborted
<1>2. /\ Registered' = Registered
      /\ \A o, k, m : Needed(o, k, m)' = Needed(o, k, m)
      /\ \A o, s : PendingIn(o, s)' = PendingIn(o, s)
      /\ \A o, c : Covered(o, c)' = Covered(o, c)
  BY <1>1 DEF Registered, Needed, PendingIn, Covered
<1>3. HistoryInv'
  BY <1>1, <1>2 DEF HistInv, HistoryInv
<1>4. CertInv'
  <2>1. CASE SkipReclaim \/ CertRefused \/ CertFinish \/ CertAborted \/ SweepAbort
    BY <2>1 DEF SkipReclaim, CertRefused, CertFinish, CertAborted, SweepAbort,
                AfterReclaim, CertInv, Active
  <2>2. CASE SweepStart
    <3>1. /\ UNCHANGED <<cert, cutoff, certPhase>>
          /\ spc = "start" /\ spc' = "sweep"
          /\ \A o \in Objects :
                ToBeJudged(o) => ToBeJudged(o)'
      BY <1>1, <2>2 DEF SweepStart, ToBeJudged, Indexed
    <3>2. Registered \subseteq Objects  BY DEF Registered
    <3>3. QED  BY <1>2, <3>1, <3>2 DEF HistInv, CertInv, Active
  <2>3. CASE SweepEnd
    <3>1. /\ UNCHANGED <<cert, cutoff, certPhase>>
          /\ spc = "sweep" /\ spc' \in {"finish", "idle"}
          /\ \A o : ~ToBeJudged(o)
      BY <2>3 DEF SweepEnd, ToBeJudged
    <3>2. QED  BY <1>2, <3>1 DEF HistInv, CertInv, Active
  <2>4. QED  BY <2>1, <2>2, <2>3
<1>5. ReclaimInv'
  <2>1. CASE CertFinish
    <3>1. /\ spc = "finish" /\ Active
          /\ reclaim_cutoff' = cutoff /\ reclaim_phase' = certPhase
      BY <2>1 DEF CertFinish, PhaseInv, Active
    <3>2. \A o \in Registered : Covered(o, cutoff) \/ PendingIn(o, certPhase)
      BY <3>1 DEF HistInv, CertInv, ToBeJudged
    <3>3. QED  BY <1>1, <1>2, <3>1, <3>2 DEF ReclaimInv
  <2>2. CASE ~CertFinish
    <3>1. UNCHANGED <<reclaim_pending, reclaim_cutoff, reclaim_phase>>
      BY <2>2 DEF SkipReclaim, CertRefused, SweepStart, SweepEnd, SweepAbort,
                  CertAborted
    <3>2. QED  BY <1>1, <1>2, <3>1 DEF HistInv, ReclaimInv
  <2>3. QED  BY <2>1, <2>2
<1>6. QED  BY <1>3, <1>4, <1>5 DEF HistInv

(* The steps that take an object out of the index, or judge it.            *)
LEMMA HistObjectStep ==
    ASSUME BaseInv, TodoIndexed, HistInv, NEW o \in Objects,
           Death(o) \/ SweepKill(o) \/ SweepKeep(o)
    PROVE  HistInv'
<1> USE DEF historyVars, reclaimVars
<1>0. /\ state \in [Objects -> States]
      /\ reduced \in [Objects -> BOOLEAN]
      /\ UNCHANGED <<entry, purged, reg_seq, slot, spc, cert, cutoff, certPhase,
                     reclaim_pending, reclaim_cutoff, reclaim_phase>>
  BY DEF BaseInv, TypeOK, Death, SweepKill, SweepKeep
<1>1. \A x \in Registered' \ {o} :
         /\ x \in Registered /\ reduced'[x] = reduced[x]
         /\ state'[x] = state[x]
         /\ ToBeJudged(x) => ToBeJudged(x)'
  BY <1>0 DEF Death, SweepKill, SweepKeep, Remove, Goto, Registered, ToBeJudged
<1>2. CASE Death(o) \/ SweepKill(o)
  <2>1. o \in Indexed
    BY <1>2 DEF Death, SweepKill, TodoIndexed
  <2>2. o \notin Registered'
    BY <1>0, <1>2, <2>1
    DEF Death, SweepKill, Remove, Goto, Registered, Indexed
  <2>3. QED  BY <1>0, <1>1, <2>2, ObjectStep DEF PendingIn
<1>3. CASE SweepKeep(o)
  <2>1. /\ o \in Registered /\ Probe(o) # "hard"
        /\ Probe(o) = "soft" \/ reduced[o] => reduced'[o]
    BY <1>0, <1>3 DEF SweepKeep, TodoIndexed, Indexed, Registered
  <2>2. \A k \in Tags[o], m \in Modes : ~Needed(o, k, m)'
    BY <1>0, <2>1, ProbeJudges DEF HistInv
  <2>3. QED  BY <1>0, <1>1, <2>2, ObjectStep DEF PendingIn
<1>4. QED  BY <1>2, <1>3

(***************************************************************************)
(* History under a cap                                                     *)
(***************************************************************************)
LEMMA IntactStep ==
    ASSUME BaseInv, IntactInv, [Next]_vars
    PROVE  IntactInv'
<1> USE DEF historyVars, writerVars
<1>0. /\ seq \in Int /\ cutoff \in Int /\ reclaim_cutoff \in Int
      /\ reclaim_cutoff <= cutoff
      /\ \A k \in Keys, m \in Modes :
            purged[k][m] \in Int /\ entry[k][m] \in Int
      /\ \A m \in Modes : floor[m] \in Int /\ newFloor[m] \in Int
  BY MaxSeqNat DEF BaseInv, TypeOK, SeqInv, Seqs
<1>1. CASE /\ UNCHANGED <<entry, purged, floor, newFloor>>
           /\ (wpc # "floors" /\ wpc' # "floors") \/ UNCHANGED wpc
           /\ reclaim_cutoff' \in {reclaim_cutoff, cutoff}
  <2>1. Floors' = Floors
    BY <1>1 DEF Floors
  <2>2. \A k \in Keys, m \in Modes :
           purged[k][m] > reclaim_cutoff' => purged[k][m] > reclaim_cutoff
    BY <1>0, <1>1
  <2>3. QED  BY <1>1, <2>1, <2>2 DEF IntactInv
<1>2. CASE \/ \E o \in Objects : PublicationStep(o) \/ Death(o)
           \/ \E o \in Objects : SweepKill(o) \/ SweepKeep(o)
  <2>1. UNCHANGED <<historyVars, writerVars, reclaimVars>>
    BY <1>2
    DEF PublicationStep, LoadPhase, AddReader, Recheck, Retry, LoadSeq,
        Attach, Abandon, PublicationExit, Death, SweepKill, SweepKeep
  <2>2. QED  BY <1>1, <2>1 DEF reclaimVars
<1>3. CASE \/ \E K \in SUBSET Keys \ {{}}, m \in Modes : PurgeBegin(K, m)
           \/ CompactPrune
  BY <1>1, <1>3 DEF PurgeBegin, CompactPrune, reclaimVars
<1>4. CASE \/ SkipReclaim \/ CertRefused \/ CertBegin \/ SweepStart \/ SweepEnd
           \/ CertFinish \/ CertAborted \/ SweepAbort
  BY <1>1, <1>4
  DEF SkipReclaim, CertRefused, CertBegin, SweepStart, SweepEnd, CertFinish,
      CertAborted, SweepAbort, reclaimVars
<1>5. CASE PurgeApply
  <2>1. /\ wpc = "apply" /\ wpc' \in {"idle", "swap"}
        /\ UNCHANGED <<floor, reclaim_cutoff>>
    BY <1>5 DEF PurgeApply, reclaimVars
  <2>2. \A k \in Keys, m \in Modes :
           \/ purged'[k][m] = seq /\ entry'[k][m] = seq
           \/ purged'[k][m] = purged[k][m] /\ entry'[k][m] = entry[k][m]
    BY <1>5 DEF PurgeApply, BaseInv, TypeOK
  <2>3. Floors' = Floors
    BY <2>1 DEF Floors
  <2>4. QED  BY <2>1, <2>2, <2>3 DEF IntactInv
<1>6. CASE PruneSwap
  <2>1. /\ wpc = "swap" /\ UNCHANGED <<purged, reclaim_cutoff>>
    BY <1>6 DEF PruneSwap, reclaimVars
  <2>2. /\ wpc' = "floors"
        /\ newFloor' \in [Modes -> Seqs]
        /\ \A m \in Modes : newFloor'[m] >= floor[m]
        /\ \A k \in Keys, m \in Modes :
              entry'[k][m] = entry[k][m] \/ newFloor'[m] >= entry[k][m]
    BY <1>6, PruneFacts DEF BaseInv
  <2>3. \A m \in Modes : newFloor'[m] \in Int
    BY <2>2, MaxSeqNat DEF Seqs
  <2>4. Floors = floor /\ Floors' = newFloor'
    BY <2>1, <2>2 DEF Floors
  <2>5. QED  BY <1>0, <2>1, <2>2, <2>3, <2>4 DEF IntactInv
<1>7. CASE PruneFloors
  <2>1. Floors' = Floors
    BY <1>7 DEF PruneFloors, Floors
  <2>2. QED  BY <1>7, <2>1 DEF PruneFloors, reclaimVars, IntactInv
<1>8. CASE TryReclaim
  <2>1. /\ wpc = "idle" /\ UNCHANGED <<wpc, purged, reclaim_cutoff>>
        /\ entry' = [k \in Keys |-> Forget(entry[k])]
        /\ floor' = Forget(floor)
    BY <1>8 DEF TryReclaim, PurgeMtxFree
  <2>2. \A k \in Keys, m \in Modes :
           entry[k][m] > reclaim_cutoff => entry'[k][m] = entry[k][m]
    BY <1>0, <2>1 DEF Forget
  <2>3. \A m \in Modes : floor[m] > reclaim_cutoff => floor'[m] = floor[m]
    BY <1>0, <2>1 DEF Forget
  <2>4. Floors = floor /\ Floors' = floor'
    BY <2>1 DEF Floors
  <2>5. QED  BY <1>0, <2>1, <2>2, <2>3, <2>4 DEF IntactInv
<1>9. CASE UNCHANGED vars
  BY <1>1, <1>9 DEF vars
<1>10. QED
  BY <1>2, <1>3, <1>4, <1>5, <1>6, <1>7, <1>8, <1>9
  DEF Next, SweepStep, WriterStep

LEMMA HistStep ==
    ASSUME HistoryCap = 0, BaseInv, TodoIndexed, PhaseInv, HistInv, [Next]_vars
    PROVE  HistInv'
<1>1. CASE \E o \in Objects : PublicationStep(o)
  BY <1>1, HistPublicationStep
<1>2. CASE \E o \in Objects : Death(o) \/ SweepKill(o) \/ SweepKeep(o)
  BY <1>2, HistObjectStep
<1>3. CASE \E K \in SUBSET Keys \ {{}}, m \in Modes : PurgeBegin(K, m)
  BY <1>3
  DEF PurgeBegin, objectVars, sweepVars, reclaimVars, HistInv, HistoryInv,
      CertInv, ReclaimInv, Registered, Needed, Covered, PendingIn, ToBeJudged,
      Active
<1>4. CASE CompactPrune \/ WriterStep
  BY <1>4, Uncapped, HistPurgeApply DEF WriterStep, BaseInv
<1>5. CASE TryReclaim
  BY <1>5, HistReclaim
<1>6. CASE CertBegin
  BY <1>6, HistCertBegin
<1>7. CASE \/ SkipReclaim \/ CertRefused \/ SweepStart \/ SweepEnd
           \/ SweepAbort \/ CertFinish \/ CertAborted
  BY <1>7, HistSweeperStep
<1>8. CASE UNCHANGED vars
  BY <1>8
  DEF vars, HistInv, HistoryInv, CertInv, ReclaimInv, Registered, Needed,
      Covered, PendingIn, ToBeJudged, Active
<1>9. QED
  BY <1>1, <1>2, <1>3, <1>4, <1>5, <1>6, <1>7, <1>8 DEF Next, SweepStep

LEMMA InvInit == Init => Inv
<1> SUFFICES ASSUME Init PROVE Inv  OBVIOUS
<1>1. BaseInv
  BY BaseInit
<1>2. TodoIndexed /\ PhaseInv
  BY DEF Init, TodoIndexed, PhaseInv, Active
<1>3. HistInv
  BY DEF Init, HistInv, HistoryInv, CertInv, ReclaimInv, Registered, Active
<1>4. IntactInv
  BY DEF Init, IntactInv
<1>5. QED  BY <1>1, <1>2, <1>3, <1>4 DEF Inv

LEMMA InvStep ==
    ASSUME Inv, [Next]_vars
    PROVE  Inv'
<1>1. BaseInv'
  <2>1. CASE \E o \in Objects : PublicationStep(o)
    BY <2>1, BasePublicationStep DEF Inv
  <2>2. CASE OtherNext
    BY <2>2, BaseOtherStep DEF Inv
  <2>3. CASE UNCHANGED vars
    BY <2>3 DEF vars, Inv, BaseInv, TypeOK, CountOK, Holders, SeqInv
  <2>4. QED  BY <2>1, <2>2, <2>3 DEF Next, OtherNext
<1>2. QED
  BY <1>1, TodoStep, PhaseStep, IntactStep, HistStep DEF Inv, BaseInv

(* Every variable keeps its type: no gate counter goes below zero and no   *)
(* sequence leaves its range.                                              *)
THEOREM TypeCorrect == Spec => []TypeOK
<1>1. Inv => TypeOK
  BY DEF Inv, BaseInv
<1>2. Inv /\ [Next]_vars => Inv'
  BY InvStep
<1>3. QED  BY InvInit, <1>1, <1>2, PTL DEF Spec

(* Whatever the cap, and however reclaims, prunes and purges interleave:   *)
(* outside the window of a prune no purge newer than the last reclaim has  *)
(* left both the table and the floors.                                     *)
THEOREM HistoryNotLost == Spec => []HistoryIntact
<1>1. Inv => HistoryIntact
  BY DEF Inv, IntactInv, Floors, HistoryIntact
<1>2. Inv /\ [Next]_vars => Inv'
  BY InvStep
<1>3. QED  BY InvInit, <1>1, <1>2, PTL DEF Spec

(* Without a history cap, no finished purge is lost to an object that is   *)
(* pending or indexed and that it has not ended yet, however registrations,*)
(* purges, sweeps, aborted certificates and reclaims interleave.           *)
THEOREM InvalidationsKept ==
    ASSUME HistoryCap = 0
    PROVE  Spec => []NoLostInvalidation
<1>1. Inv => NoLostInvalidation
  <2> SUFFICES ASSUME Inv, NEW o \in Registered, NEW m \in Modes,
                      NEW k \in Tags[o], purged[k][m] > reg_seq[o],
                      ~(m = "soft" /\ reduced[o])
               PROVE  Invalidated(o, m)
    BY DEF NoLostInvalidation
  <2>1. entry[k][m] = purged[k][m]
    BY DEF Inv, HistInv, HistoryInv, Needed
  <2>2. QED  BY <2>1 DEF Invalidated
<1>2. Inv /\ [Next]_vars => Inv'
  BY InvStep
<1>3. QED  BY InvInit, <1>1, <1>2, PTL DEF Spec
=============================================================================
