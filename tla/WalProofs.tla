------------------------------- MODULE WalProofs -------------------------------
(***************************************************************************)
(* What Wal's run checks, for any tags, number of purges, segment size and *)
(* cap of the history: the types, that a start never refuses what a stop   *)
(* left on a journalled disk, that the log stays bounded, and that the     *)
(* namespace implements DurableHistory on any disk.                        *)
(*                                                                         *)
(* The argument is about manifests.  Everything the next start may find is *)
(* in images, and each manifest there is a good one (GoodManifest): it     *)
(* lists whole sealed segments and one open segment behind them, nothing   *)
(* is written beyond that, and checkpoint and synced records of the listed *)
(* segments tell of every purge that is owed.  A record goes to the open   *)
(* segment only when every manifest on disk has it for its own (Agree),    *)
(* which is what the sync of the directory after a rotation is for.        *)
(***************************************************************************)
EXTENDS Wal, FiniteSetTheorems, SequenceTheorems, WellFoundedInduction, TLAPS

Manifests == [gen : Nat, last : Seqs, ck : Checkpoints, segs : Seq(Segments)]
Files == [recs : Seq(Records), synced : Nat, torn : BOOLEAN, clean : BOOLEAN]

(***************************************************************************)
(* The inductive invariant                                                 *)
(***************************************************************************)
(* The open segment of a list, 0 if there is none.                         *)
OpenOf(segs) == IF segs = <<>> THEN 0 ELSE segs[Len(segs)].first

(* Records carry the numbers that follow the first of their file, in the   *)
(* log and in the history alike, and no number is in two files.            *)
GoodFile(f, n) ==
    /\ f[n].synced <= Len(f[n].recs)
    /\ f[n].clean => f[n].synced = Len(f[n].recs)
    /\ \A j \in 1 .. Len(f[n].recs) :
          /\ f[n].recs[j].wal = n + j - 1
          /\ f[n].recs[j].seq = n + j - 1
          /\ f[n].recs[j].tags # {}
          /\ f[n].recs[j].end > 0
    /\ \A k \in Firsts :
          n < k /\ f[k].recs # <<>> => n + Len(f[n].recs) <= k

(* A sealed segment is whole and on disk.                                  *)
Sealed(f, s) ==
    /\ s.last = s.first + Len(f[s.first].recs) - 1
    /\ s.bytes = BytesOf(f[s.first].recs)
    /\ f[s.first].synced = Len(f[s.first].recs)
    /\ f[s.first].clean /\ ~f[s.first].torn

GoodCheckpoint(c) ==
    /\ c.wal = c.seq
    /\ c.floor <= c.seq
    /\ \A t \in Tags : c.hist[t] <= c.seq

(* A checkpoint and the segments after it.                                 *)
GoodLog(f, c, segs) ==
    /\ GoodCheckpoint(c)
    /\ segs # <<>>
    /\ segs[Len(segs)].last = 0
    /\ Contiguous([ck |-> c, segs |-> segs])
    /\ \A i \in 1 .. Len(segs) - 1 : Sealed(f, segs[i])
    /\ \A n \in Firsts :
          /\ n > OpenOf(segs) => f[n] = EmptyFile
          /\ n < OpenOf(segs) => n + Len(f[n].recs) <= OpenOf(segs)

(* The purge s of tag t will be found.                                     *)
Tells(f, c, segs, t, s) ==
    \/ s <= c.floor
    \/ s <= c.hist[t]
    \/ \E n \in Listed(segs) : \E j \in 1 .. f[n].synced :
          t \in f[n].recs[j].tags /\ s <= f[n].recs[j].seq

(* The last record that no loss of power can take.                         *)
Reach(f, segs) == OpenOf(segs) + f[OpenOf(segs)].synced - 1

GoodManifest(f, owing, pk, M) ==
    \/ /\ M = NoManifest
       /\ \A n \in Firsts : f[n] = EmptyFile
       /\ pk = 0
       /\ \A t \in Tags : owing[t] = 0
    \/ /\ GoodLog(f, M.ck, M.segs)
       /\ M.ck.gen <= M.gen
       /\ M.last <= Reach(f, M.segs)
       /\ pk <= Reach(f, M.segs)
       /\ \A t \in Tags : Tells(f, M.ck, M.segs, t, owing[t])

(* What is owed, counting the purge that has taken effect but not yet      *)
(* returned.                                                               *)
Owing ==
    IF op = "tidy" \/ pc = "prune" THEN Upsert(owed, batch, seq) ELSE owed

(* Every manifest that may be on disk has the same open segment.           *)
Agree == \A m \in images : OpenOf(m.man.segs) = OpenOf(meta.man.segs)

(* Where they do not, the next start will write a checkpoint, and with it  *)
(* sync the directory.                                                     *)
DiskInv ==
    /\ \A n \in Firsts : GoodFile(file, n)
    /\ \A m \in images : GoodManifest(file, Owing, peak, m.man)
    /\ \/ Agree
       \/ meta.man.ck = NoCheckpoint
       \/ meta.man.ck.wal < meta.man.last
    /\ \A t \in Tags : owed[t] <= peak

(* What a manifest names is there.                                         *)
Complete(m) ==
    /\ m.man.ck # NoCheckpoint => m.man.ck \in m.cks
    /\ Listed(m.man.segs) \subseteq m.names

JournalInv == journalled => \A m \in images : Complete(m)

Booting == {"off", "load", "gc", "gcWal", "gcRoot", "replay"}
Loaded == {"gc", "gcWal", "gcRoot", "replay"}
Creating == {"prepWal", "prepRename", "prepRoot"}
Rotating == {"rotWal", "rotRename", "rotRoot"}
Appending == {"room", "write", "sync", "apply", "prune"}
Writing == {"ckWrite", "ckRoot"}
Installing == {"ckInstall", "ckRename", "ckPublish", "ckUnlink", "ckDone"}

(* The instance is starting or takes purges: its variables count.          *)
Live == pc \notin Booting \cup {"refused", "failed"} /\ ~degraded

(* Which calls each control point belongs to.                              *)
OpInv ==
    /\ op = "recover" => pc \in Booting \cup Creating \cup Rotating
                                \cup Writing \cup Installing
                                \cup {"prep", "rotate", "ready", "refused",
                                      "failed"}
    /\ op = "append" => pc \in Rotating \cup Appending
                               \cup {"prep", "rotate", "ready"}
    /\ op = "tidy" => pc \in Writing \cup Installing \cup Rotating
                             \cup {"prep", "rotate"}
    /\ degraded => pc \in {"ready", "failed"}

(* Memory without, and with, a manifest that was read.                     *)
Fresh ==
    /\ checkpoint = NoCheckpoint /\ segments = <<NewSegment(1)>>
    /\ next_seq = 1 /\ generation = 0

AsRead ==
    /\ checkpoint = meta.man.ck /\ segments = meta.man.segs
    /\ generation = meta.man.gen /\ next_seq = 1 + meta.man.last

BootInv ==
    pc \in Booting =>
        /\ ~fd /\ seq = 0 /\ hist = NoHistory /\ floor = 0
        /\ pc \in {"off", "load"} => Fresh
        /\ pc \in Loaded => IF meta.man = NoManifest THEN Fresh ELSE AsRead
        /\ pc \in Loaded \ {"gc"} /\ meta.man = NoManifest => meta.names = {}

(* The log in memory.  The record being written has the next number.       *)
LogInv ==
    Live =>
        /\ GoodLog(file, checkpoint, segments)
        /\ Active.first + Len(file[Active.first].recs) = next_seq
        /\ next_seq = seq + IF pc \in {"sync", "apply"} THEN 2 ELSE 1
        /\ Active.bytes + (IF pc = "sync" THEN Size(batch) ELSE 0)
              = BytesOf(file[Active.first].recs)

(* The open segment at the control points that need more of it.            *)
OpenInv ==
    Live =>
        LET recs == file[Active.first].recs IN
        /\ op = "append" /\ pc \notin {"ready", "prune"} =>
              batch # {} /\ seq < MaxSeq
        /\ pc \in {"sync", "apply"} =>
              recs # <<>> /\ recs[Len(recs)].tags = batch
        /\ pc = "apply" => file[Active.first].synced = Len(recs)
        /\ pc = "rotate" => recs # <<>>
        /\ pc \in Rotating \cup Installing => recs = <<>>
        /\ pc \in Rotating => Len(segments) > 1
        /\ pc \in Installing \ {"ckInstall"} => Len(segments) = 1
        /\ pc = "ready" /\ ~OverCap(hist) => Len(segments) = 1

(* The open file is cut before it is written to, and listed segments are   *)
(* there.                                                                  *)
HandleInv ==
    Live =>
        /\ fd => ~file[Active.first].torn
        /\ fd \/ pc \in {"prep", "ready"}
        /\ pc = "prep" /\ op = "recover" => ~fd
        /\ meta.man = NoManifest \/ Listed(segments) \subseteq meta.names
        /\ pc # "prep" => Listed(segments) \subseteq meta.names

(* What the manifest says and what is in memory.                           *)
PublishedInv ==
    Live =>
        /\ pc \in Creating => checkpoint = NoCheckpoint
        /\ pc \in {"prepWal", "prepRename"} => meta.man = NoManifest
        /\ meta.man = NoManifest =>
              /\ Fresh /\ op = "recover"
              /\ pc \in {"prep", "prepWal", "prepRename"}
              /\ pc = "prep" => meta.names = {}
        /\ meta.man # NoManifest =>
              /\ meta.man.gen = generation
              /\ pc \notin {"rotWal", "rotRename"} =>
                    OpenOf(meta.man.segs) = OpenOf(segments)
              /\ pc # "ckRename" =>
                    meta.man.ck = checkpoint /\ checkpoint.gen <= generation
              /\ pc \in {"ckPublish", "ckUnlink"} => meta.man.segs = segments
        /\ checkpoint # NoCheckpoint => checkpoint \in meta.cks

(* When every manifest on disk has the open segment.                       *)
AgreeInv ==
    Live /\ (\/ pc \in {"ready"} \cup Installing \cup Appending
             \/ op = "append" /\ pc \in {"prep", "rotate"}) => Agree

(* The checkpoint under way is the state of the history.                   *)
SnapshotInv ==
    Live =>
        /\ \/ pc \in {"ckRoot", "ckInstall", "ckRename"}
           \/ op # "append" /\ pc \in {"rotate"} \cup Rotating
           => /\ newck.wal = seq /\ newck.seq = seq
              /\ newck.hist = hist /\ newck.floor = floor
              /\ newck \in meta.cks
              /\ meta.man.ck.gen < newck.gen /\ newck.gen <= generation + 1
        /\ pc = "ckRename" => checkpoint = newck
        /\ pc \in {"ckRename", "ckPublish", "ckUnlink"} =>
              /\ collected.ck.gen < checkpoint.gen
              /\ collected.segs \cap Listed(segments) = {}

(* The history in memory has what is owed, also if its prune is undone.    *)
Keeps(owing, s, h, fl) ==
    /\ fl <= s
    /\ \A t \in Tags : h[t] <= s /\ owing[t] <= MaxOf(h[t], fl)

HistoryInv ==
    pc \notin Booting \cup {"refused", "failed"} =>
        /\ Keeps(Owing, seq, hist, floor)
        /\ peak <= seq
        /\ Up => peak = seq
        /\ op = "tidy" => Keeps(Owing, seq, undo.hist, undo.floor)

MemoryInv ==
    /\ OpInv /\ BootInv /\ LogInv /\ OpenInv /\ HandleInv
    /\ PublishedInv /\ AgreeInv /\ SnapshotInv /\ HistoryInv

WalInv == TypeOK /\ DiskInv /\ JournalInv /\ MemoryInv

(***************************************************************************)
(* Smallest elements                                                       *)
(***************************************************************************)
(* The order of the naturals, as a relation.                               *)
Below == {p \in Nat \X Nat : p[1] < p[2]}

(* No descent below zero goes on for ever.                                 *)
LEMMA BelowWellFounded == IsWellFoundedOn(Below, Nat)
BY NatLessThanWellFounded, Zenon DEF OpToRel, Below

(* Every non-empty set of naturals has a smallest element.                 *)
LEMMA Smallest ==
    ASSUME NEW S \in SUBSET Nat, S # {}
    PROVE  \E v \in S : \A w \in S : v <= w
<1>1. PICK v \in S : \A w \in S : <<w, v>> \notin Below
  BY BelowWellFounded, WFMin
<1>2. \A w \in S : w \in Nat /\ v \in Nat /\ ~(w < v)
  BY <1>1 DEF Below
<1> QED
  BY <1>2

(***************************************************************************)
(* Segments                                                                *)
(***************************************************************************)
(* Of a list without gaps, each segment starts behind the one before.      *)
LEMMA Ordered ==
    ASSUME NEW c \in Checkpoints, NEW segs \in Seq(Segments),
           Contiguous([ck |-> c, segs |-> segs])
    PROVE  \A i \in 1 .. Len(segs) :
              /\ c.wal < segs[i].first
              /\ \A j \in i + 1 .. Len(segs) :
                    /\ segs[i].last < segs[j].first
                    /\ segs[i].first < segs[j].first
<1>1. /\ Len(segs) \in Nat /\ c.wal \in Nat
      /\ \A i \in 1 .. Len(segs) :
            /\ segs[i].first \in Nat /\ segs[i].last \in Nat
            /\ segs[i].first = 1 + IF i = 1 THEN c.wal ELSE segs[i - 1].last
            /\ segs[i].last = 0 => i = Len(segs)
            /\ segs[i].last # 0 => segs[i].last >= segs[i].first
  <2>1. Len(segs) \in Nat /\ c.wal \in Nat
        /\ \A i \in 1 .. Len(segs) :
              segs[i].first \in Nat /\ segs[i].last \in Nat
    <3>1. \A i \in 1 .. Len(segs) : segs[i] \in Segments
      OBVIOUS
    <3>2. \A s \in Segments : s.first \in Nat /\ s.last \in Nat
      BY MaxSeqNat DEF Segments, Seqs, Firsts
    <3>3. c.wal \in Nat
      BY MaxSeqNat DEF Checkpoints, Seqs
    <3> QED
      BY <3>1, <3>2, <3>3
  <2> QED
    BY <2>1 DEF Contiguous
<1>2. ASSUME NEW i \in 1 .. Len(segs), NEW j \in i + 1 .. Len(segs)
      PROVE  segs[i].last < segs[j].first
  <2> DEFINE Bad == {k \in i + 1 .. Len(segs) : ~(segs[i].last < segs[k].first)}
  <2> SUFFICES ASSUME Bad # {} PROVE FALSE
    OBVIOUS
  <2>1. PICK k \in Bad : \A w \in Bad : k <= w
    <3>1. Bad \in SUBSET Nat
      BY <1>1
    <3> HIDE DEF Bad
    <3> QED
      BY <3>1, Smallest
  <2>2. /\ k \in i + 1 .. Len(segs) /\ ~(segs[i].last < segs[k].first)
        /\ \A w \in i + 1 .. Len(segs) :
              ~(segs[i].last < segs[w].first) => k <= w
    BY <2>1
  <2> HIDE DEF Bad
  <2>3. /\ k \in 1 .. Len(segs) /\ k # 1 /\ k - 1 \in 1 .. Len(segs)
        /\ i \in Nat /\ k \in Nat
    BY <1>1, <2>2
  <2>4. segs[k].first = 1 + segs[k - 1].last
    BY <1>1, <2>3
  <2>5. k # i + 1
    <3> SUFFICES ASSUME k = i + 1 PROVE FALSE
      OBVIOUS
    <3>1. k - 1 = i
      BY <2>3
    <3> QED
      BY <1>1, <2>2, <2>3, <2>4, <3>1
  <2>6. k - 1 \in i + 1 .. Len(segs) /\ k - 1 # Len(segs) /\ ~(k <= k - 1)
    BY <1>1, <2>2, <2>3, <2>5
  <2>7. segs[i].last < segs[k - 1].first
    BY <2>2, <2>6
  <2>8. segs[k - 1].last >= segs[k - 1].first
    BY <1>1, <2>3, <2>6
  <2> QED
    BY <1>1, <2>2, <2>3, <2>4, <2>7, <2>8, SMTT(60)
<1>3. ASSUME NEW i \in 1 .. Len(segs)
      PROVE  c.wal < segs[i].first
  <2>1. CASE i = 1
    BY <1>1, <2>1
  <2>2. CASE i # 1
    <3>1. 1 \in 1 .. Len(segs) /\ i \in 1 + 1 .. Len(segs) /\ 1 # Len(segs)
      BY <1>1, <2>2
    <3>2. segs[1].last < segs[i].first /\ segs[1].first = 1 + c.wal
          /\ segs[1].last >= segs[1].first
      BY <1>1, <1>2, <3>1
    <3> QED
      BY <1>1, <3>1, <3>2
  <2> QED
    BY <2>1, <2>2
<1>4. ASSUME NEW i \in 1 .. Len(segs), NEW j \in i + 1 .. Len(segs)
      PROVE  segs[i].first < segs[j].first
  <2>1. i # Len(segs) /\ j \in 1 .. Len(segs)
    BY <1>1
  <2> QED
    BY <1>1, <1>2, <2>1
<1> QED
  BY <1>2, <1>3, <1>4

(* Segments are listed by their first sequences.                           *)
LEMMA ListedFirsts ==
    ASSUME NEW segs \in Seq(Segments)
    PROVE  /\ Listed(segs) \subseteq Firsts
           /\ \A i \in 1 .. Len(segs) : segs[i].first \in Listed(segs)
<1>1. \A i \in 1 .. Len(segs) : segs[i] \in Segments
  OBVIOUS
<1>2. \A s \in Segments : s.first \in Firsts
  BY DEF Segments
<1> QED
  BY <1>1, <1>2 DEF Listed

(* What a good log says of its open segment and of the sealed ones.        *)
LEMMA LogShape ==
    ASSUME NEW f, NEW c \in Checkpoints, NEW segs \in Seq(Segments),
           GoodLog(f, c, segs)
    PROVE  /\ Len(segs) \in Nat \ {0}
           /\ segs[Len(segs)] \in Segments
           /\ OpenOf(segs) = segs[Len(segs)].first
           /\ OpenOf(segs) \in Firsts /\ OpenOf(segs) \in Listed(segs)
           /\ c.wal \in Nat /\ c.wal < OpenOf(segs)
           /\ \A i \in 1 .. Len(segs) - 1 :
                 /\ segs[i] \in Segments
                 /\ Sealed(f, segs[i])
                 /\ segs[i].first < OpenOf(segs)
                 /\ segs[i].last < OpenOf(segs)
                 /\ c.wal < segs[i].last
           /\ \A n \in Listed(segs) :
                 /\ n \in Firsts
                 /\ n # OpenOf(segs) =>
                       \E i \in 1 .. Len(segs) - 1 : n = segs[i].first
<1>1. /\ Len(segs) \in Nat \ {0}
      /\ \A i \in 1 .. Len(segs) : segs[i] \in Segments
      /\ OpenOf(segs) = segs[Len(segs)].first
      /\ Contiguous([ck |-> c, segs |-> segs])
      /\ \A i \in 1 .. Len(segs) - 1 : Sealed(f, segs[i])
  BY DEF GoodLog, OpenOf
<1>2. \A i \in 1 .. Len(segs) :
         /\ c.wal < segs[i].first
         /\ \A j \in i + 1 .. Len(segs) :
               segs[i].last < segs[j].first /\ segs[i].first < segs[j].first
  BY <1>1, Ordered
<1>3. c.wal \in Nat /\ \A i \in 1 .. Len(segs) :
                           segs[i].first \in Firsts /\ segs[i].last \in Nat
  BY <1>1 DEF Checkpoints, Segments, Seqs
<1>4. Len(segs) \in 1 .. Len(segs)
  BY <1>1
<1>5. ASSUME NEW i \in 1 .. Len(segs) - 1
      PROVE  /\ segs[i].first < OpenOf(segs)
             /\ segs[i].last < OpenOf(segs)
             /\ c.wal < segs[i].last
  <2>1. i \in 1 .. Len(segs) /\ Len(segs) \in i + 1 .. Len(segs)
    BY <1>1
  <2>2. segs[i].last # 0 => segs[i].last >= segs[i].first
    BY <1>1, <2>1 DEF Contiguous
  <2>3. segs[i].last # 0
    BY <1>1, <2>1 DEF Contiguous
  <2> QED
    BY <1>1, <1>2, <1>3, <2>1, <2>2, <2>3 DEF Firsts
<1>6. \A n \in Listed(segs) :
         n \in Firsts /\ (n # OpenOf(segs) =>
                              \E i \in 1 .. Len(segs) - 1 : n = segs[i].first)
  BY <1>1, <1>3 DEF Listed
<1>7. OpenOf(segs) \in Listed(segs)
  BY <1>1, <1>4 DEF Listed
<1> QED
  BY <1>1, <1>2, <1>3, <1>4, <1>5, <1>6, <1>7

(***************************************************************************)
(* Files that change                                                       *)
(***************************************************************************)
(* Only the open segment o grows; what else is whole and on disk stays as  *)
(* it is.                                                                  *)
Kept(f, g, o) ==
    \A n \in Firsts \ {o} :
        /\ Len(g[n].recs) <= Len(f[n].recs)
        /\ f[n].clean /\ ~f[n].torn /\ f[n].synced = Len(f[n].recs)
              => g[n] = f[n]

(* No synced record is lost.                                               *)
Grown(f, g) ==
    \A n \in Firsts :
        /\ f[n].synced <= g[n].synced
        /\ \A j \in 1 .. f[n].synced : g[n].recs[j] = f[n].recs[j]

(* A log stays good if only its open segment grows.                        *)
LEMMA LogKept ==
    ASSUME NEW f \in [Firsts -> Files], NEW g \in [Firsts -> Files],
           NEW c \in Checkpoints, NEW segs \in Seq(Segments),
           GoodLog(f, c, segs), Kept(f, g, OpenOf(segs))
    PROVE  GoodLog(g, c, segs)
<1>1. /\ Len(segs) \in Nat \ {0}
      /\ \A i \in 1 .. Len(segs) - 1 :
            /\ segs[i] \in Segments /\ Sealed(f, segs[i])
            /\ segs[i].first < OpenOf(segs)
      /\ OpenOf(segs) \in Firsts
  BY LogShape
<1>2. ASSUME NEW i \in 1 .. Len(segs) - 1
      PROVE  Sealed(g, segs[i])
  <2>1. segs[i].first \in Firsts /\ segs[i].first # OpenOf(segs)
    BY <1>1, MaxSeqNat DEF Segments, Firsts
  <2>2. g[segs[i].first] = f[segs[i].first]
    BY <1>1, <2>1 DEF Kept, Sealed
  <2> QED
    BY <1>1, <2>2 DEF Sealed
<1>3. ASSUME NEW n \in Firsts, n > OpenOf(segs)
      PROVE  g[n] = EmptyFile
  <2>1. f[n] = EmptyFile
    BY <1>3 DEF GoodLog
  <2>2. n # OpenOf(segs)
    BY <1>1, <1>3, MaxSeqNat DEF Firsts
  <2> QED
    BY <2>1, <2>2 DEF Kept, EmptyFile
<1>4. ASSUME NEW n \in Firsts, n < OpenOf(segs)
      PROVE  n + Len(g[n].recs) <= OpenOf(segs)
  <2>1. n \in Firsts \ {OpenOf(segs)} /\ n \in Nat /\ OpenOf(segs) \in Nat
    BY <1>1, <1>4, MaxSeqNat DEF Firsts
  <2>2. Len(g[n].recs) \in Nat /\ Len(f[n].recs) \in Nat
    BY DEF Files
  <2>3. Len(g[n].recs) <= Len(f[n].recs) /\ n + Len(f[n].recs) <= OpenOf(segs)
    BY <1>4, <2>1 DEF Kept, GoodLog
  <2> QED
    BY <2>1, <2>2, <2>3
<1> QED
  BY <1>2, <1>3, <1>4 DEF GoodLog

(* A purge that is told stays told while no synced record is lost.         *)
LEMMA TellsKept ==
    ASSUME NEW f \in [Firsts -> Files], NEW g,
           \A n \in Firsts : f[n].synced <= Len(f[n].recs) /\ g[n].synced \in Nat,
           Grown(f, g), NEW c \in Checkpoints, NEW segs \in Seq(Segments),
           NEW t \in Tags, NEW s \in Nat, NEW r \in Nat, r <= s,
           Tells(f, c, segs, t, s)
    PROVE  Tells(g, c, segs, t, r)
<1>1. c.floor \in Nat /\ c.hist[t] \in Nat
  BY MaxSeqNat DEF Checkpoints, Seqs
<1>2. CASE s <= c.floor \/ s <= c.hist[t]
  BY <1>1, <1>2 DEF Tells
<1>3. CASE \E n \in Listed(segs) : \E j \in 1 .. f[n].synced :
              t \in f[n].recs[j].tags /\ s <= f[n].recs[j].seq
  <2>0. PICK n \in Listed(segs) : \E j \in 1 .. f[n].synced :
           t \in f[n].recs[j].tags /\ s <= f[n].recs[j].seq
    BY <1>3
  <2>1. PICK j \in 1 .. f[n].synced :
           t \in f[n].recs[j].tags /\ s <= f[n].recs[j].seq
    BY <2>0
  <2>2. n \in Firsts
    BY ListedFirsts
  <2>3. /\ f[n] \in Files /\ f[n].synced \in Nat /\ g[n].synced \in Nat
        /\ Len(f[n].recs) \in Nat /\ f[n].recs \in Seq(Records)
    BY <2>2 DEF Files
  <2>4. j \in 1 .. Len(f[n].recs) /\ j \in 1 .. g[n].synced
    BY <2>1, <2>2, <2>3 DEF Grown
  <2>5. f[n].recs[j].seq \in Nat /\ g[n].recs[j] = f[n].recs[j]
    <3>1. f[n].recs[j] \in Records
      BY <2>3, <2>4
    <3>2. \A x \in Records : x.seq \in Nat
      BY MaxSeqNat DEF Records
    <3> QED
      BY <2>1, <2>2, <3>1, <3>2 DEF Grown
  <2>6. t \in g[n].recs[j].tags /\ r <= g[n].recs[j].seq
    BY <2>1, <2>5
  <2> QED
    BY <2>4, <2>6 DEF Tells
<1> QED
  BY <1>2, <1>3 DEF Tells

(* A manifest is one or the other.                                         *)
LEMMA ManifestCases ==
    ASSUME NEW f, NEW owing, NEW pk, NEW M, GoodManifest(f, owing, pk, M)
    PROVE  /\ M = NoManifest =>
                 /\ \A n \in Firsts : f[n] = EmptyFile
                 /\ pk = 0
                 /\ \A t \in Tags : owing[t] = 0
           /\ M # NoManifest =>
                 /\ GoodLog(f, M.ck, M.segs)
                 /\ M.ck.gen <= M.gen
                 /\ M.last <= Reach(f, M.segs)
                 /\ pk <= Reach(f, M.segs)
                 /\ \A t \in Tags : Tells(f, M.ck, M.segs, t, owing[t])
<1>1. M = NoManifest => ~GoodLog(f, M.ck, M.segs)
  BY DEF NoManifest, GoodLog
<1> QED
  BY <1>1 DEF GoodManifest

(* So does a manifest, and what it promises.                               *)
LEMMA ManifestKept ==
    ASSUME NEW f \in [Firsts -> Files], NEW g \in [Firsts -> Files],
           \A n \in Firsts : f[n].synced <= Len(f[n].recs),
           NEW owing \in [Tags -> Nat], NEW less \in [Tags -> Nat],
           \A t \in Tags : less[t] <= owing[t],
           NEW pk \in Nat, NEW M \in Manifests, GoodManifest(f, owing, pk, M),
           Kept(f, g, OpenOf(M.segs)), Grown(f, g)
    PROVE  GoodManifest(g, less, pk, M)
<1>1. M.ck \in Checkpoints /\ M.segs \in Seq(Segments) /\ M.last \in Nat
  BY MaxSeqNat DEF Manifests, Seqs
<1>2. CASE M = NoManifest
  <2>1. /\ \A n \in Firsts : f[n] = EmptyFile
        /\ pk = 0 /\ \A t \in Tags : owing[t] = 0
    BY <1>2, ManifestCases
  <2>2. ASSUME NEW n \in Firsts PROVE g[n] = EmptyFile
    <3>1. n # OpenOf(M.segs)
      BY <1>2, MaxSeqNat DEF NoManifest, OpenOf, Firsts
    <3> QED
      BY <2>1, <3>1 DEF Kept, EmptyFile
  <2>3. ASSUME NEW t \in Tags PROVE less[t] = 0
    <3>1. less[t] \in Nat /\ less[t] <= owing[t] /\ owing[t] = 0
      BY <2>1
    <3> QED
      BY <3>1
  <2> QED
    BY <1>2, <2>1, <2>2, <2>3 DEF GoodManifest
<1>3. CASE M # NoManifest
  <2>1. /\ GoodLog(f, M.ck, M.segs) /\ M.ck.gen <= M.gen
        /\ M.last <= Reach(f, M.segs) /\ pk <= Reach(f, M.segs)
        /\ \A t \in Tags : Tells(f, M.ck, M.segs, t, owing[t])
    BY <1>3, ManifestCases
  <2>2. GoodLog(g, M.ck, M.segs)
    BY <1>1, <2>1, LogKept
  <2>3. Reach(f, M.segs) <= Reach(g, M.segs) /\ Reach(f, M.segs) \in Int
        /\ Reach(g, M.segs) \in Int
    <3>1. OpenOf(M.segs) \in Firsts
      BY <1>1, <2>1, LogShape
    <3>2. /\ OpenOf(M.segs) \in Nat
          /\ f[OpenOf(M.segs)].synced \in Nat /\ g[OpenOf(M.segs)].synced \in Nat
          /\ f[OpenOf(M.segs)].synced <= g[OpenOf(M.segs)].synced
      BY <3>1, MaxSeqNat DEF Files, Grown, Firsts
    <3> QED
      BY <3>2 DEF Reach
  <2>4. ASSUME NEW t \in Tags PROVE Tells(g, M.ck, M.segs, t, less[t])
    <3>1. \A n \in Firsts : g[n].synced \in Nat
      BY DEF Files
    <3>2. owing[t] \in Nat /\ less[t] \in Nat /\ less[t] <= owing[t]
      OBVIOUS
    <3> QED
      BY <1>1, <2>1, <3>1, <3>2, TellsKept
  <2> QED
    BY <1>1, <2>1, <2>2, <2>3, <2>4 DEF GoodManifest
<1> QED
  BY <1>2, <1>3

(* A file is synced.                                                       *)
LEMMA FilesSynced ==
    ASSUME NEW f \in [Firsts -> Files], NEW n \in Firsts,
           \A k \in Firsts : GoodFile(f, k)
    PROVE  LET g == [f EXCEPT ![n] = Synced(@)] IN
           /\ g \in [Firsts -> Files]
           /\ \A k \in Firsts : GoodFile(g, k)
           /\ \A k \in Firsts : g[k].recs = f[k].recs
           /\ \A o : Kept(f, g, o)
           /\ Grown(f, g)
<1> DEFINE g == [f EXCEPT ![n] = Synced(@)]
<1>1. /\ f[n] \in Files /\ Len(f[n].recs) \in Nat
      /\ f[n].synced <= Len(f[n].recs)
  BY DEF Files, GoodFile
<1>2. /\ Synced(f[n]) \in Files
      /\ Synced(f[n]).recs = f[n].recs
      /\ Synced(f[n]).synced = Len(f[n].recs)
      /\ Synced(f[n]).torn = f[n].torn
  BY <1>1 DEF Synced, Files
<1>3. f[n].clean /\ f[n].synced = Len(f[n].recs) => Synced(f[n]) = f[n]
  BY <1>1 DEF Synced, Files
<1>4. /\ g \in [Firsts -> Files] /\ g[n] = Synced(f[n])
      /\ \A k \in Firsts \ {n} : g[k] = f[k]
  BY <1>2
<1> HIDE DEF g
<1>5. \A k \in Firsts : g[k].recs = f[k].recs
  BY <1>2, <1>4
<1>6. ASSUME NEW k \in Firsts PROVE GoodFile(g, k)
  <2>1. g[k].synced <= Len(g[k].recs) /\ (g[k].clean => g[k].synced = Len(g[k].recs))
    BY <1>1, <1>2, <1>4 DEF GoodFile
  <2> QED
    BY <1>5, <2>1 DEF GoodFile
<1>7. ASSUME NEW o PROVE Kept(f, g, o)
  <2>1. \A k \in Firsts : Len(g[k].recs) <= Len(f[k].recs)
    BY <1>5 DEF Files
  <2>2. ASSUME NEW k \in Firsts, f[k].clean, f[k].synced = Len(f[k].recs)
        PROVE  g[k] = f[k]
    BY <1>3, <1>4, <2>2
  <2> QED
    BY <2>1, <2>2 DEF Kept
<1>8. Grown(f, g)
  <2>1. \A k \in Firsts : f[k].synced <= g[k].synced
    <3>1. \A k \in Firsts : f[k].synced <= f[k].synced
      BY DEF Files
    <3> QED
      BY <1>1, <1>2, <1>4, <3>1
  <2> QED
    BY <1>5, <2>1 DEF Grown
<1> QED
  BY <1>4, <1>5, <1>6, <1>7, <1>8 DEF g

(* A record goes to file n, behind all other records.                      *)
LEMMA FilesAppended ==
    ASSUME NEW f \in [Firsts -> Files], NEW n \in Firsts,
           \A k \in Firsts : GoodFile(f, k),
           \A k \in Firsts : /\ k > n => f[k] = EmptyFile
                             /\ k < n => k + Len(f[k].recs) <= n,
           NEW r \in Records, r.tags # {}, r.end > 0,
           r.wal = n + Len(f[n].recs), r.seq = n + Len(f[n].recs)
    PROVE  LET g == [f EXCEPT ![n].recs = Append(@, r), ![n].clean = FALSE] IN
           /\ g \in [Firsts -> Files]
           /\ \A k \in Firsts : GoodFile(g, k)
           /\ g[n].recs = Append(f[n].recs, r)
           /\ g[n].synced = f[n].synced /\ g[n].torn = f[n].torn
           /\ \A k \in Firsts \ {n} : g[k] = f[k]
           /\ Kept(f, g, n)
           /\ Grown(f, g)
<1> DEFINE g == [f EXCEPT ![n].recs = Append(@, r), ![n].clean = FALSE]
<1>1. /\ f[n] \in Files /\ f[n].recs \in Seq(Records)
      /\ Len(f[n].recs) \in Nat /\ n \in Nat /\ f[n].synced \in Nat
      /\ f[n].synced <= Len(f[n].recs)
  BY MaxSeqNat DEF Files, GoodFile, Firsts
<1>2. /\ g \in [Firsts -> Files] /\ g[n].recs = Append(f[n].recs, r)
      /\ g[n].synced = f[n].synced /\ g[n].torn = f[n].torn
      /\ g[n].clean = FALSE
      /\ \A k \in Firsts \ {n} : g[k] = f[k]
  <2> DEFINE x == [f[n] EXCEPT !.recs = Append(@, r), !.clean = FALSE]
  <2>1. /\ x.recs = Append(f[n].recs, r) /\ x.synced = f[n].synced
        /\ x.torn = f[n].torn /\ x.clean = FALSE
    BY <1>1 DEF Files
  <2>2. Append(f[n].recs, r) \in Seq(Records)
    BY <1>1
  <2>3. x \in Files
    <3>1. \A q \in Seq(Records) :
             [f[n] EXCEPT !.recs = q, !.clean = FALSE] \in Files
      BY <1>1 DEF Files
    <3> QED
      BY <2>2, <3>1
  <2>4. g = [f EXCEPT ![n] = x]
    OBVIOUS
  <2> HIDE DEF x, g
  <2>5. g[n] = x /\ g \in [Firsts -> Files]
        /\ \A k \in Firsts \ {n} : g[k] = f[k]
    BY <2>3, <2>4
  <2> QED
    BY <2>1, <2>5
<1> HIDE DEF g
<1>3. /\ Len(g[n].recs) = Len(f[n].recs) + 1
      /\ \A j \in 1 .. Len(f[n].recs) : g[n].recs[j] = f[n].recs[j]
      /\ g[n].recs[Len(f[n].recs) + 1] = r
  BY <1>1, <1>2
<1>4. ASSUME NEW k \in Firsts PROVE GoodFile(g, k)
  <2>1. CASE k = n
    <3>1. g[n].synced <= Len(g[n].recs)
      BY <1>1, <1>2, <1>3
    <3>2. ASSUME NEW j \in 1 .. Len(g[n].recs)
          PROVE  /\ g[n].recs[j].wal = n + j - 1
                 /\ g[n].recs[j].seq = n + j - 1
                 /\ g[n].recs[j].tags # {} /\ g[n].recs[j].end > 0
      <4>1. CASE j = Len(f[n].recs) + 1
        BY <1>1, <1>3, <4>1
      <4>2. CASE j # Len(f[n].recs) + 1
        <5>1. j \in 1 .. Len(f[n].recs)
          BY <1>1, <1>3, <4>2
        <5> QED
          BY <1>3, <5>1 DEF GoodFile
      <4> QED
        BY <4>1, <4>2
    <3>3. \A i \in Firsts : n < i => g[i].recs = <<>>
      BY <1>1, <1>2, MaxSeqNat DEF EmptyFile, Firsts
    <3> QED
      BY <1>2, <2>1, <3>1, <3>2, <3>3 DEF GoodFile
  <2>2. CASE k # n
    <3>1. g[k] = f[k] /\ k \in Nat /\ Len(f[k].recs) \in Nat
      <4>1. g[k] = f[k]
        BY <1>2, <2>2
      <4>2. \A q \in Files : Len(q.recs) \in Nat
        BY DEF Files
      <4>3. k \in Nat /\ f[k] \in Files
        BY MaxSeqNat DEF Firsts
      <4> QED
        BY <4>1, <4>2, <4>3
    <3>2. ASSUME NEW i \in Firsts, k < i, g[i].recs # <<>>
          PROVE  k + Len(g[k].recs) <= i
      <4>1. CASE i = n
        BY <3>1, <3>2, <4>1
      <4>2. CASE i # n
        BY <1>2, <3>1, <3>2, <4>2 DEF GoodFile
      <4> QED
        BY <4>1, <4>2
    <3>3. /\ g[k].synced <= Len(g[k].recs)
          /\ g[k].clean => g[k].synced = Len(g[k].recs)
          /\ \A j \in 1 .. Len(g[k].recs) :
                /\ g[k].recs[j].wal = k + j - 1
                /\ g[k].recs[j].seq = k + j - 1
                /\ g[k].recs[j].tags # {} /\ g[k].recs[j].end > 0
      <4>1. GoodFile(f, k)
        OBVIOUS
      <4>2. /\ f[k].synced <= Len(f[k].recs)
            /\ f[k].clean => f[k].synced = Len(f[k].recs)
            /\ \A j \in 1 .. Len(f[k].recs) :
                  /\ f[k].recs[j].wal = k + j - 1
                  /\ f[k].recs[j].seq = k + j - 1
                  /\ f[k].recs[j].tags # {} /\ f[k].recs[j].end > 0
        BY <4>1, Zenon DEF GoodFile
      <4> QED
        BY <3>1, <4>2, Zenon
    <3>4. \A i \in Firsts : k < i /\ g[i].recs # <<>> => k + Len(g[k].recs) <= i
      BY <3>2, Zenon
    <3> QED
      BY <3>3, <3>4, Zenon DEF GoodFile
  <2> QED
    BY <2>1, <2>2
<1>5. Kept(f, g, n)
  <2>1. \A k \in Firsts : Len(f[k].recs) \in Nat
    BY DEF Files
  <2> QED
    BY <1>2, <2>1 DEF Kept
<1>6. Grown(f, g)
  <2>1. \A k \in Firsts : f[k].synced \in Nat
    BY DEF Files
  <2>2. ASSUME NEW k \in Firsts
        PROVE  /\ f[k].synced <= g[k].synced
               /\ \A j \in 1 .. f[k].synced : g[k].recs[j] = f[k].recs[j]
    <3>1. CASE k = n
      BY <1>1, <1>2, <1>3, <3>1
    <3>2. CASE k # n
      BY <1>2, <2>1, <3>2
    <3> QED
      BY <3>1, <3>2
  <2> QED
    BY <2>2 DEF Grown
<1> QED
  BY <1>2, <1>4, <1>5, <1>6 DEF g

(* The open segment is torn, or cut, or made anew while it is empty.       *)
LEMMA FilesPatched ==
    ASSUME NEW f \in [Firsts -> Files], NEW n \in Firsts, NEW x \in Files,
           \A k \in Firsts : GoodFile(f, k),
           x.recs = f[n].recs, x.synced = f[n].synced,
           x.clean => x.synced = Len(x.recs)
    PROVE  LET g == [f EXCEPT ![n] = x] IN
           /\ g \in [Firsts -> Files]
           /\ \A k \in Firsts : GoodFile(g, k)
           /\ \A k \in Firsts : g[k].recs = f[k].recs
           /\ Kept(f, g, n)
           /\ Grown(f, g)
<1> DEFINE g == [f EXCEPT ![n] = x]
<1>1. /\ g \in [Firsts -> Files] /\ g[n] = x
      /\ \A k \in Firsts \ {n} : g[k] = f[k]
  OBVIOUS
<1> HIDE DEF g
<1>2. \A k \in Firsts : g[k].recs = f[k].recs /\ g[k].synced = f[k].synced
  BY <1>1
<1>3. ASSUME NEW k \in Firsts PROVE GoodFile(g, k)
  <2>1. g[k].clean => g[k].synced = Len(g[k].recs)
    BY <1>1, <1>2 DEF GoodFile
  <2> QED
    BY <1>2, <2>1 DEF GoodFile
<1>4. \A k \in Firsts : Len(f[k].recs) \in Nat /\ f[k].synced \in Nat
  BY DEF Files
<1>5. Kept(f, g, n)
  BY <1>1, <1>4 DEF Kept
<1>6. Grown(f, g)
  BY <1>2, <1>4 DEF Grown
<1> QED
  BY <1>1, <1>2, <1>3, <1>5, <1>6 DEF g

(* A loss of power takes records from the end of files that are not        *)
(* synced.                                                                 *)
LEMMA FilesSurvive ==
    ASSUME NEW f \in [Firsts -> Files], NEW g,
           DOMAIN g = Firsts, g = [k \in Firsts |-> g[k]],
           \A k \in Firsts : GoodFile(f, k),
           \A k \in Firsts : g[k] \in Survivors(f[k])
    PROVE  /\ g \in [Firsts -> Files]
           /\ \A k \in Firsts : GoodFile(g, k)
           /\ \A o : Kept(f, g, o)
           /\ Grown(f, g)
<1>1. ASSUME NEW k \in Firsts
      PROVE  /\ g[k] \in Files
             /\ Len(f[k].recs) \in Nat /\ Len(g[k].recs) \in Nat
             /\ Len(g[k].recs) <= Len(f[k].recs)
             /\ g[k].synced = Len(g[k].recs)
             /\ f[k].synced <= g[k].synced
             /\ \A j \in 1 .. Len(g[k].recs) : g[k].recs[j] = f[k].recs[j]
             /\ f[k].clean => g[k] = f[k]
  <2>1. /\ f[k] \in Files /\ f[k].recs \in Seq(Records) /\ f[k].synced \in Nat
        /\ Len(f[k].recs) \in Nat /\ f[k].synced <= Len(f[k].recs)
        /\ f[k].clean => f[k].synced = Len(f[k].recs)
    BY DEF Files, GoodFile
  <2>2. CASE f[k].clean
    BY <2>1, <2>2 DEF Survivors
  <2>3. CASE ~f[k].clean
    <3>1. PICK n \in f[k].synced .. Len(f[k].recs), x \in BOOLEAN :
             g[k] = [recs |-> SubSeq(f[k].recs, 1, n), synced |-> n,
                     torn |-> x, clean |-> TRUE]
      BY <2>3 DEF Survivors
    <3>2. /\ n \in Nat /\ SubSeq(f[k].recs, 1, n) \in Seq(Records)
          /\ Len(SubSeq(f[k].recs, 1, n)) = n
          /\ \A j \in 1 .. n : SubSeq(f[k].recs, 1, n)[j] = f[k].recs[j]
      BY <2>1, <3>1
    <3>3. /\ g[k].recs = SubSeq(f[k].recs, 1, n) /\ g[k].synced = n
          /\ g[k] \in Files
      <4>1. \A q \in Seq(Records) :
               [recs |-> q, synced |-> n, torn |-> x, clean |-> TRUE] \in Files
        BY <3>2 DEF Files
      <4>2. g[k].recs = SubSeq(f[k].recs, 1, n) /\ g[k].synced = n
        BY <3>1
      <4> QED
        BY <3>1, <3>2, <4>1, <4>2
    <3> QED
      BY <2>1, <2>3, <3>1, <3>2, <3>3
  <2> QED
    BY <2>2, <2>3
<1>2. g \in [Firsts -> Files]
  BY <1>1
<1>3. ASSUME NEW k \in Firsts PROVE GoodFile(g, k)
  <2>1. ASSUME NEW j \in 1 .. Len(g[k].recs)
        PROVE  j \in 1 .. Len(f[k].recs) /\ g[k].recs[j] = f[k].recs[j]
    BY <1>1
  <2>2. ASSUME NEW i \in Firsts, k < i, g[i].recs # <<>>
        PROVE  k + Len(g[k].recs) <= i
    <3>1. Len(g[i].recs) # 0
      BY <1>1, <2>2 DEF Files
    <3>2. f[i].recs # <<>>
      BY <1>1, <3>1
    <3>3. k + Len(f[k].recs) <= i /\ k \in Nat /\ i \in Nat
      BY <2>2, <3>2, MaxSeqNat DEF GoodFile, Firsts
    <3> QED
      BY <1>1, <3>3
  <2> QED
    BY <1>1, <2>1, <2>2 DEF GoodFile
<1>4. \A o : Kept(f, g, o)
  BY <1>1 DEF Kept
<1>5. Grown(f, g)
  BY <1>1 DEF Grown, Files
<1> QED
  BY <1>2, <1>3, <1>4, <1>5

(***************************************************************************)
(* The history                                                             *)
(***************************************************************************)
Histories == [Tags -> Seqs]

(* The history h with floor fl is bounded by s.                            *)
Within(s, h, fl) == fl <= s /\ \A t \in Tags : h[t] <= s

(* A prune drops purges up to some sequence, and none is newer than s.     *)
LEMMA Cutoff ==
    ASSUME NEW v, v.hist \in Histories, v.floor \in Seqs, NEW s \in Seqs,
           Within(s, v.hist, v.floor), OverCap(v.hist)
    PROVE  \E cut \in 0 .. s :
              Pruned(v) = [v EXCEPT !.hist = [t \in Tags |->
                                       IF t \in Present(v.hist) /\ v.hist[t] <= cut
                                       THEN 0 ELSE v.hist[t]],
                                    !.floor = MaxOf(v.floor, cut)]
<1> DEFINE need == Cardinality(Present(v.hist)) - (HistoryCap * 75) \div 100
           upTo(r) == {t \in Present(v.hist) : v.hist[t] <= r}
           Enough(r) == Cardinality(upTo(r)) >= need
           Cuts(r) == Enough(r) /\ \A q \in Seqs : q < r => Cardinality(upTo(q)) < need
<1>1. IsFiniteSet(Present(v.hist)) /\ Cardinality(Present(v.hist)) \in Nat
  BY TagsFinite, FS_Subset, FS_CardinalityType DEF Present
<1>2. need \in Int /\ need <= Cardinality(Present(v.hist))
  <2>1. (HistoryCap * 75) \div 100 \in Nat
    <3>1. HistoryCap * 75 \in Nat
      BY CapNat
    <3> QED
      BY <3>1
  <2> QED
    BY <1>1, <2>1
<1>3. \A r \in Seqs : Cardinality(upTo(r)) \in Nat
  BY <1>1, FS_Subset, FS_CardinalityType
<1>4. upTo(s) = Present(v.hist)
  BY DEF Within, Present
<1>5. Enough(s)
  BY <1>1, <1>2, <1>4
<1> HIDE DEF need, upTo
<1>6. \E r \in 0 .. s : Cuts(r)
  <2> DEFINE Good == {r \in Seqs : Enough(r)}
  <2>1. PICK r \in Good : \A w \in Good : r <= w
    <3>1. Good \in SUBSET Nat /\ Good # {}
      BY <1>5, MaxSeqNat DEF Seqs
    <3> HIDE DEF Good
    <3> QED
      BY <3>1, Smallest
  <2>2. r \in Seqs /\ Enough(r) /\ r <= s
    BY <1>5, <2>1
  <2>3. ASSUME NEW q \in Seqs, q < r PROVE Cardinality(upTo(q)) < need
    <3>1. ~Enough(q)
      BY <2>1, <2>2, <2>3, MaxSeqNat DEF Seqs
    <3> QED
      BY <1>2, <1>3, <3>1
  <2>4. r \in 0 .. s
    BY <2>2, MaxSeqNat DEF Seqs
  <2> QED
    BY <2>2, <2>3, <2>4
<1> DEFINE cut == CHOOSE r \in Seqs : Cuts(r)
<1>7. cut \in Seqs /\ Cuts(cut)
  <2>1. \E r \in Seqs : Cuts(r)
    BY <1>6, MaxSeqNat DEF Seqs
  <2> HIDE DEF Cuts
  <2> QED
    BY <2>1
<1>8. cut \in 0 .. s
  <2> HIDE DEF cut
  <2>1. PICK r \in 0 .. s : Cuts(r)
    BY <1>6
  <2>2. ~(r < cut)
    BY <1>2, <1>3, <1>7, <2>1, MaxSeqNat DEF Seqs
  <2> QED
    BY <1>7, <2>1, <2>2, MaxSeqNat DEF Seqs
<1>9. Pruned(v) = [v EXCEPT !.hist = [t \in Tags |->
                                IF t \in upTo(cut) THEN 0 ELSE v.hist[t]],
                            !.floor = MaxOf(v.floor, cut)]
  BY DEF Pruned, upTo, need
<1> HIDE DEF cut
<1>10. \A t \in Tags : t \in upTo(cut) <=> t \in Present(v.hist) /\ v.hist[t] <= cut
  BY DEF upTo
<1> QED
  BY <1>8, <1>9, <1>10

(* The history as a purge prunes it, and as a replay does.                 *)
MapsOf(h, fl, s) ==
    {[hist |-> h, floor |-> fl], [hist |-> h, floor |-> fl, seq |-> s]}

(* What a prune leaves refuses no less, and nothing newer.                 *)
PrunesWell(v, h, fl, s) ==
    /\ Pruned(v).hist \in Histories
    /\ Pruned(v).floor \in Seqs
    /\ Within(s, Pruned(v).hist, Pruned(v).floor)
    /\ \A t \in Tags : MaxOf(h[t], fl)
                          <= MaxOf(Pruned(v).hist[t], Pruned(v).floor)
    /\ v = [hist |-> h, floor |-> fl, seq |-> s] =>
          Pruned(v) = [hist |-> Pruned(v).hist, floor |-> Pruned(v).floor,
                       seq |-> s]
    /\ ~OverCap(h) => Pruned(v) = v

(* A prune takes victims and floor together.                               *)
LEMMA PruneKeeps ==
    ASSUME NEW h \in Histories, NEW fl \in Seqs, NEW s \in Seqs,
           Within(s, h, fl), NEW v \in MapsOf(h, fl, s)
    PROVE  PrunesWell(v, h, fl, s)
<1> USE DEF MapsOf
<1> SUFFICES /\ Pruned(v).hist \in Histories
             /\ Pruned(v).floor \in Seqs
             /\ Within(s, Pruned(v).hist, Pruned(v).floor)
             /\ \A t \in Tags : MaxOf(h[t], fl)
                                   <= MaxOf(Pruned(v).hist[t], Pruned(v).floor)
             /\ v = [hist |-> h, floor |-> fl, seq |-> s] =>
                   Pruned(v) = [hist |-> Pruned(v).hist,
                                floor |-> Pruned(v).floor, seq |-> s]
             /\ ~OverCap(h) => Pruned(v) = v
  BY DEF PrunesWell
<1>1. v.hist = h /\ v.floor = fl
  OBVIOUS
<1>2. /\ s \in Nat /\ fl \in Nat /\ \A t \in Tags : h[t] \in Nat /\ h[t] <= s
      /\ fl <= s /\ s <= MaxSeq
  BY MaxSeqNat DEF Within, Seqs, Histories
<1>3. CASE ~OverCap(h)
  <2>1. Pruned(v) = v
    BY <1>1, <1>3 DEF Pruned
  <2>2. \A t \in Tags : MaxOf(h[t], fl) <= MaxOf(h[t], fl)
    BY <1>2 DEF MaxOf
  <2> QED
    BY <1>1, <2>1, <2>2
<1>4. CASE OverCap(h)
  <2>1. PICK cut \in 0 .. s :
           Pruned(v) = [v EXCEPT !.hist = [t \in Tags |->
                                    IF t \in Present(v.hist) /\ v.hist[t] <= cut
                                    THEN 0 ELSE v.hist[t]],
                                 !.floor = MaxOf(v.floor, cut)]
    <3>1. /\ v.hist \in Histories /\ v.floor \in Seqs
          /\ Within(s, v.hist, v.floor) /\ OverCap(v.hist)
      BY <1>1, <1>4
    <3> QED
      BY <3>1, Cutoff
  <2> DEFINE hh == [t \in Tags |->
                      IF t \in Present(v.hist) /\ v.hist[t] <= cut
                      THEN 0 ELSE v.hist[t]]
  <2>2. /\ Pruned(v).hist = hh /\ Pruned(v).floor = MaxOf(fl, cut)
        /\ v = [hist |-> h, floor |-> fl, seq |-> s] =>
              Pruned(v) = [hist |-> Pruned(v).hist, floor |-> Pruned(v).floor,
                           seq |-> s]
    <3>1. Pruned(v) = [v EXCEPT !.hist = hh, !.floor = MaxOf(fl, cut)]
      BY <1>1, <2>1
    <3> HIDE DEF hh
    <3>2. CASE v = [hist |-> h, floor |-> fl]
      BY <3>1, <3>2
    <3>3. CASE v = [hist |-> h, floor |-> fl, seq |-> s]
      BY <3>1, <3>3
    <3> QED
      BY <3>2, <3>3
  <2>6. /\ cut \in Nat /\ cut <= s
        /\ fl \in Nat /\ s \in Nat /\ MaxSeq \in Nat /\ s <= MaxSeq /\ fl <= s
    BY <1>2, MaxSeqNat
  <2>3. ASSUME NEW t \in Tags
        PROVE  /\ hh[t] \in Seqs /\ hh[t] <= s
               /\ MaxOf(h[t], fl) <= MaxOf(hh[t], MaxOf(fl, cut))
    <3>1. h[t] \in Nat /\ h[t] <= s
      BY <1>2
    <3>2. hh[t] = h[t] \/ (hh[t] = 0 /\ h[t] <= cut)
      BY <1>1
    <3> HIDE DEF hh
    <3>3. MaxOf(fl, cut) \in Nat /\ fl <= MaxOf(fl, cut) /\ cut <= MaxOf(fl, cut)
      BY <2>6 DEF MaxOf
    <3> QED
      BY <2>6, <3>1, <3>2, <3>3 DEF MaxOf, Seqs
  <2>4. MaxOf(fl, cut) \in Seqs /\ MaxOf(fl, cut) <= s
    BY <2>6 DEF MaxOf, Seqs
  <2>5. hh \in Histories
    BY <2>3 DEF Histories
  <2> HIDE DEF hh
  <2> QED
    BY <1>4, <2>2, <2>3, <2>4, <2>5 DEF Within
<1> QED
  BY <1>3, <1>4

(***************************************************************************)
(* Replay                                                                  *)
(***************************************************************************)
(* A log that can be read: the files are good and the list too.            *)
Readable ==
    /\ file \in [Firsts -> Files]
    /\ checkpoint \in Checkpoints
    /\ segments \in Seq(Segments)
    /\ \A n \in Firsts : GoodFile(file, n)
    /\ GoodLog(file, checkpoint, segments)

(* Where the open segment and the log end.                                 *)
LEMMA ReadableShape ==
    ASSUME Readable
    PROVE  /\ Active = segments[Len(segments)]
           /\ Active.first = OpenOf(segments)
           /\ Active \in Segments
           /\ Active.first \in Firsts /\ Active.first \in Nat
           /\ Active.first \in Listed(segments)
           /\ file[Active.first] \in Files
           /\ Len(file[Active.first].recs) \in Nat
           /\ checkpoint.wal \in Nat /\ checkpoint.wal < Active.first
           /\ LogEnd \in Nat /\ checkpoint.wal <= LogEnd
           /\ checkpoint.seq = checkpoint.wal
<1>1. /\ checkpoint \in Checkpoints /\ segments \in Seq(Segments)
      /\ GoodLog(file, checkpoint, segments) /\ file \in [Firsts -> Files]
  BY DEF Readable
<1>2. /\ OpenOf(segments) = segments[Len(segments)].first
      /\ segments[Len(segments)] \in Segments
      /\ OpenOf(segments) \in Firsts /\ OpenOf(segments) \in Listed(segments)
      /\ checkpoint.wal \in Nat /\ checkpoint.wal < OpenOf(segments)
  BY <1>1, LogShape
<1>3. file[OpenOf(segments)] \in Files /\ Len(file[OpenOf(segments)].recs) \in Nat
      /\ OpenOf(segments) \in Nat
  BY <1>1, <1>2, MaxSeqNat, SMTT(60) DEF Files, Firsts
<1> QED
  BY <1>1, <1>2, <1>3 DEF Active, LogEnd, GoodLog, GoodCheckpoint

(* Records carry the numbers of their places.                              *)
LEMMA RecordShape ==
    ASSUME Readable, NEW n \in Firsts, NEW j \in 1 .. Len(file[n].recs)
    PROVE  /\ file[n].recs[j] \in Records
           /\ file[n].recs[j].wal = n + j - 1
           /\ file[n].recs[j].seq = n + j - 1
           /\ file[n].recs[j].tags # {}
BY SMTT(60) DEF Readable, Files, GoodFile

(* No two records have the same number.                                    *)
LEMMA RecordOnce ==
    ASSUME Readable,
           NEW n \in Firsts, NEW j \in 1 .. Len(file[n].recs),
           NEW k \in Firsts, NEW i \in 1 .. Len(file[k].recs),
           n + j = k + i
    PROVE  n = k /\ j = i
<1>1. n \in Nat /\ k \in Nat
  BY MaxSeqNat DEF Firsts
<1>2. /\ Len(file[n].recs) \in Nat /\ Len(file[k].recs) \in Nat
      /\ file[n].recs # <<>> /\ file[k].recs # <<>>
  BY DEF Readable, Files
<1>3. /\ n < k => n + Len(file[n].recs) <= k
      /\ k < n => k + Len(file[k].recs) <= n
  BY <1>2 DEF Readable, GoodFile
<1> QED
  BY <1>1, <1>2, <1>3

(* The record with a number is the one at its place.                       *)
LEMMA RecordFound ==
    ASSUME Readable, NEW n \in Listed(segments),
           NEW j \in 1 .. Len(file[n].recs)
    PROVE  RecordAt(n + j - 1) = file[n].recs[j]
<1>1. Listed(segments) \subseteq Firsts
  BY ListedFirsts DEF Readable
<1>2. file[n].recs[j] \in LogRecords
  BY DEF LogRecords
<1>3. ASSUME NEW r \in LogRecords, r.wal = n + j - 1
      PROVE  r = file[n].recs[j]
  <2>1. PICK k \in Listed(segments) :
           r \in {file[k].recs[i] : i \in 1 .. Len(file[k].recs)}
    BY DEF LogRecords
  <2>2. PICK i \in 1 .. Len(file[k].recs) : r = file[k].recs[i]
    BY <2>1
  <2>3. k \in Firsts /\ n \in Firsts /\ k \in Nat /\ n \in Nat
    BY <1>1, MaxSeqNat DEF Firsts
  <2>4. k + i - 1 = n + j - 1
    BY <1>3, <2>2, <2>3, RecordShape
  <2>5. n + j = k + i
    BY <2>3, <2>4
  <2> QED
    BY <2>2, <2>3, <2>5, RecordOnce
<1>4. file[n].recs[j].wal = n + j - 1
  BY <1>1, RecordShape
<1> QED
  BY <1>2, <1>3, <1>4 DEF RecordAt

(* Every number behind the checkpoint, up to the end of the log, has a     *)
(* record.                                                                 *)
LEMMA NumbersCovered ==
    ASSUME Readable, NEW w \in checkpoint.wal + 1 .. LogEnd
    PROVE  \E n \in Listed(segments) : \E j \in 1 .. Len(file[n].recs) :
              w = n + j - 1
<1> DEFINE First(i) == segments[i].first
           Reached == {i \in 1 .. Len(segments) : First(i) <= w}
<1>1. /\ Len(segments) \in Nat \ {0} /\ checkpoint.wal \in Nat /\ w \in Nat
      /\ LogEnd = First(Len(segments)) + Len(file[First(Len(segments))].recs) - 1
  <2>1. Len(segments) \in Nat \ {0}
    BY LogShape DEF Readable
  <2>2. checkpoint.wal \in Nat /\ LogEnd \in Nat
    BY ReadableShape
  <2> QED
    BY <2>1, <2>2 DEF LogEnd, Active
<1>2. ASSUME NEW i \in 1 .. Len(segments)
      PROVE  /\ First(i) \in Firsts /\ First(i) \in Nat
             /\ First(i) \in Listed(segments)
             /\ Len(file[First(i)].recs) \in Nat
             /\ First(i) = 1 + IF i = 1 THEN checkpoint.wal
                               ELSE segments[i - 1].last
  <2>1. segments[i] \in Segments
    BY DEF Readable
  <2>2. First(i) \in Firsts /\ First(i) \in Listed(segments)
    BY <2>1 DEF Segments, Listed
  <2>3. Contiguous([ck |-> checkpoint, segs |-> segments])
    BY DEF Readable, GoodLog
  <2> QED
    BY <2>2, <2>3, MaxSeqNat DEF Readable, Firsts, Files, Contiguous
<1>3. ASSUME NEW i \in 1 .. Len(segments) - 1
      PROVE  First(i + 1) = First(i) + Len(file[First(i)].recs)
  <2>1. i \in 1 .. Len(segments) /\ i + 1 \in 1 .. Len(segments)
        /\ i + 1 # 1 /\ (i + 1) - 1 = i
    BY <1>1
  <2>2. First(i + 1) = 1 + segments[i].last
    BY <1>2, <2>1
  <2>3. segments[i].last = First(i) + Len(file[First(i)].recs) - 1
    BY DEF Readable, GoodLog, Sealed
  <2> QED
    BY <1>2, <2>1, <2>2, <2>3
(* The first segment that ends at w or behind it.                          *)
<1> DEFINE End(i) == First(i) + Len(file[First(i)].recs)
           Past == {i \in 1 .. Len(segments) : w < End(i)}
<1>4. Len(segments) \in Past
  BY <1>1, <1>2, SMTT(60)
<1>5. PICK i \in Past : \A k \in Past : i <= k
  <2>1. Past \in SUBSET Nat /\ Past # {}
    BY <1>1, <1>4
  <2> HIDE DEF Past
  <2> QED
    BY <2>1, Smallest
<1>6. First(i) <= w
  <2>1. CASE i = 1
    BY <1>1, <1>2, <1>5, <2>1
  <2>2. CASE i # 1
    <3>1. i - 1 \in 1 .. Len(segments) - 1 /\ i - 1 \notin Past
          /\ (i - 1) + 1 = i
      BY <1>1, <1>5, <2>2
    <3>2. ~(w < End(i - 1)) /\ First(i) = End(i - 1) /\ End(i - 1) \in Nat
      BY <1>1, <1>2, <1>3, <3>1, SMTT(60)
    <3> QED
      BY <1>1, <3>2
  <2> QED
    BY <2>1, <2>2
<1>7. /\ w - First(i) + 1 \in 1 .. Len(file[First(i)].recs)
      /\ w = First(i) + (w - First(i) + 1) - 1
      /\ First(i) \in Listed(segments)
  BY <1>1, <1>2, <1>5, <1>6, SMTT(60)
<1> QED
  BY <1>7

(* Between checkpoint and end, every number has its record.                *)
LEMMA RecordIs ==
    ASSUME Readable, NEW w \in checkpoint.wal + 1 .. LogEnd
    PROVE  /\ RecordAt(w) \in Records
           /\ RecordAt(w).seq = w /\ RecordAt(w).tags # {}
           /\ w \in 1 .. MaxSeq
<1>1. PICK n \in Listed(segments) : \E j \in 1 .. Len(file[n].recs) :
         w = n + j - 1
  BY NumbersCovered
<1>2. PICK j \in 1 .. Len(file[n].recs) : w = n + j - 1
  BY <1>1
<1>3. n \in Firsts
  BY ListedFirsts DEF Readable
<1>4. RecordAt(w) = file[n].recs[j]
  BY <1>2, RecordFound
<1>5. /\ file[n].recs[j] \in Records
      /\ file[n].recs[j].seq = w /\ file[n].recs[j].tags # {}
  BY <1>2, <1>3, RecordShape
<1> QED
  BY <1>4, <1>5 DEF Records

Stepwise(f) ==
    f = [n \in Seqs |-> IF n = 0 THEN FromCheckpoint
                        ELSE ReplayRecord(f[n - 1], RecordAt(checkpoint.wal + n))]

(* What the first k records are replayed to, whatever k is.                *)
StepsTo(f, k) ==
    f = [n \in 0 .. k |-> IF n = 0 THEN FromCheckpoint
                          ELSE ReplayRecord(f[n - 1],
                                            RecordAt(checkpoint.wal + n))]

(* Such a function exists up to any k.                                     *)
LEMMA StepsExist ==
    ASSUME NEW k \in Nat
    PROVE  \E f : StepsTo(f, k)
<1> DEFINE Bad == {n \in Nat : ~ \E f : StepsTo(f, n)}
<1> SUFFICES ASSUME Bad # {} PROVE FALSE
  OBVIOUS
<1>1. PICK n \in Bad : \A m \in Bad : n <= m
  BY Smallest
<1>2. n \in Nat /\ (n # 0 => n - 1 \in Nat \ Bad)
  BY <1>1
<1>3. CASE n = 0
  <2>1. StepsTo([i \in 0 .. 0 |-> FromCheckpoint], 0)
    BY DEF StepsTo
  <2> QED
    BY <2>1, <1>1, <1>3
<1>4. CASE n # 0
  <2>1. PICK h : StepsTo(h, n - 1)
    BY <1>2, <1>4
  <2> DEFINE Step(g, i) == ReplayRecord(g[i - 1], RecordAt(checkpoint.wal + i))
             r == [i \in 0 .. n |-> IF i = n THEN Step(h, n) ELSE h[i]]
  <2>2. \A i \in 0 .. n - 1 :
            h[i] = IF i = 0 THEN FromCheckpoint ELSE Step(h, i)
    BY <2>1 DEF StepsTo
  <2>3. ASSUME NEW i \in 0 .. n
        PROVE  r[i] = IF i = 0 THEN FromCheckpoint ELSE Step(r, i)
    <3>1. CASE i = n
      <4>1. n - 1 \in 0 .. n /\ n - 1 # n
        BY <1>2, <1>4
      <4>2. r[n - 1] = h[n - 1] /\ r[n] = Step(h, n)
        BY <4>1, <1>2
      <4> QED
        BY <3>1, <4>2, <1>4
    <3>2. CASE i # n
      <4>1. i \in 0 .. n - 1 /\ (i # 0 => i - 1 \in 0 .. n /\ i - 1 # n)
        BY <3>2, <1>2
      <4>2. r[i] = h[i] /\ (i # 0 => r[i - 1] = h[i - 1])
        BY <4>1, <3>2
      <4> QED
        BY <4>1, <4>2, <2>2
    <3> QED
      BY <3>1, <3>2
  <2>4. r = [i \in 0 .. n |-> r[i]]
    OBVIOUS
  <2> HIDE DEF r
  <2>5. StepsTo(r, n)
    BY <2>3, <2>4 DEF StepsTo
  <2> QED
    BY <2>5, <1>1
<1> QED
  BY <1>3, <1>4

(* Hence Replayed satisfies its recursive equations.                       *)
LEMMA ReplayedSteps ==
    /\ Replayed[0] = FromCheckpoint
    /\ \A n \in Seqs \ {0} :
          Replayed[n] = ReplayRecord(Replayed[n - 1],
                                     RecordAt(checkpoint.wal + n))
<1>1. PICK f : StepsTo(f, MaxSeq)
  BY StepsExist, MaxSeqNat
<1>2. Stepwise(f)
  BY <1>1 DEF Stepwise, StepsTo, Seqs
<1>3. Replayed = CHOOSE g : Stepwise(g)
  BY DEF Replayed, Stepwise
<1>4. Stepwise(Replayed)
  BY <1>2, <1>3
<1> QED
  BY <1>4, MaxSeqNat DEF Stepwise, Seqs

(* The history after k records refuses what the checkpoint and the k       *)
(* records tell of, and nothing newer than the last of them.               *)
ReplayedOK(k) ==
    LET v == Replayed[k] IN
    /\ v = [hist |-> v.hist, floor |-> v.floor, seq |-> checkpoint.seq + k]
    /\ v.hist \in Histories /\ v.floor \in Seqs
    /\ Within(checkpoint.seq + k, v.hist, v.floor)
    /\ \A t \in Tags :
          /\ MaxOf(checkpoint.hist[t], checkpoint.floor) <= MaxOf(v.hist[t], v.floor)
          /\ \A w \in checkpoint.wal + 1 .. checkpoint.wal + k :
                t \in RecordAt(w).tags => w <= MaxOf(v.hist[t], v.floor)

(* One more record keeps what the replay has shown so far.                 *)
LEMMA ReplayStep ==
    ASSUME Readable, NEW k \in Nat, checkpoint.wal + k + 1 <= LogEnd,
           ReplayedOK(k)
    PROVE  ReplayedOK(k + 1)
<1> DEFINE v == Replayed[k]
           s == checkpoint.seq + k + 1
           r == RecordAt(checkpoint.wal + (k + 1))
           h == Upsert(v.hist, r.tags, s)
           u == [hist |-> h, floor |-> v.floor, seq |-> s]
           x == Replayed[k + 1]
<1>1. /\ checkpoint.wal \in Nat /\ checkpoint.seq = checkpoint.wal
      /\ LogEnd \in Nat
  BY ReadableShape
<1>2. /\ r \in Records /\ r.seq = s /\ s \in 1 .. MaxSeq
      /\ checkpoint.wal + (k + 1) = s
  <2>1. checkpoint.wal + (k + 1) \in checkpoint.wal + 1 .. LogEnd
    BY <1>1
  <2> QED
    BY <1>1, <2>1, RecordIs
<1>3. k + 1 \in Seqs \ {0} /\ (k + 1) - 1 = k
  BY <1>1, <1>2, MaxSeqNat DEF Seqs
<1>4. /\ v = [hist |-> v.hist, floor |-> v.floor, seq |-> checkpoint.seq + k]
      /\ v.hist \in Histories /\ v.floor \in Seqs
      /\ Within(checkpoint.seq + k, v.hist, v.floor)
      /\ \A t \in Tags :
            /\ MaxOf(checkpoint.hist[t], checkpoint.floor) <= MaxOf(v.hist[t], v.floor)
            /\ \A w \in checkpoint.wal + 1 .. checkpoint.wal + k :
                  t \in RecordAt(w).tags => w <= MaxOf(v.hist[t], v.floor)
  BY DEF ReplayedOK
<1>5. x = Pruned([v EXCEPT !.hist = Upsert(@, r.tags, r.seq), !.seq = r.seq])
  BY <1>3, ReplayedSteps DEF ReplayRecord
<1> HIDE DEF v, r, x
<1>6. [v EXCEPT !.hist = Upsert(@, r.tags, r.seq), !.seq = r.seq] = u
  <2>1. [v EXCEPT !.hist = Upsert(@, r.tags, r.seq), !.seq = r.seq]
           = [v EXCEPT !.hist = h, !.seq = s]
    BY <1>2
  <2>2. v = [hist |-> v.hist, floor |-> v.floor, seq |-> v.seq]
    BY <1>4
  <2> HIDE DEF h, s
  <2> DEFINE w == [hist |-> h, floor |-> v.floor, seq |-> v.seq]
  <2>3. [v EXCEPT !.hist = h, !.seq = s] = [[v EXCEPT !.hist = h] EXCEPT !.seq = s]
    OBVIOUS
  <2>4. [v EXCEPT !.hist = h] = w
    BY <2>2
  <2>5. [w EXCEPT !.seq = s] = [hist |-> h, floor |-> v.floor, seq |-> s]
    OBVIOUS
  <2> HIDE DEF w
  <2>6. [v EXCEPT !.hist = h, !.seq = s] = [hist |-> h, floor |-> v.floor, seq |-> s]
    BY <2>3, <2>4, <2>5
  <2> QED
    BY <2>1, <2>6
<1>7. /\ h \in Histories /\ s \in Seqs
      /\ \A t \in Tags : h[t] = IF t \in r.tags THEN s ELSE v.hist[t]
  BY <1>1, <1>2, <1>4, MaxSeqNat DEF Histories, Upsert, Seqs
<1>8. Within(s, h, v.floor)
  BY <1>1, <1>4, <1>7, MaxSeqNat DEF Within, Histories, Seqs
<1>9. ASSUME NEW t \in Tags
      PROVE  /\ MaxOf(v.hist[t], v.floor) <= MaxOf(h[t], v.floor)
             /\ t \in r.tags => s <= MaxOf(h[t], v.floor)
  BY <1>1, <1>4, <1>7, MaxSeqNat DEF Within, Histories, Seqs, MaxOf
<1> HIDE DEF h
<1>10. /\ x.hist \in Histories /\ x.floor \in Seqs
       /\ Within(s, x.hist, x.floor)
       /\ x = [hist |-> x.hist, floor |-> x.floor, seq |-> s]
       /\ \A t \in Tags : MaxOf(h[t], v.floor) <= MaxOf(x.hist[t], x.floor)
  <2> DEFINE fl == v.floor
  <2>1. x = Pruned(u) /\ fl \in Seqs
    BY <1>4, <1>5, <1>6
  <2>2. h \in Histories /\ s \in Seqs /\ Within(s, h, fl)
    BY <1>7, <1>8
  <2>3. u = [hist |-> h, floor |-> fl, seq |-> s] /\ u \in MapsOf(h, fl, s)
    BY DEF MapsOf
  <2> HIDE DEF u, s, fl
  <2>4. PrunesWell(u, h, fl, s)
    BY <2>1, <2>2, <2>3, PruneKeeps
  <2> QED
    BY <2>1, <2>3, <2>4 DEF PrunesWell, fl
<1>11. ASSUME NEW t \in Tags
       PROVE  /\ MaxOf(checkpoint.hist[t], checkpoint.floor) <= MaxOf(x.hist[t], x.floor)
              /\ \A w \in checkpoint.wal + 1 .. checkpoint.wal + (k + 1) :
                    t \in RecordAt(w).tags => w <= MaxOf(x.hist[t], x.floor)
  <2>1. /\ MaxOf(v.hist[t], v.floor) \in Nat /\ MaxOf(h[t], v.floor) \in Nat
        /\ MaxOf(x.hist[t], x.floor) \in Nat
        /\ MaxOf(checkpoint.hist[t], checkpoint.floor) \in Nat
    BY <1>4, <1>7, <1>10, MaxSeqNat
       DEF MaxOf, Histories, Seqs, Readable, Checkpoints
  <2>2. MaxOf(v.hist[t], v.floor) <= MaxOf(x.hist[t], x.floor)
    BY <1>9, <1>10, <2>1
  <2>3. MaxOf(checkpoint.hist[t], checkpoint.floor) <= MaxOf(x.hist[t], x.floor)
    BY <1>4, <2>1, <2>2
  <2>4. ASSUME NEW w \in checkpoint.wal + 1 .. checkpoint.wal + (k + 1),
               t \in RecordAt(w).tags
        PROVE  w <= MaxOf(x.hist[t], x.floor)
    <3>1. CASE w = checkpoint.wal + (k + 1)
      <4>1. s <= MaxOf(h[t], v.floor)
        BY <1>9, <2>4, <3>1 DEF r
      <4> QED
        BY <1>1, <1>2, <1>10, <2>1, <3>1, <4>1
    <3>2. CASE w # checkpoint.wal + (k + 1)
      <4>1. w \in checkpoint.wal + 1 .. checkpoint.wal + k
        BY <1>1, <3>2
      <4> QED
        BY <1>1, <1>4, <2>1, <2>2, <2>4, <4>1
    <3> QED
      BY <3>1, <3>2
  <2> QED
    BY <2>3, <2>4
<1>12. checkpoint.seq + (k + 1) = s
  BY <1>1
<1> QED
  BY <1>10, <1>11, <1>12 DEF ReplayedOK, x

(* The whole log is replayed.                                              *)
LEMMA Replays ==
    ASSUME Readable
    PROVE  ReplayedOK(LogEnd - checkpoint.wal)
<1> DEFINE Bad == {k \in 0 .. LogEnd - checkpoint.wal : ~ReplayedOK(k)}
<1>1. checkpoint.wal \in Nat /\ LogEnd \in Nat /\ checkpoint.wal <= LogEnd
      /\ checkpoint.seq = checkpoint.wal
  BY ReadableShape
<1>2. ReplayedOK(0)
  <2>1. Replayed[0] = [hist |-> checkpoint.hist, floor |-> checkpoint.floor,
                       seq |-> checkpoint.seq]
    BY ReplayedSteps DEF FromCheckpoint
  <2>2. checkpoint.hist \in Histories /\ checkpoint.floor \in Seqs
    BY DEF Readable, Checkpoints, Histories
  <2>3. Within(checkpoint.seq, checkpoint.hist, checkpoint.floor)
    BY DEF Readable, GoodLog, GoodCheckpoint, Within
  <2>4. \A t \in Tags : MaxOf(checkpoint.hist[t], checkpoint.floor)
                           <= MaxOf(checkpoint.hist[t], checkpoint.floor)
    BY <2>2, MaxSeqNat DEF MaxOf, Histories, Seqs
  <2> QED
    BY <1>1, <2>1, <2>2, <2>3, <2>4 DEF ReplayedOK
<1>3. Bad = {}
  <2> SUFFICES ASSUME Bad # {} PROVE FALSE
    OBVIOUS
  <2>1. PICK k \in Bad : \A w \in Bad : k <= w
    <3>1. Bad \in SUBSET Nat
      OBVIOUS
    <3> HIDE DEF Bad
    <3> QED
      BY <3>1, Smallest
  <2>2. k # 0
    BY <1>2, <2>1
  <2>3. k - 1 \in 0 .. LogEnd - checkpoint.wal /\ k - 1 \notin Bad /\ k - 1 \in Nat
        /\ (k - 1) + 1 = k /\ checkpoint.wal + (k - 1) + 1 <= LogEnd
    BY <1>1, <2>1, <2>2
  <2>4. ReplayedOK(k - 1)
    BY <2>3
  <2>5. ReplayedOK((k - 1) + 1)
    BY <2>3, <2>4, ReplayStep
  <2> QED
    BY <2>1, <2>3, <2>5
<1> QED
  BY <1>1, <1>3

(* A log that is good passes the checks of a start.                        *)
LEMMA GoodIsReplayable ==
    ASSUME Readable,
           checkpoint # NoCheckpoint => checkpoint \in meta.cks,
           Listed(segments) \subseteq meta.names
    PROVE  Replayable
<1>1. /\ Len(segments) \in Nat \ {0} /\ checkpoint.wal \in Nat
      /\ \A i \in 1 .. Len(segments) - 1 : Sealed(file, segments[i])
      /\ Contiguous([ck |-> checkpoint, segs |-> segments])
      /\ segments[Len(segments)].last = 0
      /\ checkpoint.seq = checkpoint.wal
  BY LogShape, ReadableShape DEF Readable, GoodLog
<1>2. ASSUME NEW i \in 1 .. Len(segments)
      PROVE  LET s == segments[i]
                 f == file[s.first]
             IN  /\ s.first \in meta.names
                 /\ \A j \in 1 .. Len(f.recs) : f.recs[j].wal = s.first + j - 1
                 /\ s.last # 0 => /\ ~f.torn
                                  /\ s.first + Len(f.recs) - 1 = s.last
                                  /\ s.bytes = BytesOf(f.recs)
  <2>1. segments[i].first \in Listed(segments) /\ segments[i].first \in Firsts
    BY ListedFirsts DEF Readable
  <2>2. \A j \in 1 .. Len(file[segments[i].first].recs) :
           file[segments[i].first].recs[j].wal = segments[i].first + j - 1
    BY <2>1, RecordShape
  <2>3. segments[i].last # 0 => i \in 1 .. Len(segments) - 1
    BY <1>1
  <2> QED
    BY <1>1, <2>1, <2>2, <2>3 DEF Sealed
<1>3. ASSUME NEW w \in checkpoint.wal + 1 .. LogEnd
      PROVE  Follows(RecordAt(w), IF w = checkpoint.wal + 1 THEN checkpoint.seq
                                  ELSE RecordAt(w - 1).seq)
  <2>1. RecordAt(w).seq = w /\ RecordAt(w).tags # {}
    BY RecordIs
  <2>2. CASE w = checkpoint.wal + 1
    BY <1>1, <2>1, <2>2 DEF Follows
  <2>3. CASE w # checkpoint.wal + 1
    <3>1. w - 1 \in checkpoint.wal + 1 .. LogEnd
      <4>1. LogEnd \in Nat
        BY ReadableShape
      <4> QED
        BY <1>1, <2>3, <4>1
    <3>2. RecordAt(w - 1).seq = w - 1
      BY <3>1, RecordIs
    <3> QED
      BY <2>1, <2>3, <3>2 DEF Follows
  <2> QED
    BY <2>2, <2>3
<1> QED
  BY <1>1, <1>2, <1>3 DEF Replayable

(* What is told of is refused once it is replayed.                         *)
LEMMA ReplayTells ==
    ASSUME Readable, NEW t \in Tags, NEW s \in Nat,
           Tells(file, checkpoint, segments, t, s)
    PROVE  s <= MaxOf(Recovered.hist[t], Recovered.floor)
<1> DEFINE v == Recovered
<1>1. /\ checkpoint.wal \in Nat /\ LogEnd \in Nat /\ checkpoint.wal <= LogEnd
      /\ checkpoint.seq = checkpoint.wal
  BY ReadableShape
<1>2. /\ v.hist \in Histories /\ v.floor \in Seqs
      /\ MaxOf(checkpoint.hist[t], checkpoint.floor) <= MaxOf(v.hist[t], v.floor)
      /\ \A w \in checkpoint.wal + 1 .. checkpoint.wal + (LogEnd - checkpoint.wal) :
            t \in RecordAt(w).tags => w <= MaxOf(v.hist[t], v.floor)
  BY Replays DEF ReplayedOK, Recovered
<1> HIDE DEF v
<1>3. /\ MaxOf(v.hist[t], v.floor) \in Nat
      /\ checkpoint.hist[t] \in Nat /\ checkpoint.floor \in Nat
  BY <1>2, MaxSeqNat DEF MaxOf, Histories, Seqs, Readable, Checkpoints
<1>4. CASE s <= checkpoint.floor \/ s <= checkpoint.hist[t]
  <2>1. s <= MaxOf(checkpoint.hist[t], checkpoint.floor)
        /\ MaxOf(checkpoint.hist[t], checkpoint.floor) \in Nat
    BY <1>3, <1>4 DEF MaxOf
  <2> QED
    BY <1>2, <1>3, <2>1 DEF v
<1>5. CASE \E n \in Listed(segments) : \E j \in 1 .. file[n].synced :
              t \in file[n].recs[j].tags /\ s <= file[n].recs[j].seq
  <2>1. PICK n \in Listed(segments) : \E j \in 1 .. file[n].synced :
              t \in file[n].recs[j].tags /\ s <= file[n].recs[j].seq
    BY <1>5
  <2>2. PICK j \in 1 .. file[n].synced :
              t \in file[n].recs[j].tags /\ s <= file[n].recs[j].seq
    BY <2>1
  <2>3. n \in Firsts /\ n \in Nat
    BY ListedFirsts, MaxSeqNat DEF Readable, Firsts
  <2>4. j \in 1 .. Len(file[n].recs)
    BY <2>3 DEF Readable, Files, GoodFile
  <2>5. file[n].recs[j].seq = n + j - 1
    BY <2>3, <2>4, RecordShape
  <2>6. RecordAt(n + j - 1) = file[n].recs[j]
    BY <2>4, RecordFound
  <2>7. CASE n + j - 1 <= checkpoint.wal
    <3>1. PICK i \in 1 .. Len(segments) : n = segments[i].first
      BY DEF Listed
    <3>2. checkpoint.wal < segments[i].first
      BY <3>1, Ordered DEF Readable, GoodLog
    <3> QED
      BY <1>1, <2>3, <2>4, <2>7, <3>1, <3>2
  <2>8. CASE n + j - 1 > checkpoint.wal
    <3>1. n + j - 1 <= LogEnd
      <4>1. CASE n = OpenOf(segments)
        BY <1>1, <2>3, <2>4, <4>1, ReadableShape DEF LogEnd
      <4>2. CASE n # OpenOf(segments)
        <5>1. OpenOf(segments) \in Nat /\ OpenOf(segments) <= LogEnd + 1
          BY ReadableShape DEF LogEnd
        <5>2. n < OpenOf(segments)
          <6>1. PICK i \in 1 .. Len(segments) - 1 : n = segments[i].first
            BY <4>2, LogShape DEF Readable
          <6> QED
            BY <6>1, LogShape DEF Readable
        <5>3. n + Len(file[n].recs) <= OpenOf(segments)
          BY <2>3, <5>2 DEF Readable, GoodLog
        <5> QED
          BY <1>1, <2>3, <2>4, <5>1, <5>3
      <4> QED
        BY <4>1, <4>2
    <3>2. n + j - 1 \in checkpoint.wal + 1 .. checkpoint.wal + (LogEnd - checkpoint.wal)
      BY <1>1, <2>3, <2>4, <2>8, <3>1
    <3> QED
      <4>1. t \in RecordAt(n + j - 1).tags /\ s <= n + j - 1
        BY <2>2, <2>5, <2>6
      <4>2. n + j - 1 <= MaxOf(v.hist[t], v.floor)
        BY <1>2, <3>2, <4>1
      <4> QED
        BY <1>3, <2>3, <2>4, <4>1, <4>2 DEF v
  <2> QED
    BY <1>1, <2>3, <2>4, <2>7, <2>8
<1> QED
  BY <1>4, <1>5 DEF Tells

(***************************************************************************)
(* Steps of the disk                                                       *)
(***************************************************************************)
LEMMA TypeFacts ==
    ASSUME TypeOK
    PROVE  /\ \A m \in images : /\ m \in Metas /\ m.man \in Manifests
                                /\ m.man.ck \in Checkpoints
                                /\ m.man.segs \in Seq(Segments)
                                /\ m.man.gen \in Nat /\ m.man.last \in Nat
                                /\ m.cks \subseteq Checkpoints
                                /\ m.names \subseteq Firsts
           /\ meta \in images
           /\ file \in [Firsts -> Files]
           /\ hist \in Histories /\ owed \in Histories
           /\ Owing \in Histories
           /\ undo.hist \in Histories /\ undo.floor \in Seqs
           /\ seq \in Nat /\ floor \in Nat /\ peak \in Nat /\ generation \in Nat
<1>1. \A m \in images : m \in Metas
  BY DEF TypeOK
<1>2. \A m \in Metas : /\ m.man \in Manifests
                       /\ m.cks \subseteq Checkpoints /\ m.names \subseteq Firsts
  BY DEF Metas, Manifests
<1>3. \A M \in Manifests : /\ M.ck \in Checkpoints /\ M.segs \in Seq(Segments)
                           /\ M.gen \in Nat /\ M.last \in Nat
  BY MaxSeqNat DEF Manifests, Seqs
<1>4. file \in [Firsts -> Files]
  BY DEF TypeOK, Files
<1>5. hist \in Histories /\ owed \in Histories /\ undo.hist \in Histories
      /\ undo.floor \in Seqs /\ seq \in Seqs /\ peak \in Seqs /\ floor \in Seqs
  BY DEF TypeOK, Histories
<1>6. Owing \in Histories
  BY <1>5 DEF Owing, Upsert, Histories
<1> QED
  BY <1>1, <1>2, <1>3, <1>4, <1>5, <1>6, MaxSeqNat DEF TypeOK, Seqs

(* A change of a directory that leaves the manifest.                       *)
Relinked ==
    /\ images' \subseteq Metas
    /\ meta' \in images'
    /\ meta'.man = meta.man
    /\ \A m \in images' : \E b \in images : b.man = m.man
    /\ journalled => images' \subseteq images \cup {meta'}

(* A file is created.                                                      *)
LEMMA LinkIs ==
    ASSUME TypeOK, NEW n \in Firsts, Link(n)
    PROVE  /\ Relinked
           /\ meta'.names = meta.names \cup {n} /\ meta'.cks = meta.cks
<1> DEFINE With(m) == [m EXCEPT !.names = @ \cup {n}]
<1>1. meta' = With(meta) /\ images' = images \cup {With(m) : m \in Bases}
  BY DEF Link
<1>2. \A m \in Metas : /\ With(m) \in Metas /\ With(m).man = m.man
                       /\ With(m).cks = m.cks /\ With(m).names = m.names \cup {n}
  BY DEF Metas
<1>3. /\ images \subseteq Metas /\ meta \in images
      /\ meta \in Bases /\ Bases \subseteq images /\ (journalled => Bases = {meta})
  BY DEF TypeOK, Bases
<1> HIDE DEF With
<1>4. With(meta) \in images' /\ images' \subseteq Metas
  BY <1>1, <1>2, <1>3
<1>5. \A m \in images' : \E b \in images : b.man = m.man
  BY <1>1, <1>2, <1>3
<1> QED
  BY <1>1, <1>2, <1>3, <1>4, <1>5 DEF Relinked

(* A file is unlinked.                                                     *)
LEMMA UnlinkIs ==
    ASSUME TypeOK, NEW n, Unlink(n)
    PROVE  /\ Relinked
           /\ meta'.names = meta.names \ {n} /\ meta'.cks = meta.cks
<1> DEFINE Without(m) == [m EXCEPT !.names = @ \ {n}]
<1>1. meta' = Without(meta) /\ images' = images \cup {Without(m) : m \in Bases}
  BY DEF Unlink
<1>2. \A m \in Metas : /\ Without(m) \in Metas /\ Without(m).man = m.man
                       /\ Without(m).cks = m.cks
                       /\ Without(m).names = m.names \ {n}
  BY DEF Metas
<1>3. /\ images \subseteq Metas /\ meta \in images
      /\ meta \in Bases /\ Bases \subseteq images /\ (journalled => Bases = {meta})
  BY DEF TypeOK, Bases
<1> HIDE DEF Without
<1>4. Without(meta) \in images' /\ images' \subseteq Metas
  BY <1>1, <1>2, <1>3
<1>5. \A m \in images' : \E b \in images : b.man = m.man
  BY <1>1, <1>2, <1>3
<1> QED
  BY <1>1, <1>2, <1>3, <1>4, <1>5 DEF Relinked

(* A checkpoint is renamed to its place.                                   *)
LEMMA LinkCheckpointIs ==
    ASSUME TypeOK, NEW c \in Checkpoints, LinkCheckpoint(c)
    PROVE  /\ Relinked
           /\ meta'.names = meta.names
           /\ meta'.cks = {d \in meta.cks : d.gen # c.gen} \cup {c}
<1> DEFINE With(m) == [m EXCEPT !.cks = {d \in m.cks : d.gen # c.gen} \cup {c}]
<1>1. meta' = With(meta) /\ images' = images \cup {With(m) : m \in Bases}
  BY DEF LinkCheckpoint
<1>2. \A m \in Metas : /\ With(m) \in Metas /\ With(m).man = m.man
                       /\ With(m).names = m.names
                       /\ With(m).cks = {d \in m.cks : d.gen # c.gen} \cup {c}
  BY DEF Metas
<1>3. /\ images \subseteq Metas /\ meta \in images
      /\ meta \in Bases /\ Bases \subseteq images /\ (journalled => Bases = {meta})
  BY DEF TypeOK, Bases
<1> HIDE DEF With
<1>4. With(meta) \in images' /\ images' \subseteq Metas
  BY <1>1, <1>2, <1>3
<1>5. \A m \in images' : \E b \in images : b.man = m.man
  BY <1>1, <1>2, <1>3
<1> QED
  BY <1>1, <1>2, <1>3, <1>4, <1>5 DEF Relinked

(* A checkpoint is unlinked.                                               *)
LEMMA UnlinkCheckpointIs ==
    ASSUME TypeOK, NEW c, UnlinkCheckpoint(c)
    PROVE  /\ Relinked
           /\ meta'.names = meta.names /\ meta'.cks = meta.cks \ {c}
<1> DEFINE Without(m) == [m EXCEPT !.cks = @ \ {c}]
<1>1. meta' = Without(meta) /\ images' = images \cup {Without(m) : m \in Bases}
  BY DEF UnlinkCheckpoint
<1>2. \A m \in Metas : /\ Without(m) \in Metas /\ Without(m).man = m.man
                       /\ Without(m).names = m.names
                       /\ Without(m).cks = m.cks \ {c}
  BY DEF Metas
<1>3. /\ images \subseteq Metas /\ meta \in images
      /\ meta \in Bases /\ Bases \subseteq images /\ (journalled => Bases = {meta})
  BY DEF TypeOK, Bases
<1> HIDE DEF Without
<1>4. Without(meta) \in images' /\ images' \subseteq Metas
  BY <1>1, <1>2, <1>3
<1>5. \A m \in images' : \E b \in images : b.man = m.man
  BY <1>1, <1>2, <1>3
<1> QED
  BY <1>1, <1>2, <1>3, <1>4, <1>5 DEF Relinked

(* Syncs, and steps that leave the directories alone.                      *)
LEMMA SyncIs ==
    ASSUME TypeOK, SyncWal \/ SyncRoot \/ UNCHANGED <<meta, images>>
    PROVE  /\ Relinked /\ meta' = meta
           /\ images' \subseteq images
           /\ SyncRoot => \A m \in images' : m.man = meta.man
<1>1. images \subseteq Metas /\ meta \in images
  BY DEF TypeOK
<1>2. meta' = meta /\ images' \subseteq images /\ meta' \in images'
  BY <1>1 DEF SyncWal, SyncRoot
<1>3. SyncRoot => \A m \in images' : m.man = meta.man
  BY DEF SyncRoot
<1> QED
  BY <1>1, <1>2, <1>3 DEF Relinked

(* Manifests stay good while files only grow and no more is owed.          *)
LEMMA DiskStep ==
    ASSUME TypeOK, DiskInv,
           \A m \in images' : \E b \in images : b.man = m.man,
           meta'.man = meta.man \/ images' = {meta'},
           file' \in [Firsts -> Files],
           \A n \in Firsts : GoodFile(file', n),
           \A m \in images : Kept(file, file', OpenOf(m.man.segs)),
           Grown(file, file'),
           Owing' \in Histories, \A t \in Tags : Owing'[t] <= Owing[t],
           peak' = peak, owed' = owed
    PROVE  DiskInv' /\ (Agree => Agree')
<1>1. ASSUME NEW m \in images'
      PROVE  GoodManifest(file', Owing', peak, m.man)
  <2>1. PICK b \in images : b.man = m.man
    OBVIOUS
  <2>2. b.man \in Manifests /\ GoodManifest(file, Owing, peak, b.man)
        /\ Kept(file, file', OpenOf(b.man.segs))
    BY TypeFacts DEF DiskInv
  <2>3. \A n \in Firsts : file[n].synced <= Len(file[n].recs)
    BY DEF DiskInv, GoodFile
  <2>4. /\ Owing \in [Tags -> Nat] /\ Owing' \in [Tags -> Nat]
        /\ peak \in Nat /\ file \in [Firsts -> Files]
    BY TypeFacts, MaxSeqNat DEF Histories, Seqs
  <2>5. GoodManifest(file', Owing', peak, b.man)
    BY <2>2, <2>3, <2>4, ManifestKept
  <2> QED
    BY <2>1, <2>5
<1>2. Agree => Agree'
  BY DEF Agree
<1>3. CASE meta'.man = meta.man
  BY <1>1, <1>2, <1>3 DEF DiskInv
<1>4. CASE images' = {meta'}
  <2>1. Agree'
    BY <1>4 DEF Agree
  <2> QED
    BY <1>1, <1>2, <2>1 DEF DiskInv
<1> QED
  BY <1>3, <1>4

(* The files are as they were.                                             *)
LEMMA DiskSame ==
    ASSUME TypeOK, DiskInv, Relinked, file' = file,
           Owing' = Owing, peak' = peak, owed' = owed
    PROVE  DiskInv' /\ (Agree => Agree')
<1>1. \A o : Kept(file, file, o)
  BY TypeFacts DEF Kept, Files
<1>2. Grown(file, file)
  BY TypeFacts DEF Grown, Files
<1>3. Owing \in Histories /\ file \in [Firsts -> Files]
      /\ \A n \in Firsts : GoodFile(file, n)
  BY TypeFacts DEF DiskInv
<1>4. \A t \in Tags : Owing[t] <= Owing[t]
  BY <1>3, MaxSeqNat DEF Histories, Seqs
<1> QED
  BY <1>1, <1>2, <1>3, <1>4, DiskStep DEF Relinked

(* On a journal, manifests stay complete if the newest one does.           *)
LEMMA JournalStep ==
    ASSUME JournalInv, Relinked, journalled' = journalled,
           Complete(meta) => Complete(meta'), meta \in images
    PROVE  JournalInv'
BY DEF JournalInv, Relinked

(***************************************************************************)
(* The steps, one by one                                                   *)
(***************************************************************************)
(* The open segment in memory.                                             *)
LEMMA ActiveFacts ==
    ASSUME TypeOK
    PROVE  /\ Len(segments) \in Nat \ {0}
           /\ Active \in Segments /\ Active.first = OpenOf(segments)
           /\ Active.first \in Firsts /\ Active.first \in Nat
           /\ Active.bytes \in Nat /\ Active.last \in Nat
           /\ file[Active.first] \in Files
           /\ file[Active.first].recs \in Seq(Records)
           /\ Len(file[Active.first].recs) \in Nat
           /\ file[Active.first].synced \in Nat
           /\ next_seq \in Nat
<1>1. segments \in Seq(Segments) /\ segments # <<>> /\ next_seq \in Firsts
  BY DEF TypeOK
<1>2. Len(segments) \in Nat \ {0} /\ Active \in Segments
  BY <1>1 DEF Active
<1>3. \A s \in Segments : /\ s.first \in Firsts /\ s.bytes \in Nat
                          /\ s.last \in Nat
  BY MaxSeqNat DEF Segments, Seqs
<1>4. \A n \in Firsts : n \in Nat
  BY MaxSeqNat DEF Firsts
<1>5. file \in [Firsts -> Files]
  BY TypeFacts
<1>6. \A f \in Files : /\ f.recs \in Seq(Records) /\ Len(f.recs) \in Nat
                       /\ f.synced \in Nat
  BY DEF Files
<1>7. Active.first = OpenOf(segments)
  BY <1>1 DEF Active, OpenOf
<1> QED
  BY <1>1, <1>2, <1>3, <1>4, <1>5, <1>6, <1>7

(* A start begins.                                                         *)
LEMMA StartKeeps ==
    ASSUME WalInv, Start
    PROVE  WalInv'
<1>1. /\ TypeOK /\ DiskInv /\ JournalInv /\ MemoryInv
      /\ op \in {"recover", "append", "tidy"}
  BY DEF WalInv, TypeOK
<1>2. /\ pc = "off" /\ pc' = "load"
      /\ meta' = meta /\ images' = images /\ removed' = removed
      /\ UNCHANGED <<journalled, file, next_seq, generation, checkpoint>>
      /\ UNCHANGED <<segments, fd, degraded, seq, hist, floor, undo>>
      /\ UNCHANGED <<op, batch, newck, collected, owed, peak>>
  BY DEF Start, diskVars, walVars, mapVars, callVars, ghostVars
<1>3. TypeOK'
  BY <1>1, <1>2 DEF TypeOK, Steps
<1>4. Owing' = Owing
  BY <1>2 DEF Owing
<1>5. DiskInv' /\ (Agree => Agree')
  <2>1. Relinked /\ file' = file /\ peak' = peak /\ owed' = owed
    BY <1>1, <1>2 DEF Relinked, TypeOK
  <2> QED
    BY <1>1, <1>4, <2>1, DiskSame
<1>6. JournalInv'
  BY <1>1, <1>2 DEF JournalInv
<1>7. OpInv'
  BY <1>1, <1>2 DEF MemoryInv, OpInv, Live, Booting, Loaded, Creating,
     Rotating, Appending, Writing, Installing
<1>8. BootInv'
  BY <1>1, <1>2 DEF MemoryInv, BootInv, Fresh, AsRead, Booting, Loaded
<1>9. LogInv'
  BY <1>1, <1>2 DEF MemoryInv, LogInv, Active, Live, Booting, Loaded,
     Creating, Rotating, Appending, Writing, Installing
<1>10. OpenInv'
  BY <1>1, <1>2 DEF MemoryInv, OpInv, OpenInv, Active, Live, Booting, Loaded,
     Creating, Rotating, Appending, Writing, Installing
<1>11. HandleInv'
  BY <1>1, <1>2 DEF MemoryInv, HandleInv, Active, Live, Booting, Loaded,
     Creating, Rotating, Appending, Writing, Installing
<1>12. PublishedInv'
  BY <1>1, <1>2 DEF MemoryInv, PublishedInv, Fresh, Live, Booting, Loaded,
     Creating, Rotating, Appending, Writing, Installing
<1>13. AgreeInv'
  BY <1>1, <1>2, <1>5 DEF MemoryInv, OpInv, AgreeInv, Live, Booting, Loaded,
     Creating, Rotating, Appending, Writing, Installing
<1>14. SnapshotInv'
  BY <1>1, <1>2 DEF MemoryInv, OpInv, SnapshotInv, Live, Booting, Loaded,
     Creating, Rotating, Appending, Writing, Installing
<1>15. HistoryInv'
  BY <1>1, <1>2, <1>4 DEF MemoryInv, OpInv, HistoryInv, Up, Live, Booting,
     Loaded, Creating, Rotating, Appending, Writing, Installing
<1> QED
  BY <1>3, <1>5, <1>6, <1>7, <1>8, <1>9, <1>10, <1>11, <1>12, <1>13, <1>14,
     <1>15 DEF WalInv, MemoryInv

(* A purge looks whether its record fits the open segment.                 *)
LEMMA MakeRoomKeeps ==
    ASSUME WalInv, MakeRoom
    PROVE  WalInv'
<1>1. /\ TypeOK /\ DiskInv /\ JournalInv /\ MemoryInv
      /\ op \in {"recover", "append", "tidy"}
  BY DEF WalInv, TypeOK
<1>2. /\ pc = "room" /\ pc' \in {"rotate", "write"}
      /\ pc' = "rotate" => Active.bytes > 0
      /\ meta' = meta /\ images' = images /\ removed' = removed
      /\ UNCHANGED <<journalled, file, next_seq, generation, checkpoint>>
      /\ UNCHANGED <<segments, fd, degraded, seq, hist, floor, undo>>
      /\ UNCHANGED <<op, batch, newck, collected, owed, peak>>
  BY DEF MakeRoom, diskVars, walVars, mapVars, callVars, ghostVars
<1>3. op = "append" /\ ~degraded
  BY <1>1, <1>2 DEF MemoryInv, OpInv, Live, Booting, Loaded, Creating,
     Rotating, Appending, Writing, Installing
<1>4. pc' = "rotate" => file[Active.first].recs # <<>>
  BY <1>1, <1>2, <1>3, ActiveFacts DEF MemoryInv, LogInv, BytesOf, Live,
     Booting, Loaded, Creating, Rotating, Appending, Writing, Installing
<1>5. TypeOK'
  BY <1>1, <1>2 DEF TypeOK, Steps
<1>6. Owing' = Owing
  BY <1>2 DEF Owing
<1>7. DiskInv' /\ (Agree => Agree')
  <2>1. Relinked /\ file' = file /\ peak' = peak /\ owed' = owed
    BY <1>1, <1>2 DEF Relinked, TypeOK
  <2> QED
    BY <1>1, <1>6, <2>1, DiskSame
<1>8. JournalInv'
  BY <1>1, <1>2 DEF JournalInv
<1>9. OpInv'
  BY <1>1, <1>2 DEF MemoryInv, OpInv, Live, Booting, Loaded, Creating,
     Rotating, Appending, Writing, Installing
<1>10. BootInv'
  BY <1>1, <1>2 DEF MemoryInv, BootInv, Fresh, AsRead, Booting, Loaded
<1>11. LogInv'
  BY <1>1, <1>2 DEF MemoryInv, LogInv, Active, Live, Booting, Loaded,
     Creating, Rotating, Appending, Writing, Installing
<1>12. OpenInv'
  BY <1>1, <1>2, <1>3, <1>4 DEF MemoryInv, OpInv, OpenInv, Active, Live,
     Booting, Loaded, Creating, Rotating, Appending, Writing, Installing
<1>13. HandleInv'
  BY <1>1, <1>2 DEF MemoryInv, HandleInv, Active, Live, Booting, Loaded,
     Creating, Rotating, Appending, Writing, Installing
<1>14. PublishedInv'
  BY <1>1, <1>2 DEF MemoryInv, PublishedInv, Fresh, Live, Booting, Loaded,
     Creating, Rotating, Appending, Writing, Installing
<1>15. AgreeInv'
  BY <1>1, <1>2, <1>7 DEF MemoryInv, OpInv, AgreeInv, Live, Booting, Loaded,
     Creating, Rotating, Appending, Writing, Installing
<1>16. SnapshotInv'
  BY <1>1, <1>2, <1>3 DEF MemoryInv, OpInv, SnapshotInv, Live, Booting,
     Loaded, Creating, Rotating, Appending, Writing, Installing
<1>17. HistoryInv'
  BY <1>1, <1>2, <1>6 DEF MemoryInv, OpInv, HistoryInv, Up, Live, Booting,
     Loaded, Creating, Rotating, Appending, Writing, Installing
<1> QED
  BY <1>5, <1>7, <1>8, <1>9, <1>10, <1>11, <1>12, <1>13, <1>14, <1>15, <1>16,
     <1>17 DEF WalInv, MemoryInv

(* No orphan is left.                                                      *)
LEMMA OrphansGoneKeeps ==
    ASSUME WalInv, OrphansGone
    PROVE  WalInv'
<1>1. /\ TypeOK /\ DiskInv /\ JournalInv /\ MemoryInv
      /\ op \in {"recover", "append", "tidy"}
  BY DEF WalInv, TypeOK
<1>2. /\ pc = "gc" /\ pc' \in {"gcWal", "replay"} /\ removed' = FALSE
      /\ meta' = meta /\ images' = images
      /\ UNCHANGED <<journalled, file, next_seq, generation, checkpoint>>
      /\ UNCHANGED <<segments, fd, degraded, seq, hist, floor, undo>>
      /\ UNCHANGED <<op, batch, newck, collected, owed, peak>>
  BY DEF OrphansGone, diskVars, walVars, mapVars, callVars, ghostVars
<1>3. TypeOK'
  BY <1>1, <1>2 DEF TypeOK, Steps
<1>4. Owing' = Owing
  BY <1>2 DEF Owing
<1>5. DiskInv' /\ (Agree => Agree')
  <2>1. Relinked /\ file' = file /\ peak' = peak /\ owed' = owed
    BY <1>1, <1>2 DEF Relinked, TypeOK
  <2> QED
    BY <1>1, <1>4, <2>1, DiskSame
<1>6. JournalInv'
  BY <1>1, <1>2 DEF JournalInv
<1>7. OpInv'
  BY <1>1, <1>2 DEF MemoryInv, OpInv, Live, Booting, Loaded, Creating,
     Rotating, Appending, Writing, Installing
<1>8. BootInv'
  <2>1. meta.man = NoManifest => meta'.names = {}
    BY <1>2 DEF OrphansGone, OrphanSegments
  <2> QED
    BY <1>1, <1>2, <2>1 DEF MemoryInv, BootInv, Fresh, AsRead, Booting, Loaded
<1>9. LogInv'
  BY <1>1, <1>2 DEF MemoryInv, LogInv, Active, Live, Booting, Loaded,
     Creating, Rotating, Appending, Writing, Installing
<1>10. OpenInv'
  BY <1>1, <1>2 DEF MemoryInv, OpInv, OpenInv, Active, Live, Booting, Loaded,
     Creating, Rotating, Appending, Writing, Installing
<1>11. HandleInv'
  BY <1>1, <1>2 DEF MemoryInv, HandleInv, Active, Live, Booting, Loaded,
     Creating, Rotating, Appending, Writing, Installing
<1>12. PublishedInv'
  BY <1>1, <1>2 DEF MemoryInv, PublishedInv, Fresh, Live, Booting, Loaded,
     Creating, Rotating, Appending, Writing, Installing
<1>13. AgreeInv'
  BY <1>1, <1>2, <1>5 DEF MemoryInv, OpInv, AgreeInv, Live, Booting, Loaded,
     Creating, Rotating, Appending, Writing, Installing
<1>14. SnapshotInv'
  BY <1>1, <1>2 DEF MemoryInv, OpInv, SnapshotInv, Live, Booting, Loaded,
     Creating, Rotating, Appending, Writing, Installing
<1>15. HistoryInv'
  BY <1>1, <1>2, <1>4 DEF MemoryInv, OpInv, HistoryInv, Up, Live, Booting,
     Loaded, Creating, Rotating, Appending, Writing, Installing
<1> QED
  BY <1>3, <1>5, <1>6, <1>7, <1>8, <1>9, <1>10, <1>11, <1>12, <1>13, <1>14,
     <1>15 DEF WalInv, MemoryInv

(* A directory without a manifest is loaded.                               *)
LEMMA LoadNothingKeeps ==
    ASSUME WalInv, LoadNothing
    PROVE  WalInv'
<1>1. /\ TypeOK /\ DiskInv /\ JournalInv /\ MemoryInv
      /\ op \in {"recover", "append", "tidy"}
  BY DEF WalInv, TypeOK
<1>2. /\ pc = "load" /\ pc' \in {"gc", "refused"} /\ meta.man = NoManifest
      /\ pc' = "gc" \/ \E n \in meta.names : file[n].recs # <<>>
      /\ meta' = meta /\ images' = images /\ removed' = removed
      /\ UNCHANGED <<journalled, file, next_seq, generation, checkpoint>>
      /\ UNCHANGED <<segments, fd, degraded, seq, hist, floor, undo>>
      /\ UNCHANGED <<op, batch, newck, collected, owed, peak>>
  BY DEF LoadNothing, diskVars, walVars, mapVars, callVars, ghostVars
<1>3. pc' = "gc"
  <2>1. GoodManifest(file, Owing, peak, meta.man) /\ meta.names \subseteq Firsts
    BY <1>1, TypeFacts DEF DiskInv
  <2>2. file \in [Firsts -> Files] /\ Owing \in [Tags -> Nat] /\ peak \in Nat
        /\ meta.man \in Manifests
    BY <1>1, TypeFacts, MaxSeqNat DEF Histories, Seqs
  <2>3. \A n \in Firsts : file[n] = EmptyFile
    BY <1>2, <2>1, <2>2, ManifestCases
  <2> QED
    BY <1>2, <2>1, <2>3 DEF EmptyFile
<1>4. TypeOK'
  BY <1>1, <1>2 DEF TypeOK, Steps
<1>5. Owing' = Owing
  BY <1>2, <1>3 DEF Owing
<1>6. DiskInv' /\ (Agree => Agree')
  <2>1. Relinked /\ file' = file /\ peak' = peak /\ owed' = owed
    BY <1>1, <1>2 DEF Relinked, TypeOK
  <2> QED
    BY <1>1, <1>5, <2>1, DiskSame
<1>7. JournalInv'
  BY <1>1, <1>2 DEF JournalInv
<1>8. OpInv'
  BY <1>1, <1>2, <1>3 DEF MemoryInv, OpInv, Live, Booting, Loaded, Creating,
     Rotating, Appending, Writing, Installing
<1>9. BootInv'
  BY <1>1, <1>2, <1>3 DEF MemoryInv, BootInv, Fresh, AsRead, Booting, Loaded
<1>10. LogInv'
  BY <1>1, <1>2, <1>3 DEF MemoryInv, LogInv, Active, Live, Booting, Loaded,
     Creating, Rotating, Appending, Writing, Installing
<1>11. OpenInv'
  BY <1>1, <1>2, <1>3 DEF MemoryInv, OpInv, OpenInv, Active, Live, Booting,
     Loaded, Creating, Rotating, Appending, Writing, Installing
<1>12. HandleInv'
  BY <1>1, <1>2, <1>3 DEF MemoryInv, HandleInv, Active, Live, Booting, Loaded,
     Creating, Rotating, Appending, Writing, Installing
<1>13. PublishedInv'
  BY <1>1, <1>2, <1>3 DEF MemoryInv, PublishedInv, Fresh, Live, Booting,
     Loaded, Creating, Rotating, Appending, Writing, Installing
<1>14. AgreeInv'
  BY <1>1, <1>2, <1>3, <1>6 DEF MemoryInv, OpInv, AgreeInv, Live, Booting,
     Loaded, Creating, Rotating, Appending, Writing, Installing
<1>15. SnapshotInv'
  BY <1>1, <1>2, <1>3 DEF MemoryInv, OpInv, SnapshotInv, Live, Booting,
     Loaded, Creating, Rotating, Appending, Writing, Installing
<1>16. HistoryInv'
  BY <1>1, <1>2, <1>3, <1>5 DEF MemoryInv, OpInv, HistoryInv, Up, Live,
     Booting, Loaded, Creating, Rotating, Appending, Writing, Installing
<1> QED
  BY <1>4, <1>6, <1>7, <1>8, <1>9, <1>10, <1>11, <1>12, <1>13, <1>14, <1>15,
     <1>16 DEF WalInv, MemoryInv

(* The unlinked orphans are synced away.                                   *)
LEMMA SyncOrphansKeeps ==
    ASSUME WalInv, SyncOrphans
    PROVE  WalInv'
<1>1. /\ TypeOK /\ DiskInv /\ JournalInv /\ MemoryInv
      /\ op \in {"recover", "append", "tidy"}
  BY DEF WalInv, TypeOK
<1>2. /\ pc \in {"gcWal", "gcRoot"} /\ pc' \in {"gcRoot", "replay"}
      /\ Relinked /\ meta' = meta /\ removed' = removed
      /\ UNCHANGED <<journalled, file, next_seq, generation, checkpoint>>
      /\ UNCHANGED <<segments, fd, degraded, seq, hist, floor, undo>>
      /\ UNCHANGED <<op, batch, newck, collected, owed, peak>>
  BY <1>1, SyncIs DEF SyncOrphans, Prepared, diskVars, walVars, mapVars,
     callVars, ghostVars
<1>3. TypeOK'
  BY <1>1, <1>2 DEF TypeOK, Steps, Relinked
<1>4. Owing' = Owing
  BY <1>2 DEF Owing
<1>5. DiskInv' /\ (Agree => Agree')
  <2>1. Relinked /\ file' = file /\ peak' = peak /\ owed' = owed
    BY <1>2
  <2> QED
    BY <1>1, <1>4, <2>1, DiskSame
<1>6. JournalInv'
  BY <1>1, <1>2, JournalStep DEF TypeOK
<1>7. OpInv'
  BY <1>1, <1>2 DEF MemoryInv, OpInv, Live, Booting, Loaded, Creating,
     Rotating, Appending, Writing, Installing
<1>8. BootInv'
  BY <1>1, <1>2 DEF MemoryInv, BootInv, Fresh, AsRead, Booting, Loaded
<1>9. LogInv'
  BY <1>1, <1>2 DEF MemoryInv, LogInv, Active, Live, Booting, Loaded,
     Creating, Rotating, Appending, Writing, Installing
<1>10. OpenInv'
  BY <1>1, <1>2 DEF MemoryInv, OpInv, OpenInv, Active, Live, Booting, Loaded,
     Creating, Rotating, Appending, Writing, Installing
<1>11. HandleInv'
  BY <1>1, <1>2 DEF MemoryInv, HandleInv, Active, Live, Booting, Loaded,
     Creating, Rotating, Appending, Writing, Installing
<1>12. PublishedInv'
  BY <1>1, <1>2 DEF MemoryInv, PublishedInv, Fresh, Live, Booting, Loaded,
     Creating, Rotating, Appending, Writing, Installing
<1>13. AgreeInv'
  BY <1>1, <1>2, <1>5 DEF MemoryInv, OpInv, AgreeInv, Live, Booting, Loaded,
     Creating, Rotating, Appending, Writing, Installing
<1>14. SnapshotInv'
  BY <1>1, <1>2 DEF MemoryInv, OpInv, SnapshotInv, Live, Booting, Loaded,
     Creating, Rotating, Appending, Writing, Installing
<1>15. HistoryInv'
  BY <1>1, <1>2, <1>4 DEF MemoryInv, OpInv, HistoryInv, Up, Live, Booting,
     Loaded, Creating, Rotating, Appending, Writing, Installing
<1> QED
  BY <1>3, <1>5, <1>6, <1>7, <1>8, <1>9, <1>10, <1>11, <1>12, <1>13, <1>14,
     <1>15 DEF WalInv, MemoryInv

(* The directory of a first or new segment is synced.                      *)
LEMMA SyncNewSegmentKeeps ==
    ASSUME WalInv, SyncNewSegment
    PROVE  WalInv'
<1>1. /\ TypeOK /\ DiskInv /\ JournalInv /\ MemoryInv
      /\ op \in {"recover", "append", "tidy"}
  BY DEF WalInv, TypeOK
<1>2. /\ \/ pc = "prepWal" /\ pc' = "prepRename"
         \/ pc = "rotWal" /\ pc' = "rotRename"
      /\ Relinked /\ meta' = meta /\ removed' = removed
      /\ UNCHANGED <<journalled, file, next_seq, generation, checkpoint>>
      /\ UNCHANGED <<segments, fd, degraded, seq, hist, floor, undo>>
      /\ UNCHANGED <<op, batch, newck, collected, owed, peak>>
  BY <1>1, SyncIs DEF SyncNewSegment, Prepared, diskVars, walVars, mapVars,
     callVars, ghostVars
<1>3. TypeOK'
  BY <1>1, <1>2 DEF TypeOK, Steps, Relinked
<1>4. Owing' = Owing
  BY <1>2 DEF Owing
<1>5. DiskInv' /\ (Agree => Agree')
  <2>1. Relinked /\ file' = file /\ peak' = peak /\ owed' = owed
    BY <1>2
  <2> QED
    BY <1>1, <1>4, <2>1, DiskSame
<1>6. JournalInv'
  BY <1>1, <1>2, JournalStep DEF TypeOK
<1>7. OpInv'
  BY <1>1, <1>2 DEF MemoryInv, OpInv, Live, Booting, Loaded, Creating,
     Rotating, Appending, Writing, Installing
<1>8. BootInv'
  BY <1>1, <1>2 DEF MemoryInv, BootInv, Fresh, AsRead, Booting, Loaded
<1>9. LogInv'
  BY <1>1, <1>2 DEF MemoryInv, LogInv, Active, Live, Booting, Loaded,
     Creating, Rotating, Appending, Writing, Installing
<1>10. OpenInv'
  BY <1>1, <1>2 DEF MemoryInv, OpInv, OpenInv, Active, Live, Booting, Loaded,
     Creating, Rotating, Appending, Writing, Installing
<1>11. HandleInv'
  BY <1>1, <1>2 DEF MemoryInv, HandleInv, Active, Live, Booting, Loaded,
     Creating, Rotating, Appending, Writing, Installing
<1>12. PublishedInv'
  BY <1>1, <1>2 DEF MemoryInv, PublishedInv, Fresh, Live, Booting, Loaded,
     Creating, Rotating, Appending, Writing, Installing
<1>13. AgreeInv'
  BY <1>1, <1>2, <1>5 DEF MemoryInv, OpInv, AgreeInv, Live, Booting, Loaded,
     Creating, Rotating, Appending, Writing, Installing
<1>14. SnapshotInv'
  BY <1>1, <1>2 DEF MemoryInv, OpInv, SnapshotInv, Live, Booting, Loaded,
     Creating, Rotating, Appending, Writing, Installing
<1>15. HistoryInv'
  BY <1>1, <1>2, <1>4 DEF MemoryInv, OpInv, HistoryInv, Up, Live, Booting,
     Loaded, Creating, Rotating, Appending, Writing, Installing
<1> QED
  BY <1>3, <1>5, <1>6, <1>7, <1>8, <1>9, <1>10, <1>11, <1>12, <1>13, <1>14,
     <1>15 DEF WalInv, MemoryInv

(* A renamed manifest is synced: every manifest agrees with it.            *)
LEMMA SyncManifestKeeps ==
    ASSUME WalInv, SyncManifest
    PROVE  WalInv'
<1>1. /\ TypeOK /\ DiskInv /\ JournalInv /\ MemoryInv
      /\ op \in {"recover", "append", "tidy"}
  BY DEF WalInv, TypeOK
<1>2. /\ \/ pc = "prepRoot" /\ pc' = Prepared
         \/ pc = "rotRoot" /\ pc' = IF op = "append" THEN "write" ELSE "ckInstall"
         \/ pc = "ckPublish" /\ pc' = "ckUnlink"
      /\ \A m \in images' : m.man = meta.man
      /\ Relinked /\ meta' = meta /\ removed' = removed
      /\ UNCHANGED <<journalled, file, next_seq, generation, checkpoint>>
      /\ UNCHANGED <<segments, fd, degraded, seq, hist, floor, undo>>
      /\ UNCHANGED <<op, batch, newck, collected, owed, peak>>
  BY <1>1, SyncIs DEF SyncManifest, Prepared, diskVars, walVars, mapVars,
     callVars, ghostVars
<1>3. pc = "prepRoot" => op = "recover" /\ pc' = "ckWrite"
  BY <1>1, <1>2 DEF MemoryInv, OpInv, Prepared, Live, Booting, Loaded,
     Creating, Rotating, Appending, Writing, Installing
<1>4. TypeOK'
  BY <1>1, <1>2, <1>3 DEF TypeOK, Steps, Relinked
<1>5. Owing' = Owing
  BY <1>2, <1>3 DEF Owing
<1>6. DiskInv' /\ (Agree => Agree')
  <2>1. Relinked /\ file' = file /\ peak' = peak /\ owed' = owed
    BY <1>2
  <2> QED
    BY <1>1, <1>5, <2>1, DiskSame
<1>7. JournalInv'
  BY <1>1, <1>2, JournalStep DEF TypeOK
<1>8. OpInv'
  BY <1>1, <1>2, <1>3 DEF MemoryInv, OpInv, Live, Booting, Loaded, Creating,
     Rotating, Appending, Writing, Installing
<1>9. BootInv'
  BY <1>1, <1>2, <1>3 DEF MemoryInv, BootInv, Fresh, AsRead, Booting, Loaded
<1>10. LogInv'
  BY <1>1, <1>2, <1>3 DEF MemoryInv, LogInv, Active, Live, Booting, Loaded,
     Creating, Rotating, Appending, Writing, Installing
<1>11. OpenInv'
  BY <1>1, <1>2, <1>3 DEF MemoryInv, OpInv, OpenInv, Active, Live, Booting,
     Loaded, Creating, Rotating, Appending, Writing, Installing
<1>12. HandleInv'
  BY <1>1, <1>2, <1>3 DEF MemoryInv, HandleInv, Active, Live, Booting, Loaded,
     Creating, Rotating, Appending, Writing, Installing
<1>13. PublishedInv'
  BY <1>1, <1>2, <1>3 DEF MemoryInv, PublishedInv, Fresh, Live, Booting,
     Loaded, Creating, Rotating, Appending, Writing, Installing
<1>14. AgreeInv'
  BY <1>2 DEF AgreeInv, Agree
<1>15. SnapshotInv'
  BY <1>1, <1>2, <1>3 DEF MemoryInv, OpInv, SnapshotInv, Live, Booting,
     Loaded, Creating, Rotating, Appending, Writing, Installing
<1>16. HistoryInv'
  BY <1>1, <1>2, <1>5, <1>3 DEF MemoryInv, OpInv, HistoryInv, Up, Live,
     Booting, Loaded, Creating, Rotating, Appending, Writing, Installing
<1> QED
  BY <1>4, <1>6, <1>7, <1>8, <1>9, <1>10, <1>11, <1>12, <1>13, <1>14, <1>15,
     <1>16 DEF WalInv, MemoryInv

(* The directory of a new checkpoint is synced.                            *)
LEMMA SyncCheckpointKeeps ==
    ASSUME WalInv, SyncCheckpoint
    PROVE  WalInv'
<1>1. /\ TypeOK /\ DiskInv /\ JournalInv /\ MemoryInv
      /\ op \in {"recover", "append", "tidy"}
  BY DEF WalInv, TypeOK
<1>2. /\ pc = "ckRoot" /\ pc' = IF Active.bytes > 0 THEN "rotate" ELSE "ckInstall"
      /\ \A m \in images' : m.man = meta.man
      /\ Relinked /\ meta' = meta /\ removed' = removed
      /\ UNCHANGED <<journalled, file, next_seq, generation, checkpoint>>
      /\ UNCHANGED <<segments, fd, degraded, seq, hist, floor, undo>>
      /\ UNCHANGED <<op, batch, newck, collected, owed, peak>>
  BY <1>1, SyncIs DEF SyncCheckpoint, Prepared, diskVars, walVars, mapVars,
     callVars, ghostVars
<1>3. op # "append" /\ ~degraded
  BY <1>1, <1>2 DEF MemoryInv, OpInv, Live, Booting, Loaded, Creating,
     Rotating, Appending, Writing, Installing
<1>4. pc' = IF file[Active.first].recs = <<>> THEN "ckInstall" ELSE "rotate"
  <2> DEFINE recs == file[Active.first].recs
  <2>1. Active.bytes = BytesOf(recs) /\ recs \in Seq(Records) /\ Active.bytes \in Nat
    BY <1>1, <1>2, <1>3, ActiveFacts DEF MemoryInv, LogInv, Live, Booting,
       Loaded, Creating, Rotating, Appending, Writing, Installing
  <2>2. recs # <<>> => recs[Len(recs)].end > 0
    <3>1. GoodFile(file, Active.first)
      BY <1>1, ActiveFacts DEF DiskInv
    <3>2. recs # <<>> => Len(recs) \in 1 .. Len(recs)
      BY <2>1
    <3> QED
      BY <3>1, <3>2 DEF GoodFile
  <2> QED
    BY <1>2, <2>1, <2>2 DEF BytesOf
<1>5. TypeOK'
  BY <1>1, <1>2 DEF TypeOK, Steps, Relinked
<1>6. Owing' = Owing
  BY <1>2, <1>3 DEF Owing
<1>7. DiskInv' /\ (Agree => Agree')
  <2>1. Relinked /\ file' = file /\ peak' = peak /\ owed' = owed
    BY <1>2
  <2> QED
    BY <1>1, <1>6, <2>1, DiskSame
<1>8. JournalInv'
  BY <1>1, <1>2, JournalStep DEF TypeOK
<1>9. OpInv'
  BY <1>1, <1>2, <1>3, <1>4 DEF MemoryInv, OpInv, Live, Booting, Loaded,
     Creating, Rotating, Appending, Writing, Installing
<1>10. BootInv'
  BY <1>1, <1>2, <1>3, <1>4 DEF MemoryInv, BootInv, Fresh, AsRead, Booting,
     Loaded
<1>11. LogInv'
  BY <1>1, <1>2, <1>3, <1>4 DEF MemoryInv, LogInv, Active, Live, Booting,
     Loaded, Creating, Rotating, Appending, Writing, Installing
<1>12. OpenInv'
  BY <1>1, <1>2, <1>3, <1>4 DEF MemoryInv, OpInv, OpenInv, Active, Live,
     Booting, Loaded, Creating, Rotating, Appending, Writing, Installing
<1>13. HandleInv'
  BY <1>1, <1>2, <1>3, <1>4 DEF MemoryInv, HandleInv, Active, Live, Booting,
     Loaded, Creating, Rotating, Appending, Writing, Installing
<1>14. PublishedInv'
  BY <1>1, <1>2, <1>3, <1>4 DEF MemoryInv, PublishedInv, Fresh, Live, Booting,
     Loaded, Creating, Rotating, Appending, Writing, Installing
<1>15. AgreeInv'
  BY <1>2 DEF AgreeInv, Agree
<1>16. SnapshotInv'
  BY <1>1, <1>2, <1>3, <1>4 DEF MemoryInv, OpInv, SnapshotInv, Live, Booting,
     Loaded, Creating, Rotating, Appending, Writing, Installing
<1>17. HistoryInv'
  BY <1>1, <1>2, <1>6, <1>3, <1>4 DEF MemoryInv, OpInv, HistoryInv, Up, Live,
     Booting, Loaded, Creating, Rotating, Appending, Writing, Installing
<1> QED
  BY <1>5, <1>7, <1>8, <1>9, <1>10, <1>11, <1>12, <1>13, <1>14, <1>15, <1>16,
     <1>17 DEF WalInv, MemoryInv

(* The newest published sequence may rise as far as every disk has it.     *)
LEMMA DiskRaised ==
    ASSUME TypeOK, DiskInv, Relinked, file' = file, Owing' = Owing,
           peak' \in Nat,
           \A m \in images :
              \/ peak' = peak
              \/ m.man # NoManifest /\ peak' <= Reach(file, m.man.segs),
           \A t \in Tags : owed'[t] <= peak'
    PROVE  DiskInv' /\ (Agree => Agree')
<1>1. ASSUME NEW m \in images'
      PROVE  GoodManifest(file, Owing, peak', m.man)
  <2>1. PICK b \in images : b.man = m.man
    BY DEF Relinked
  <2>2. GoodManifest(file, Owing, peak, b.man)
    BY DEF DiskInv
  <2>3. CASE peak' = peak
    BY <2>1, <2>2, <2>3
  <2>4. CASE b.man # NoManifest /\ peak' <= Reach(file, b.man.segs)
    BY <2>1, <2>2, <2>4, ManifestCases DEF GoodManifest
  <2> QED
    BY <2>3, <2>4
<1>2. Agree => Agree'
  BY DEF Agree, Relinked
<1>3. \A n \in Firsts : GoodFile(file', n)
  BY DEF DiskInv
<1>4. \A m \in images' : GoodManifest(file', Owing', peak', m.man)
  BY <1>1
<1>5. Agree' \/ meta'.man.ck = NoCheckpoint \/ meta'.man.ck.wal < meta'.man.last
  BY <1>2 DEF DiskInv, Relinked
<1> QED
  BY <1>2, <1>3, <1>4, <1>5 DEF DiskInv

(* A directory without a manifest is replayed.                             *)
LEMMA ReplayNothingKeeps ==
    ASSUME WalInv, ReplayNothing
    PROVE  WalInv'
<1>1. /\ TypeOK /\ DiskInv /\ JournalInv /\ MemoryInv
      /\ op \in {"recover", "append", "tidy"}
  BY DEF WalInv, TypeOK
<1>2. /\ pc = "replay" /\ pc' = "prep" /\ meta.man = NoManifest
      /\ meta' = meta /\ images' = images /\ removed' = removed
      /\ UNCHANGED <<journalled, file, next_seq, generation, checkpoint>>
      /\ UNCHANGED <<segments, fd, degraded, seq, hist, floor, undo>>
      /\ UNCHANGED <<op, batch, newck, collected, owed, peak>>
  BY DEF ReplayNothing, diskVars, walVars, mapVars, callVars, ghostVars
<1>3. /\ \A n \in Firsts : file[n] = EmptyFile
      /\ peak = 0 /\ \A t \in Tags : owed[t] = 0
  <2>1. GoodManifest(file, Owing, peak, meta.man)
    BY <1>1 DEF DiskInv, TypeOK
  <2>2. Owing = owed
    BY <1>1, <1>2 DEF Owing, MemoryInv, OpInv, Live, Booting, Loaded,
       Creating, Rotating, Appending, Writing, Installing
  <2> QED
    BY <1>2, <2>1, <2>2, ManifestCases
<1>4. /\ op = "recover" /\ ~degraded /\ ~fd /\ seq = 0
      /\ hist = NoHistory /\ floor = 0
      /\ checkpoint = NoCheckpoint /\ segments = <<NewSegment(1)>>
      /\ next_seq = 1 /\ generation = 0
  BY <1>1, <1>2 DEF MemoryInv, OpInv, BootInv, Fresh, Live, Booting, Loaded,
     Creating, Rotating, Appending, Writing, Installing
<1>5. /\ Len(segments) = 1 /\ segments[1] = NewSegment(1)
      /\ Active = NewSegment(1) /\ Active.first = 1 /\ Active.bytes = 0
      /\ Active.last = 0 /\ 1 \in Firsts
      /\ file[Active.first].recs = <<>> /\ BytesOf(file[Active.first].recs) = 0
  BY <1>3, <1>4, MaxSeqNat DEF Active, NewSegment, EmptyFile, BytesOf, Firsts
<1>6. TypeOK'
  BY <1>1, <1>2 DEF TypeOK, Steps
<1>7. Owing' = Owing
  BY <1>2, <1>4 DEF Owing
<1>8. DiskInv' /\ (Agree => Agree')
  <2>1. Relinked /\ file' = file /\ peak' = peak /\ owed' = owed
    BY <1>1, <1>2 DEF Relinked, TypeOK
  <2> QED
    BY <1>1, <1>7, <2>1, DiskSame
<1>9. JournalInv'
  BY <1>1, <1>2 DEF JournalInv
<1>10. OpInv'
  BY <1>1, <1>2, <1>3, <1>4, <1>5 DEF MemoryInv, OpInv, Live, Booting, Loaded,
     Creating, Rotating, Appending, Writing, Installing
<1>11. BootInv'
  BY <1>1, <1>2, <1>3, <1>4, <1>5 DEF MemoryInv, BootInv, Fresh, AsRead,
     Booting, Loaded
<1>12. LogInv'
  <2>1. GoodCheckpoint(checkpoint)
    BY <1>4 DEF GoodCheckpoint, NoCheckpoint, NoHistory
  <2>2. Contiguous([ck |-> checkpoint, segs |-> segments])
    BY <1>4, <1>5 DEF Contiguous, NoCheckpoint, NewSegment
  <2>3. OpenOf(segments) = 1
    BY <1>1, <1>5, ActiveFacts
  <2>4. GoodLog(file, checkpoint, segments)
    BY <1>3, <1>5, <1>4, <2>1, <2>2, <2>3 DEF GoodLog, Firsts, NewSegment
  <2> QED
    BY <1>2, <1>4, <1>5, <2>4 DEF LogInv, Active
<1>13. OpenInv'
  BY <1>1, <1>2, <1>3, <1>4, <1>5 DEF MemoryInv, OpInv, OpenInv, Active, Live,
     Booting, Loaded, Creating, Rotating, Appending, Writing, Installing
<1>14. HandleInv'
  BY <1>1, <1>2, <1>3, <1>4, <1>5 DEF MemoryInv, HandleInv, Active, Live,
     Booting, Loaded, Creating, Rotating, Appending, Writing, Installing
<1>15. PublishedInv'
  <2>1. meta.names = {}
    BY <1>1, <1>2 DEF MemoryInv, BootInv, Booting, Loaded
  <2> QED
    BY <1>1, <1>2, <1>3, <1>4, <1>5, <2>1 DEF MemoryInv, PublishedInv, Fresh,
       Live, Booting, Loaded, Creating, Rotating, Appending, Writing,
       Installing
<1>16. AgreeInv'
  BY <1>1, <1>2, <1>8 DEF MemoryInv, OpInv, AgreeInv, Live, Booting, Loaded,
     Creating, Rotating, Appending, Writing, Installing
<1>17. SnapshotInv'
  BY <1>1, <1>2, <1>3, <1>4, <1>5 DEF MemoryInv, OpInv, SnapshotInv, Live,
     Booting, Loaded, Creating, Rotating, Appending, Writing, Installing
<1>18. HistoryInv'
  BY <1>2, <1>7, <1>3, <1>4, MaxSeqNat DEF HistoryInv, Keeps, Owing, Up,
     NoHistory, MaxOf, Live, Booting, Loaded, Creating, Rotating, Appending,
     Writing, Installing
<1> QED
  BY <1>6, <1>8, <1>9, <1>10, <1>11, <1>12, <1>13, <1>14, <1>15, <1>16, <1>17,
     <1>18 DEF WalInv, MemoryInv

(* A manifest is read into memory.                                         *)
LEMMA LoadManifestKeeps ==
    ASSUME WalInv, LoadManifest
    PROVE  WalInv'
<1>1. /\ TypeOK /\ DiskInv /\ JournalInv /\ MemoryInv
      /\ op \in {"recover", "append", "tidy"}
  BY DEF WalInv, TypeOK
<1>2. /\ pc = "load" /\ pc' = "gc" /\ meta.man # NoManifest
      /\ checkpoint' = meta.man.ck /\ segments' = meta.man.segs
      /\ generation' = meta.man.gen /\ next_seq' = 1 + meta.man.last
      /\ meta' = meta /\ images' = images /\ removed' = removed
      /\ UNCHANGED <<journalled, file, fd, degraded, seq, hist, floor, undo>>
      /\ UNCHANGED <<op, batch, newck, collected, owed, peak>>
  <2>1. pc = "load" /\ meta.man # NoManifest
    BY DEF LoadManifest
  <2>2. GoodLog(file, meta.man.ck, meta.man.segs)
    BY <1>1, <2>1, ManifestCases, TypeFacts DEF DiskInv
  <2>3. /\ Contiguous(meta.man) /\ meta.man.segs # <<>>
        /\ meta.man.segs[Len(meta.man.segs)].last = 0
    BY <2>2 DEF GoodLog, Contiguous
  <2> QED
    BY <2>1, <2>3 DEF LoadManifest, diskVars, walVars, mapVars, callVars,
       ghostVars
<1>3. /\ checkpoint' \in Checkpoints /\ segments' \in Seq(Segments)
      /\ segments' # <<>> /\ generation' \in Nat /\ next_seq' \in Firsts
  <2>1. meta.man \in Manifests /\ GoodLog(file, meta.man.ck, meta.man.segs)
    BY <1>1, <1>2, ManifestCases, TypeFacts DEF DiskInv
  <2> QED
    BY <1>2, <2>1, MaxSeqNat DEF Manifests, GoodLog, Firsts, Seqs
<1>4. TypeOK'
  BY <1>1, <1>2, <1>3 DEF TypeOK, Steps
<1>5. Owing' = Owing
  BY <1>2 DEF Owing
<1>6. DiskInv' /\ (Agree => Agree')
  <2>1. Relinked /\ file' = file /\ peak' = peak /\ owed' = owed
    BY <1>1, <1>2 DEF Relinked, TypeOK
  <2> QED
    BY <1>1, <1>5, <2>1, DiskSame
<1>7. JournalInv'
  BY <1>1, <1>2 DEF JournalInv
<1>8. OpInv'
  BY <1>1, <1>2 DEF MemoryInv, OpInv, Live, Booting, Loaded, Creating,
     Rotating, Appending, Writing, Installing
<1>9. BootInv'
  BY <1>1, <1>2 DEF MemoryInv, BootInv, Fresh, AsRead, Booting, Loaded
<1>10. LogInv'
  BY <1>1, <1>2 DEF MemoryInv, LogInv, Active, Live, Booting, Loaded,
     Creating, Rotating, Appending, Writing, Installing
<1>11. OpenInv'
  BY <1>1, <1>2 DEF MemoryInv, OpInv, OpenInv, Active, Live, Booting, Loaded,
     Creating, Rotating, Appending, Writing, Installing
<1>12. HandleInv'
  BY <1>1, <1>2 DEF MemoryInv, HandleInv, Active, Live, Booting, Loaded,
     Creating, Rotating, Appending, Writing, Installing
<1>13. PublishedInv'
  BY <1>1, <1>2 DEF MemoryInv, PublishedInv, Fresh, Live, Booting, Loaded,
     Creating, Rotating, Appending, Writing, Installing
<1>14. AgreeInv'
  BY <1>1, <1>2, <1>6 DEF MemoryInv, OpInv, AgreeInv, Live, Booting, Loaded,
     Creating, Rotating, Appending, Writing, Installing
<1>15. SnapshotInv'
  BY <1>1, <1>2 DEF MemoryInv, OpInv, SnapshotInv, Live, Booting, Loaded,
     Creating, Rotating, Appending, Writing, Installing
<1>16. HistoryInv'
  BY <1>1, <1>2, <1>5 DEF MemoryInv, OpInv, HistoryInv, Up, Live, Booting,
     Loaded, Creating, Rotating, Appending, Writing, Installing
<1> QED
  BY <1>4, <1>6, <1>7, <1>8, <1>9, <1>10, <1>11, <1>12, <1>13, <1>14, <1>15,
     <1>16 DEF WalInv, MemoryInv

(* A purge begins.                                                         *)
LEMMA PurgeKeeps ==
    ASSUME WalInv, NEW K \in (SUBSET Tags) \ {{}}, Purge(K)
    PROVE  WalInv'
<1>1. /\ TypeOK /\ DiskInv /\ JournalInv /\ MemoryInv
      /\ op \in {"recover", "append", "tidy"}
  BY DEF WalInv, TypeOK
<1>2. /\ pc = "ready" /\ pc' = "prep" /\ ~degraded /\ seq < MaxSeq
      /\ op' = "append" /\ batch' = K
      /\ meta' = meta /\ images' = images /\ removed' = removed
      /\ UNCHANGED <<journalled, file, next_seq, generation, checkpoint>>
      /\ UNCHANGED <<segments, fd, degraded, seq, hist, floor, undo>>
      /\ UNCHANGED <<newck, collected, owed, peak>>
  BY DEF Purge, diskVars, walVars, mapVars, callVars, ghostVars
<1>3. op # "tidy" /\ Owing = owed /\ Owing' = owed
  BY <1>1, <1>2 DEF Owing, MemoryInv, OpInv, Live, Booting, Loaded, Creating,
     Rotating, Appending, Writing, Installing
<1>4. TypeOK'
  BY <1>1, <1>2 DEF TypeOK, Steps
<1>5. Owing' = Owing
  BY <1>3
<1>6. DiskInv' /\ (Agree => Agree')
  <2>1. Relinked /\ file' = file /\ peak' = peak /\ owed' = owed
    BY <1>1, <1>2 DEF Relinked, TypeOK
  <2> QED
    BY <1>1, <1>5, <2>1, DiskSame
<1>7. JournalInv'
  BY <1>1, <1>2 DEF JournalInv
<1>8. OpInv'
  BY <1>1, <1>2 DEF MemoryInv, OpInv, Live, Booting, Loaded, Creating,
     Rotating, Appending, Writing, Installing
<1>9. BootInv'
  BY <1>1, <1>2 DEF MemoryInv, BootInv, Fresh, AsRead, Booting, Loaded
<1>10. LogInv'
  BY <1>1, <1>2 DEF MemoryInv, LogInv, Active, Live, Booting, Loaded,
     Creating, Rotating, Appending, Writing, Installing
<1>11. OpenInv'
  <2>1. batch' # {} /\ seq' < MaxSeq
    BY <1>2
  <2> QED
    BY <1>2, <2>1 DEF OpenInv, Live, Booting, Loaded, Creating, Rotating,
       Appending, Writing, Installing
<1>12. HandleInv'
  BY <1>1, <1>2 DEF MemoryInv, HandleInv, Active, Live, Booting, Loaded,
     Creating, Rotating, Appending, Writing, Installing
<1>13. PublishedInv'
  BY <1>1, <1>2 DEF MemoryInv, PublishedInv, Fresh, Live, Booting, Loaded,
     Creating, Rotating, Appending, Writing, Installing
<1>14. AgreeInv'
  BY <1>1, <1>2, <1>6 DEF MemoryInv, OpInv, AgreeInv, Live, Booting, Loaded,
     Creating, Rotating, Appending, Writing, Installing
<1>15. SnapshotInv'
  BY <1>1, <1>2 DEF MemoryInv, OpInv, SnapshotInv, Live, Booting, Loaded,
     Creating, Rotating, Appending, Writing, Installing
<1>16. HistoryInv'
  BY <1>1, <1>2, <1>5, <1>3 DEF MemoryInv, OpInv, HistoryInv, Up, Live,
     Booting, Loaded, Creating, Rotating, Appending, Writing, Installing
<1> QED
  BY <1>4, <1>6, <1>7, <1>8, <1>9, <1>10, <1>11, <1>12, <1>13, <1>14, <1>15,
     <1>16 DEF WalInv, MemoryInv

(* A file that no manifest lists is unlinked.                              *)
LEMMA UnlinkOrphanKeeps ==
    ASSUME WalInv, UnlinkOrphan
    PROVE  WalInv'
<1>1. /\ TypeOK /\ DiskInv /\ JournalInv /\ MemoryInv
      /\ op \in {"recover", "append", "tidy"}
  BY DEF WalInv, TypeOK
<1>2. /\ pc = "gc" /\ pc' = "gc" /\ removed' = TRUE /\ Relinked
      /\ meta'.names \subseteq meta.names /\ meta'.cks \subseteq meta.cks
      /\ \A n \in meta.names \ OrphanSegments : n \in meta'.names
      /\ \A c \in meta.cks \ OrphanCheckpoints : c \in meta'.cks
      /\ UNCHANGED <<journalled, file, next_seq, generation, checkpoint>>
      /\ UNCHANGED <<segments, fd, degraded, seq, hist, floor, undo>>
      /\ UNCHANGED <<op, batch, newck, collected, owed, peak>>
  <2>1. CASE \E n \in OrphanSegments : Unlink(n)
    <3>1. PICK n \in OrphanSegments : Unlink(n)
      BY <2>1
    <3>2. /\ Relinked
          /\ meta'.names = meta.names \ {n} /\ meta'.cks = meta.cks
      BY <1>1, <3>1, UnlinkIs
    <3> QED
      BY <3>2 DEF UnlinkOrphan, walVars, mapVars, ghostVars
  <2>2. CASE \E c \in OrphanCheckpoints : UnlinkCheckpoint(c)
    <3>1. PICK c \in OrphanCheckpoints : UnlinkCheckpoint(c)
      BY <2>2
    <3>2. /\ Relinked
          /\ meta'.names = meta.names /\ meta'.cks = meta.cks \ {c}
      BY <1>1, <3>1, UnlinkCheckpointIs
    <3> QED
      BY <3>2 DEF UnlinkOrphan, walVars, mapVars, ghostVars
  <2> QED
    BY <2>1, <2>2 DEF UnlinkOrphan
<1>3. Complete(meta) => Complete(meta')
  <2>1. CASE meta.man = NoManifest
    <3>1. meta'.man = NoManifest /\ NoManifest.ck = NoCheckpoint
          /\ Listed(NoManifest.segs) = {}
      BY <1>2, <2>1 DEF Relinked, NoManifest, Listed
    <3> QED
      BY <3>1 DEF Complete
  <2>2. CASE meta.man # NoManifest
    <3>1. checkpoint = meta.man.ck /\ segments = meta.man.segs
      BY <1>1, <1>2, <2>2 DEF MemoryInv, BootInv, AsRead, Booting, Loaded
    <3>2. /\ OrphanSegments \cap Listed(meta.man.segs) = {}
          /\ meta.man.ck \notin OrphanCheckpoints
      BY <2>2, <3>1 DEF OrphanSegments, OrphanCheckpoints
    <3> QED
      BY <1>2, <3>2 DEF Complete, Relinked
  <2> QED
    BY <2>1, <2>2
<1>4. meta'.man = meta.man
  BY <1>2 DEF Relinked
<1>5. TypeOK'
  BY <1>1, <1>2 DEF TypeOK, Steps, Relinked
<1>6. Owing' = Owing
  BY <1>2 DEF Owing
<1>7. DiskInv' /\ (Agree => Agree')
  <2>1. Relinked /\ file' = file /\ peak' = peak /\ owed' = owed
    BY <1>2
  <2> QED
    BY <1>1, <1>6, <2>1, DiskSame
<1>8. JournalInv'
  BY <1>1, <1>2, <1>3, JournalStep DEF TypeOK
<1>9. OpInv'
  BY <1>1, <1>2 DEF MemoryInv, OpInv, Live, Booting, Loaded, Creating,
     Rotating, Appending, Writing, Installing
<1>10. BootInv'
  BY <1>1, <1>2, <1>4 DEF MemoryInv, BootInv, Fresh, AsRead, Booting, Loaded
<1>11. LogInv'
  BY <1>1, <1>2 DEF MemoryInv, LogInv, Active, Live, Booting, Loaded,
     Creating, Rotating, Appending, Writing, Installing
<1>12. OpenInv'
  BY <1>1, <1>2 DEF MemoryInv, OpInv, OpenInv, Active, Live, Booting, Loaded,
     Creating, Rotating, Appending, Writing, Installing
<1>13. HandleInv'
  BY <1>1, <1>2 DEF MemoryInv, HandleInv, Active, Live, Booting, Loaded,
     Creating, Rotating, Appending, Writing, Installing
<1>14. PublishedInv'
  BY <1>1, <1>2 DEF MemoryInv, PublishedInv, Fresh, Live, Booting, Loaded,
     Creating, Rotating, Appending, Writing, Installing
<1>15. AgreeInv'
  BY <1>1, <1>2, <1>7 DEF MemoryInv, OpInv, AgreeInv, Live, Booting, Loaded,
     Creating, Rotating, Appending, Writing, Installing
<1>16. SnapshotInv'
  BY <1>1, <1>2 DEF MemoryInv, OpInv, SnapshotInv, Live, Booting, Loaded,
     Creating, Rotating, Appending, Writing, Installing
<1>17. HistoryInv'
  BY <1>1, <1>2, <1>6 DEF MemoryInv, OpInv, HistoryInv, Up, Live, Booting,
     Loaded, Creating, Rotating, Appending, Writing, Installing
<1> QED
  BY <1>5, <1>7, <1>8, <1>9, <1>10, <1>11, <1>12, <1>13, <1>14, <1>15, <1>16,
     <1>17 DEF WalInv, MemoryInv

(* A file that the installed checkpoint covers is unlinked.                *)
LEMMA UnlinkCoveredKeeps ==
    ASSUME WalInv, UnlinkCovered
    PROVE  WalInv'
<1>1. /\ TypeOK /\ DiskInv /\ JournalInv /\ MemoryInv
      /\ op \in {"recover", "append", "tidy"}
  BY DEF WalInv, TypeOK
<1>2. /\ pc = "ckUnlink" /\ pc' \in {"ckUnlink", "ckDone"} /\ Relinked
      /\ \A n \in meta.names : n \in meta'.names \/ n \in collected.segs
      /\ \A c \in meta.cks : c \in meta'.cks \/ c = collected.ck
      /\ pc' = "ckUnlink" => /\ collected'.ck = collected.ck
                             /\ collected'.segs \subseteq collected.segs
      /\ collected' \in [segs : SUBSET Firsts, ck : Checkpoints]
      /\ UNCHANGED <<journalled, file, next_seq, generation, checkpoint>>
      /\ UNCHANGED <<segments, fd, degraded, seq, hist, floor, undo>>
      /\ UNCHANGED <<op, batch, newck, removed, owed, peak>>
  <2>1. /\ pc = "ckUnlink"
        /\ UNCHANGED <<journalled, file, next_seq, generation, checkpoint>>
        /\ UNCHANGED <<segments, fd, degraded, seq, hist, floor, undo>>
        /\ UNCHANGED <<op, batch, newck, removed, owed, peak>>
    BY DEF UnlinkCovered, walVars, mapVars, ghostVars
  <2>2. collected \in [segs : SUBSET Firsts, ck : Checkpoints]
    BY <1>1 DEF TypeOK
  <2>3. CASE \E n \in collected.segs :
                /\ Unlink(n) \/ UNCHANGED <<meta, images>>
                /\ collected' = [collected EXCEPT !.segs = @ \ {n}]
                /\ UNCHANGED pc
    <3>1. PICK n \in collected.segs :
                /\ Unlink(n) \/ UNCHANGED <<meta, images>>
                /\ collected' = [collected EXCEPT !.segs = @ \ {n}]
                /\ UNCHANGED pc
      BY <2>3
    <3>2. CASE Unlink(n)
      <4>1. /\ Relinked
            /\ meta'.names = meta.names \ {n} /\ meta'.cks = meta.cks
        BY <1>1, <3>2, UnlinkIs
      <4> QED
        BY <2>1, <2>2, <3>1, <4>1
    <3>3. CASE UNCHANGED <<meta, images>>
      <4>1. Relinked
        BY <1>1, <3>3, SyncIs
      <4> QED
        BY <2>1, <2>2, <3>1, <3>3, <4>1
    <3> QED
      BY <3>1, <3>2, <3>3
  <2>4. CASE /\ \/ collected.ck # NoCheckpoint /\ UnlinkCheckpoint(collected.ck)
                \/ UNCHANGED <<meta, images>>
             /\ collected' = NoneCollected
             /\ pc' = "ckDone"
    <3>1. NoneCollected \in [segs : SUBSET Firsts, ck : Checkpoints]
      BY MaxSeqNat DEF NoneCollected, NoCheckpoint, NoHistory, Checkpoints,
         Seqs
    <3>2. CASE UnlinkCheckpoint(collected.ck)
      <4>1. /\ Relinked
            /\ meta'.names = meta.names /\ meta'.cks = meta.cks \ {collected.ck}
        BY <1>1, <3>2, UnlinkCheckpointIs
      <4> QED
        BY <2>1, <2>4, <3>1, <4>1
    <3>3. CASE UNCHANGED <<meta, images>>
      <4>1. Relinked
        BY <1>1, <3>3, SyncIs
      <4> QED
        BY <2>1, <2>4, <3>1, <3>3, <4>1
    <3> QED
      BY <2>4, <3>2, <3>3
  <2> QED
    BY <2>3, <2>4 DEF UnlinkCovered
<1>3. /\ ~degraded /\ meta.man # NoManifest /\ meta'.man = meta.man
      /\ meta.man.segs = segments /\ meta.man.ck = checkpoint
      /\ Listed(segments) \subseteq meta.names
      /\ collected.segs \cap Listed(segments) = {} /\ collected.ck # checkpoint
  <2>1. ~degraded /\ meta'.man = meta.man
    BY <1>1, <1>2 DEF MemoryInv, OpInv, Relinked
  <2>2. meta.man # NoManifest /\ meta.man.segs = segments /\ meta.man.ck = checkpoint
    BY <1>1, <1>2, <2>1 DEF MemoryInv, PublishedInv, Live, Booting, Loaded,
       Creating, Rotating, Appending, Writing, Installing
  <2>3. Listed(segments) \subseteq meta.names
    BY <1>1, <1>2, <2>1 DEF MemoryInv, HandleInv, Live, Booting, Loaded,
       Creating, Rotating, Appending, Writing, Installing
  <2>4. collected.ck.gen < checkpoint.gen
        /\ collected.segs \cap Listed(segments) = {}
    BY <1>1, <1>2, <2>1 DEF MemoryInv, SnapshotInv, Live, Booting, Loaded,
       Creating, Rotating, Appending, Writing, Installing
  <2>5. collected.ck.gen \in Nat
    BY <1>1 DEF TypeOK, Checkpoints
  <2> QED
    BY <2>1, <2>2, <2>3, <2>4, <2>5
<1>4. /\ Listed(segments) \subseteq meta'.names
      /\ checkpoint \in meta.cks => checkpoint \in meta'.cks
  BY <1>2, <1>3
<1>5. Complete(meta) => Complete(meta')
  BY <1>3, <1>4 DEF Complete
<1>6. TypeOK'
  BY <1>1, <1>2 DEF TypeOK, Steps, Relinked
<1>7. Owing' = Owing
  BY <1>2 DEF Owing
<1>8. DiskInv' /\ (Agree => Agree')
  <2>1. Relinked /\ file' = file /\ peak' = peak /\ owed' = owed
    BY <1>2
  <2> QED
    BY <1>1, <1>7, <2>1, DiskSame
<1>9. JournalInv'
  BY <1>1, <1>2, <1>5, JournalStep DEF TypeOK
<1>10. OpInv'
  BY <1>1, <1>2 DEF MemoryInv, OpInv, Live, Booting, Loaded, Creating,
     Rotating, Appending, Writing, Installing
<1>11. BootInv'
  BY <1>1, <1>2 DEF MemoryInv, BootInv, Fresh, AsRead, Booting, Loaded
<1>12. LogInv'
  BY <1>1, <1>2, <1>3, <1>4 DEF MemoryInv, LogInv, Active, Live, Booting,
     Loaded, Creating, Rotating, Appending, Writing, Installing
<1>13. OpenInv'
  BY <1>1, <1>2, <1>3, <1>4 DEF MemoryInv, OpInv, OpenInv, Active, Live,
     Booting, Loaded, Creating, Rotating, Appending, Writing, Installing
<1>14. HandleInv'
  BY <1>1, <1>2, <1>3, <1>4 DEF MemoryInv, HandleInv, Active, Live, Booting,
     Loaded, Creating, Rotating, Appending, Writing, Installing
<1>15. PublishedInv'
  BY <1>1, <1>2, <1>3, <1>4 DEF MemoryInv, PublishedInv, Fresh, Live, Booting,
     Loaded, Creating, Rotating, Appending, Writing, Installing
<1>16. AgreeInv'
  BY <1>1, <1>2, <1>8 DEF MemoryInv, OpInv, AgreeInv, Live, Booting, Loaded,
     Creating, Rotating, Appending, Writing, Installing
<1>17. SnapshotInv'
  BY <1>1, <1>2, <1>3, <1>4 DEF MemoryInv, OpInv, SnapshotInv, Live, Booting,
     Loaded, Creating, Rotating, Appending, Writing, Installing
<1>18. HistoryInv'
  BY <1>1, <1>2, <1>7 DEF MemoryInv, OpInv, HistoryInv, Up, Live, Booting,
     Loaded, Creating, Rotating, Appending, Writing, Installing
<1> QED
  BY <1>6, <1>8, <1>9, <1>10, <1>11, <1>12, <1>13, <1>14, <1>15, <1>16, <1>17,
     <1>18 DEF WalInv, MemoryInv

(* The history is written as a checkpoint.                                 *)
LEMMA WriteCheckpointKeeps ==
    ASSUME WalInv, WriteCheckpoint
    PROVE  WalInv'
<1>1. /\ TypeOK /\ DiskInv /\ JournalInv /\ MemoryInv
      /\ op \in {"recover", "append", "tidy"}
  BY DEF WalInv, TypeOK
<1>2. /\ pc = "ckWrite" /\ pc' = "ckRoot" /\ newck' = Snapshot
      /\ LinkCheckpoint(Snapshot)
      /\ UNCHANGED <<journalled, file, next_seq, generation, checkpoint>>
      /\ UNCHANGED <<segments, fd, degraded, seq, hist, floor, undo>>
      /\ UNCHANGED <<op, batch, collected, removed, owed, peak>>
  BY DEF WriteCheckpoint, diskVars, walVars, mapVars, callVars, ghostVars
<1>3. /\ ~degraded /\ op # "append" /\ next_seq = seq + 1
      /\ meta.man # NoManifest /\ meta.man.ck = checkpoint
      /\ checkpoint.gen <= generation
      /\ checkpoint # NoCheckpoint => checkpoint \in meta.cks
      /\ seq \in Seqs /\ seq \in Nat /\ generation \in Nat
  <2>1. ~degraded /\ op # "append"
    BY <1>1, <1>2 DEF MemoryInv, OpInv, Live, Booting, Loaded, Creating,
       Rotating, Appending, Writing, Installing
  <2>2. /\ meta.man # NoManifest /\ meta.man.ck = checkpoint
        /\ checkpoint.gen <= generation
        /\ checkpoint # NoCheckpoint => checkpoint \in meta.cks
    BY <1>1, <1>2, <2>1 DEF MemoryInv, PublishedInv, Live, Booting, Loaded,
       Creating, Rotating, Appending, Writing, Installing
  <2>3. next_seq = seq + 1
    BY <1>1, <1>2, <2>1 DEF MemoryInv, LogInv, Live, Booting, Loaded,
       Creating, Rotating, Appending, Writing, Installing
  <2> QED
    BY <1>1, <2>1, <2>2, <2>3, MaxSeqNat DEF TypeOK, Seqs
<1>4. /\ Snapshot \in Checkpoints /\ Snapshot.wal = seq /\ Snapshot.seq = seq
      /\ Snapshot.hist = hist /\ Snapshot.floor = floor
      /\ Snapshot.gen = generation + 1
  <2>1. generation + 1 \in Nat /\ next_seq - 1 = seq
    BY <1>3
  <2>2. hist \in [Tags -> Seqs] /\ floor \in Seqs
    BY <1>1 DEF TypeOK
  <2> QED
    BY <1>3, <2>1, <2>2 DEF Snapshot, Checkpoints
<1>5. /\ Relinked /\ meta'.names = meta.names /\ meta'.man = meta.man
      /\ meta'.cks = {d \in meta.cks : d.gen # generation + 1} \cup {newck'}
  BY <1>1, <1>2, <1>4, LinkCheckpointIs DEF Relinked
<1>6. checkpoint \in meta.cks => checkpoint \in meta'.cks
  <2>1. checkpoint.gen # generation + 1
    BY <1>1, <1>3 DEF TypeOK, Checkpoints
  <2> QED
    BY <1>5, <2>1
<1>7. TypeOK'
  BY <1>1, <1>2, <1>4, <1>5 DEF TypeOK, Steps, Relinked
<1>8. Owing' = Owing
  BY <1>2 DEF Owing
<1>9. DiskInv' /\ (Agree => Agree')
  <2>1. Relinked /\ file' = file /\ peak' = peak /\ owed' = owed
    BY <1>2, <1>5
  <2> QED
    BY <1>1, <1>8, <2>1, DiskSame
<1>10. JournalInv'
  <2>1. Complete(meta) => Complete(meta')
    BY <1>3, <1>5, <1>6 DEF Complete
  <2> QED
    BY <1>1, <1>2, <1>5, <2>1, JournalStep DEF TypeOK
<1>11. OpInv'
  BY <1>1, <1>2 DEF MemoryInv, OpInv, Live, Booting, Loaded, Creating,
     Rotating, Appending, Writing, Installing
<1>12. BootInv'
  BY <1>1, <1>2 DEF MemoryInv, BootInv, Fresh, AsRead, Booting, Loaded
<1>13. LogInv'
  BY <1>1, <1>2, <1>3, <1>5, <1>6 DEF MemoryInv, LogInv, Active, Live,
     Booting, Loaded, Creating, Rotating, Appending, Writing, Installing
<1>14. OpenInv'
  BY <1>1, <1>2, <1>3, <1>5, <1>6 DEF MemoryInv, OpInv, OpenInv, Active, Live,
     Booting, Loaded, Creating, Rotating, Appending, Writing, Installing
<1>15. HandleInv'
  BY <1>1, <1>2, <1>3, <1>5, <1>6 DEF MemoryInv, HandleInv, Active, Live,
     Booting, Loaded, Creating, Rotating, Appending, Writing, Installing
<1>16. PublishedInv'
  BY <1>1, <1>2, <1>3, <1>5, <1>6 DEF MemoryInv, PublishedInv, Fresh, Live,
     Booting, Loaded, Creating, Rotating, Appending, Writing, Installing
<1>17. AgreeInv'
  BY <1>1, <1>2, <1>9 DEF MemoryInv, OpInv, AgreeInv, Live, Booting, Loaded,
     Creating, Rotating, Appending, Writing, Installing
<1>18. SnapshotInv'
  <2>1. /\ newck' \in meta'.cks /\ newck'.gen = generation' + 1
        /\ newck'.wal = seq' /\ newck'.seq = seq'
        /\ newck'.hist = hist' /\ newck'.floor = floor'
    BY <1>2, <1>4, <1>5
  <2>2. meta'.man.ck.gen < newck'.gen /\ newck'.gen <= generation' + 1
    <3>1. checkpoint.gen \in Nat
      BY <1>1 DEF TypeOK, Checkpoints
    <3> QED
      BY <1>2, <1>3, <1>5, <2>1, <3>1
  <2> QED
    BY <1>2, <2>1, <2>2 DEF SnapshotInv, Live, Booting, Loaded, Creating,
       Rotating, Appending, Writing, Installing
<1>19. HistoryInv'
  BY <1>1, <1>2, <1>8 DEF MemoryInv, OpInv, HistoryInv, Up, Live, Booting,
     Loaded, Creating, Rotating, Appending, Writing, Installing
<1> QED
  BY <1>7, <1>9, <1>10, <1>11, <1>12, <1>13, <1>14, <1>15, <1>16, <1>17,
     <1>18, <1>19 DEF WalInv, MemoryInv

(* A checkpoint is over, and the purge or start with it.                   *)
LEMMA CheckpointDoneKeeps ==
    ASSUME WalInv, CheckpointDone
    PROVE  WalInv'
<1>1. /\ TypeOK /\ DiskInv /\ JournalInv /\ MemoryInv
      /\ op \in {"recover", "append", "tidy"}
  BY DEF WalInv, TypeOK
<1>2. /\ pc = "ckDone" /\ pc' = "ready" /\ Relinked /\ meta' = meta
      /\ newck' = NoCheckpoint /\ peak' = seq
      /\ \/ /\ op = "tidy" /\ op' = "append" /\ batch' = {}
            /\ owed' = Upsert(owed, batch, seq)
         \/ op # "tidy" /\ UNCHANGED <<op, batch, owed>>
      /\ UNCHANGED <<journalled, file, next_seq, generation, checkpoint>>
      /\ UNCHANGED <<segments, fd, degraded, seq, hist, floor, undo>>
      /\ UNCHANGED <<collected, removed>>
  BY <1>1, SyncIs DEF CheckpointDone, Return, diskVars, walVars, mapVars,
     callVars, ghostVars
<1>3. /\ ~degraded /\ Agree /\ Len(segments) = 1
      /\ meta.man # NoManifest /\ OpenOf(meta.man.segs) = OpenOf(segments)
      /\ file[Active.first].recs = <<>> /\ next_seq = seq + 1
      /\ Active.first + Len(file[Active.first].recs) = next_seq
      /\ Keeps(Owing, seq, hist, floor)
  <2>1. ~degraded
    BY <1>1, <1>2 DEF MemoryInv, OpInv
  <2>2. Agree
    BY <1>1, <1>2, <2>1 DEF MemoryInv, AgreeInv, Live, Booting, Loaded,
       Creating, Rotating, Appending, Writing, Installing
  <2>3. meta.man # NoManifest /\ OpenOf(meta.man.segs) = OpenOf(segments)
    BY <1>1, <1>2, <2>1 DEF MemoryInv, PublishedInv, Live, Booting, Loaded,
       Creating, Rotating, Appending, Writing, Installing
  <2>4. /\ next_seq = seq + 1
        /\ Active.first + Len(file[Active.first].recs) = next_seq
    BY <1>1, <1>2, <2>1 DEF MemoryInv, LogInv, Live, Booting, Loaded,
       Creating, Rotating, Appending, Writing, Installing
  <2>5. file[Active.first].recs = <<>> /\ Len(segments) = 1
    BY <1>1, <1>2, <2>1 DEF MemoryInv, OpenInv, Live, Booting, Loaded,
       Creating, Rotating, Appending, Writing, Installing
  <2>6. Keeps(Owing, seq, hist, floor)
    BY <1>1, <1>2 DEF MemoryInv, HistoryInv, Booting
  <2> QED
    BY <2>1, <2>2, <2>3, <2>4, <2>5, <2>6
<1>4. Owing' = Owing /\ owed' = Owing
  BY <1>2 DEF Owing
<1>5. TypeOK'
  <2>1. owed' \in [Tags -> Seqs] /\ seq \in Seqs
    BY <1>1, <1>4, TypeFacts DEF TypeOK, Histories
  <2>2. NoCheckpoint \in Checkpoints
    BY MaxSeqNat DEF NoCheckpoint, NoHistory, Checkpoints, Seqs
  <2> QED
    BY <1>1, <1>2, <2>1, <2>2 DEF TypeOK, Steps, Relinked
<1>6. DiskInv' /\ (Agree => Agree')
  <2>1. ASSUME NEW m \in images
        PROVE  m.man # NoManifest /\ seq <= Reach(file, m.man.segs)
    <3>1. OpenOf(m.man.segs) = Active.first /\ Active.first \in Nat
          /\ Active.first # 0
      BY <1>1, <1>3, ActiveFacts DEF Agree, Firsts
    <3>2. m.man # NoManifest
      BY <3>1 DEF NoManifest, OpenOf
    <3>3. file[Active.first].synced \in Nat
          /\ Len(file[Active.first].recs) = 0
      BY <1>1, <1>3, ActiveFacts
    <3>4. seq \in Nat
      BY <1>1, TypeFacts
    <3> QED
      BY <1>3, <3>1, <3>2, <3>3, <3>4 DEF Reach
  <2>2. ASSUME NEW t \in Tags
        PROVE  owed'[t] <= peak'
    <3>1. /\ owed'[t] \in Nat /\ seq \in Nat /\ hist[t] \in Nat /\ floor \in Nat
      BY <1>1, <1>4, TypeFacts, MaxSeqNat DEF Histories, Seqs
    <3> QED
      BY <1>2, <1>3, <1>4, <3>1 DEF Keeps, MaxOf
  <2>3. peak' \in Nat
    BY <1>1, <1>2, TypeFacts
  <2> QED
    BY <1>1, <1>2, <1>4, <2>1, <2>2, <2>3, DiskRaised
<1>7. JournalInv'
  BY <1>1, <1>2, JournalStep DEF TypeOK
<1>8. OpInv'
  BY <1>1, <1>2 DEF MemoryInv, OpInv, Live, Booting, Loaded, Creating,
     Rotating, Appending, Writing, Installing
<1>9. BootInv'
  BY <1>1, <1>2 DEF MemoryInv, BootInv, Fresh, AsRead, Booting, Loaded
<1>10. LogInv'
  BY <1>1, <1>2 DEF MemoryInv, LogInv, Active, Live, Booting, Loaded,
     Creating, Rotating, Appending, Writing, Installing
<1>11. OpenInv'
  BY <1>1, <1>2, <1>3 DEF MemoryInv, OpInv, OpenInv, Active, Live, Booting,
     Loaded, Creating, Rotating, Appending, Writing, Installing
<1>12. HandleInv'
  BY <1>1, <1>2 DEF MemoryInv, HandleInv, Active, Live, Booting, Loaded,
     Creating, Rotating, Appending, Writing, Installing
<1>13. PublishedInv'
  BY <1>1, <1>2 DEF MemoryInv, PublishedInv, Fresh, Live, Booting, Loaded,
     Creating, Rotating, Appending, Writing, Installing
<1>14. AgreeInv'
  BY <1>1, <1>2, <1>6 DEF MemoryInv, OpInv, AgreeInv, Live, Booting, Loaded,
     Creating, Rotating, Appending, Writing, Installing
<1>15. SnapshotInv'
  BY <1>1, <1>2 DEF MemoryInv, OpInv, SnapshotInv, Live, Booting, Loaded,
     Creating, Rotating, Appending, Writing, Installing
<1>16. HistoryInv'
  <2>1. Keeps(Owing', seq', hist', floor') /\ peak' <= seq'
    BY <1>1, <1>2, <1>3, <1>4, TypeFacts
  <2> QED
    BY <1>2, <2>1 DEF HistoryInv
<1> QED
  BY <1>5, <1>6, <1>7, <1>8, <1>9, <1>10, <1>11, <1>12, <1>13, <1>14, <1>15,
     <1>16 DEF WalInv, MemoryInv

(* A purge takes effect: its record on disk tells of it.                   *)
LEMMA ApplyKeeps ==
    ASSUME WalInv, Apply
    PROVE  WalInv'
<1>1. /\ TypeOK /\ DiskInv /\ JournalInv /\ MemoryInv
      /\ op \in {"recover", "append", "tidy"}
  BY DEF WalInv, TypeOK
<1>2. /\ pc = "apply" /\ pc' = "prune" /\ seq' = seq + 1 /\ peak' = seq + 1
      /\ hist' = Upsert(hist, batch, seq + 1)
      /\ UNCHANGED <<journalled, file, next_seq, generation, checkpoint>>
      /\ UNCHANGED <<segments, fd, degraded, floor, undo, meta, images>>
      /\ UNCHANGED <<op, batch, newck, collected, removed, owed>>
  BY DEF Apply, diskVars, walVars, mapVars, callVars, ghostVars
<1> DEFINE n == Active.first
           recs == file[n].recs
<1>3. /\ op = "append" /\ ~degraded /\ Agree /\ seq < MaxSeq
      /\ meta.man # NoManifest /\ OpenOf(meta.man.segs) = n
      /\ recs # <<>> /\ recs[Len(recs)].tags = batch
      /\ file[n].synced = Len(recs)
      /\ next_seq = seq + 2 /\ n + Len(recs) = next_seq
      /\ Keeps(owed, seq, hist, floor)
  <2>1. ~degraded /\ op = "append"
    BY <1>1, <1>2 DEF MemoryInv, OpInv, Live, Booting, Loaded, Creating,
       Rotating, Appending, Writing, Installing
  <2>2. Agree
    BY <1>1, <1>2, <2>1 DEF MemoryInv, AgreeInv, Live, Booting, Loaded,
       Creating, Rotating, Appending, Writing, Installing
  <2>3. meta.man # NoManifest /\ OpenOf(meta.man.segs) = OpenOf(segments)
    BY <1>1, <1>2, <2>1 DEF MemoryInv, PublishedInv, Live, Booting, Loaded,
       Creating, Rotating, Appending, Writing, Installing
  <2>4. next_seq = seq + 2 /\ n + Len(recs) = next_seq
    BY <1>1, <1>2, <2>1 DEF MemoryInv, LogInv, Live, Booting, Loaded,
       Creating, Rotating, Appending, Writing, Installing
  <2>5. /\ recs # <<>> /\ recs[Len(recs)].tags = batch
        /\ file[n].synced = Len(recs) /\ seq < MaxSeq
    BY <1>1, <1>2, <2>1 DEF MemoryInv, OpenInv, Live, Booting, Loaded,
       Creating, Rotating, Appending, Writing, Installing
  <2>6. Keeps(owed, seq, hist, floor)
    BY <1>1, <1>2, <2>1 DEF MemoryInv, HistoryInv, Booting, Owing
  <2> QED
    BY <1>1, <2>1, <2>2, <2>3, <2>4, <2>5, <2>6, ActiveFacts
<1>4. /\ n \in Firsts /\ n \in Nat /\ Len(recs) \in Nat \ {0} /\ recs \in Seq(Records)
      /\ seq \in Nat /\ seq + 1 \in Seqs /\ batch \subseteq Tags
  <2>1. n \in Firsts /\ n \in Nat /\ recs \in Seq(Records)
    BY <1>1, ActiveFacts
  <2>2. seq \in Nat /\ MaxSeq \in Nat /\ batch \subseteq Tags
    BY <1>1, TypeFacts, MaxSeqNat DEF TypeOK
  <2> HIDE DEF recs
  <2> QED
    BY <1>3, <2>1, <2>2 DEF Seqs
<1>5. /\ owed \in Histories /\ hist \in Histories /\ floor \in Nat
      /\ hist' \in Histories /\ Owing = owed
      /\ Owing' = Upsert(owed, batch, seq + 1) /\ Owing' \in Histories
      /\ \A t \in Tags : /\ Owing'[t] = IF t \in batch THEN seq + 1 ELSE owed[t]
                         /\ hist'[t] = IF t \in batch THEN seq + 1 ELSE hist[t]
                         /\ owed[t] \in Nat /\ hist[t] \in Nat
  <2>1. owed \in Histories /\ hist \in Histories /\ floor \in Nat
    BY <1>1, TypeFacts
  <2>2. Owing = owed /\ Owing' = Upsert(owed, batch, seq + 1)
    BY <1>2, <1>3 DEF Owing
  <2>3. \A h \in Histories :
           /\ Upsert(h, batch, seq + 1) \in Histories
           /\ \A t \in Tags : /\ h[t] \in Nat
                              /\ Upsert(h, batch, seq + 1)[t]
                                    = IF t \in batch THEN seq + 1 ELSE h[t]
    BY <1>4, MaxSeqNat DEF Histories, Upsert, Seqs
  <2> QED
    BY <1>2, <2>1, <2>2, <2>3
<1> HIDE DEF n, recs
<1>6. TypeOK'
  BY <1>1, <1>2, <1>4, <1>5 DEF TypeOK, Steps, Histories
<1>7. DiskInv' /\ (Agree => Agree')
  <2>1. ASSUME NEW m \in images
        PROVE  GoodManifest(file, Owing', seq + 1, m.man)
    <3>1. OpenOf(m.man.segs) = n /\ n # 0
      BY <1>3, <1>4 DEF Agree, Firsts
    <3>2. m.man # NoManifest
      BY <3>1 DEF NoManifest, OpenOf
    <3>3. /\ GoodLog(file, m.man.ck, m.man.segs) /\ m.man.ck.gen <= m.man.gen
          /\ m.man.last <= Reach(file, m.man.segs)
          /\ \A t \in Tags : Tells(file, m.man.ck, m.man.segs, t, owed[t])
      BY <1>1, <1>5, <3>2, ManifestCases DEF DiskInv
    <3>4. seq + 1 <= Reach(file, m.man.segs)
      BY <1>3, <1>4, <3>1 DEF Reach, recs
    <3>5. ASSUME NEW t \in Tags
          PROVE  Tells(file, m.man.ck, m.man.segs, t, Owing'[t])
      <4>1. CASE t \notin batch
        BY <1>5, <3>3, <4>1
      <4>2. CASE t \in batch
        <5>1. n \in Listed(m.man.segs)
          BY <1>1, <3>1, <3>3, LogShape, TypeFacts
        <5>2. Len(recs) \in 1 .. file[n].synced
          BY <1>3, <1>4
        <5>3. recs[Len(recs)].seq = seq + 1
          <6>1. GoodFile(file, n)
            BY <1>1, <1>4 DEF DiskInv
          <6>2. Len(recs) \in 1 .. Len(recs)
            BY <1>4
          <6>3. recs[Len(recs)].seq = n + Len(recs) - 1
            BY <6>1, <6>2 DEF GoodFile, recs
          <6> QED
            BY <1>3, <1>4, <6>3
        <5>4. t \in recs[Len(recs)].tags /\ Owing'[t] <= recs[Len(recs)].seq
          BY <1>3, <1>4, <1>5, <4>2, <5>3
        <5> QED
          BY <5>1, <5>2, <5>4 DEF Tells, recs
      <4> QED
        BY <4>1, <4>2
    <3> QED
      BY <3>3, <3>4, <3>5 DEF GoodManifest
  <2>2. \A t \in Tags : owed'[t] <= peak'
    <3>1. \A t \in Tags : owed[t] <= peak /\ peak <= seq /\ peak \in Nat
      BY <1>1, <1>2, TypeFacts DEF DiskInv, MemoryInv, HistoryInv, Booting
    <3> QED
      BY <1>2, <1>4, <1>5, <3>1
  <2>3. \A m \in images' : GoodManifest(file', Owing', peak', m.man)
    BY <1>2, <2>1
  <2>4. Agree'
    BY <1>2, <1>3 DEF Agree
  <2> QED
    BY <1>1, <1>2, <2>2, <2>3, <2>4 DEF DiskInv
<1>8. JournalInv'
  BY <1>1, <1>2 DEF JournalInv
<1>9. OpInv'
  BY <1>1, <1>2 DEF MemoryInv, OpInv, Live, Booting, Loaded, Creating,
     Rotating, Appending, Writing, Installing
<1>10. BootInv'
  BY <1>1, <1>2 DEF MemoryInv, BootInv, Fresh, AsRead, Booting, Loaded
<1>11. LogInv'
  <2>1. Live
    BY <1>2, <1>3 DEF Live, Booting, Loaded, Creating, Rotating, Appending,
       Writing, Installing
  <2>2. GoodLog(file, checkpoint, segments) /\ Active.bytes + 0 = BytesOf(file[Active.first].recs)
    BY <1>1, <1>2, <2>1 DEF MemoryInv, LogInv
  <2> QED
    BY <1>2, <1>3, <1>4, <2>2 DEF LogInv, Active, n, recs
<1>12. OpenInv'
  BY <1>1, <1>2, <1>3 DEF MemoryInv, OpInv, OpenInv, Active, Live, Booting,
     Loaded, Creating, Rotating, Appending, Writing, Installing
<1>13. HandleInv'
  BY <1>1, <1>2 DEF MemoryInv, HandleInv, Active, Live, Booting, Loaded,
     Creating, Rotating, Appending, Writing, Installing
<1>14. PublishedInv'
  BY <1>1, <1>2 DEF MemoryInv, PublishedInv, Fresh, Live, Booting, Loaded,
     Creating, Rotating, Appending, Writing, Installing
<1>15. AgreeInv'
  BY <1>1, <1>2, <1>7 DEF MemoryInv, OpInv, AgreeInv, Live, Booting, Loaded,
     Creating, Rotating, Appending, Writing, Installing
<1>16. SnapshotInv'
  BY <1>1, <1>2, <1>3 DEF MemoryInv, OpInv, SnapshotInv, Live, Booting,
     Loaded, Creating, Rotating, Appending, Writing, Installing
<1>17. HistoryInv'
  <2>1. Keeps(Owing', seq + 1, hist', floor)
    <3>1. floor <= seq /\ \A t \in Tags : hist[t] <= seq /\ owed[t] <= MaxOf(hist[t], floor)
      BY <1>3 DEF Keeps
    <3>2. ASSUME NEW t \in Tags
          PROVE  hist'[t] <= seq + 1 /\ Owing'[t] <= MaxOf(hist'[t], floor)
      <4>1. CASE t \in batch
        BY <1>4, <1>5, <4>1 DEF MaxOf
      <4>2. CASE t \notin batch
        BY <1>4, <1>5, <3>1, <4>2
      <4> QED
        BY <4>1, <4>2
    <3> QED
      BY <1>4, <1>5, <3>1, <3>2 DEF Keeps
  <2> QED
    BY <1>2, <1>3, <1>4, <2>1 DEF HistoryInv
<1> QED
  BY <1>6, <1>7, <1>8, <1>9, <1>10, <1>11, <1>12, <1>13, <1>14, <1>15, <1>16,
     <1>17 DEF WalInv, MemoryInv

(* The history is pruned, or the prune finds no memory.                    *)
LEMMA PruneKeepsInv ==
    ASSUME WalInv, Prune
    PROVE  WalInv'
<1>1. /\ TypeOK /\ DiskInv /\ JournalInv /\ MemoryInv
      /\ op \in {"recover", "append", "tidy"}
  BY DEF WalInv, TypeOK
<1> DEFINE now == [hist |-> hist, floor |-> floor]
<1>2. /\ pc = "prune"
      /\ UNCHANGED <<journalled, file, next_seq, generation, checkpoint>>
      /\ UNCHANGED <<segments, fd, degraded, seq, meta, images>>
      /\ UNCHANGED <<newck, collected, removed, peak>>
      /\ \/ hist' = Pruned(now).hist /\ floor' = Pruned(now).floor
         \/ OverCap(hist) /\ hist' = hist /\ floor' = floor
      /\ undo' \in {now, undo}
      /\ \/ /\ op' = "tidy" /\ pc' = "ckWrite" /\ undo' = now
            /\ UNCHANGED <<owed, batch>>
         \/ /\ op' = "append" /\ pc' = "ready" /\ batch' = {}
            /\ owed' = Upsert(owed, batch, seq)
            /\ \/ OverCap(hist) /\ hist' = hist
               \/ ~OverCap(hist) /\ ~CheckpointDue
  <2>1. /\ pc = "prune"
        /\ UNCHANGED <<journalled, file, next_seq, generation, checkpoint>>
        /\ UNCHANGED <<segments, fd, degraded, seq, meta, images>>
        /\ UNCHANGED <<newck, collected, removed, peak>>
    BY DEF Prune, diskVars, walVars, mapVars, callVars, ghostVars
  <2>2. \/ /\ hist' = Pruned(now).hist /\ floor' = Pruned(now).floor
           /\ undo' = now
           /\ IF OverCap(hist) \/ CheckpointDue
              THEN op' = "tidy" /\ pc' = "ckWrite" /\ UNCHANGED <<owed, batch>>
              ELSE Return
        \/ OverCap(hist) /\ Return /\ UNCHANGED <<hist, floor, undo>>
    BY DEF Prune
  <2> HIDE DEF now
  <2> QED
    BY <2>1, <2>2 DEF Return
<1>3. /\ op = "append" /\ ~degraded /\ Agree /\ peak = seq
      /\ Owing = Upsert(owed, batch, seq)
      /\ Keeps(Owing, seq, hist, floor)
      /\ GoodLog(file, checkpoint, segments)
  <2>1. ~degraded /\ op = "append"
    BY <1>1, <1>2 DEF MemoryInv, OpInv, Live, Booting, Loaded, Creating,
       Rotating, Appending, Writing, Installing
  <2>2. Agree
    BY <1>1, <1>2, <2>1 DEF MemoryInv, AgreeInv, Live, Booting, Loaded,
       Creating, Rotating, Appending, Writing, Installing
  <2>3. GoodLog(file, checkpoint, segments)
    BY <1>1, <1>2, <2>1 DEF MemoryInv, LogInv, Live, Booting, Loaded,
       Creating, Rotating, Appending, Writing, Installing
  <2>4. Keeps(Owing, seq, hist, floor) /\ peak = seq
    BY <1>1, <1>2, <2>1 DEF MemoryInv, HistoryInv, Booting, Up
  <2> QED
    BY <1>2, <2>1, <2>2, <2>3, <2>4 DEF Owing
<1>4. Owing' = Owing
  BY <1>2, <1>3 DEF Owing
<1>5. /\ hist \in Histories /\ floor \in Seqs /\ seq \in Seqs /\ seq \in Nat
      /\ Owing \in Histories /\ Within(seq, hist, floor)
  BY <1>1, <1>3, TypeFacts DEF TypeOK, Keeps, Within
<1>6. /\ Pruned(now).hist \in Histories /\ Pruned(now).floor \in Seqs
      /\ Within(seq, Pruned(now).hist, Pruned(now).floor)
      /\ \A t \in Tags : MaxOf(hist[t], floor)
                            <= MaxOf(Pruned(now).hist[t], Pruned(now).floor)
      /\ ~OverCap(hist) => Pruned(now) = now
  <2>1. now \in MapsOf(hist, floor, seq)
    BY DEF MapsOf
  <2> HIDE DEF now
  <2>2. PrunesWell(now, hist, floor, seq)
    BY <1>5, <2>1, PruneKeeps
  <2> QED
    BY <2>2 DEF PrunesWell
<1>7. now.hist = hist /\ now.floor = floor
  OBVIOUS
<1> HIDE DEF now
<1>8. /\ hist' \in Histories /\ floor' \in Seqs
      /\ Within(seq, hist', floor')
      /\ \A t \in Tags : MaxOf(hist[t], floor) <= MaxOf(hist'[t], floor')
      /\ ~OverCap(hist) => hist' = hist
  <2>1. ASSUME NEW t \in Tags
        PROVE  MaxOf(hist[t], floor) <= MaxOf(hist[t], floor)
    BY <1>5, MaxSeqNat DEF MaxOf, Histories, Seqs
  <2> QED
    BY <1>2, <1>5, <1>6, <1>7, <2>1
<1>9. Keeps(Owing, seq, hist', floor')
  <2>1. ASSUME NEW t \in Tags
        PROVE  hist'[t] <= seq /\ Owing[t] <= MaxOf(hist'[t], floor')
    <3>1. /\ Owing[t] <= MaxOf(hist[t], floor)
          /\ MaxOf(hist[t], floor) <= MaxOf(hist'[t], floor')
          /\ hist'[t] <= seq
      BY <1>3, <1>8 DEF Keeps, Within
    <3>2. /\ Owing[t] \in Nat /\ MaxOf(hist[t], floor) \in Nat
          /\ MaxOf(hist'[t], floor') \in Nat
      BY <1>5, <1>8, MaxSeqNat DEF Histories, Seqs, MaxOf
    <3> QED
      BY <3>1, <3>2
  <2> QED
    BY <1>8, <2>1 DEF Keeps, Within
<1>10. TypeOK'
  <2>1. owed' \in Histories /\ owed \in Histories
    BY <1>1, <1>2, <1>3, <1>5, TypeFacts
  <2>2. undo' \in [hist : [Tags -> Seqs], floor : Seqs]
    BY <1>1, <1>2, <1>5 DEF TypeOK, Histories, now
  <2> QED
    BY <1>1, <1>2, <1>8, <2>1, <2>2 DEF TypeOK, Steps, Histories
<1>11. DiskInv' /\ (Agree => Agree')
  <2>1. ASSUME NEW t \in Tags
        PROVE  owed'[t] <= peak'
    <3>1. Owing[t] <= MaxOf(hist[t], floor) /\ hist[t] <= seq /\ floor <= seq
      BY <1>3 DEF Keeps
    <3>2. /\ Owing[t] \in Nat /\ hist[t] \in Nat /\ floor \in Nat
      BY <1>5, MaxSeqNat DEF Histories, Seqs
    <3>3. Owing[t] <= seq
      BY <1>5, <3>1, <3>2 DEF MaxOf
    <3>4. owed[t] <= peak
      BY <1>1 DEF DiskInv
    <3> QED
      BY <1>2, <1>3, <3>3, <3>4
  <2>2. Relinked /\ peak' \in Nat
    BY <1>1, <1>2, <1>3, <1>5, SyncIs
  <2> QED
    BY <1>1, <1>2, <1>4, <2>1, <2>2, DiskRaised
<1>12. JournalInv'
  BY <1>1, <1>2 DEF JournalInv
<1>13. OpInv'
  BY <1>1, <1>2, <1>3 DEF MemoryInv, OpInv, Live, Booting, Loaded, Creating,
     Rotating, Appending, Writing, Installing
<1>14. BootInv'
  BY <1>1, <1>2 DEF MemoryInv, BootInv, Fresh, AsRead, Booting, Loaded
<1>15. LogInv'
  BY <1>1, <1>2, <1>3 DEF MemoryInv, LogInv, Active, Live, Booting, Loaded,
     Creating, Rotating, Appending, Writing, Installing
<1>16. OpenInv'
  <2>1. ~CheckpointDue => Len(segments) = 1
    <3>1. checkpoint \in Checkpoints /\ segments \in Seq(Segments)
      BY <1>1 DEF TypeOK
    <3>2. Len(segments) \in Nat \ {0} /\ checkpoint.wal \in Nat
      BY <1>3, <3>1, LogShape
    <3>3. \A i \in 1 .. Len(segments) - 1 :
             segments[i] \in Segments /\ checkpoint.wal < segments[i].last
      BY <1>3, <3>1, LogShape
    <3>4. Len(segments) # 1 => 1 \in 1 .. Len(segments) - 1 /\ 1 \in 1 .. Len(segments)
      <4>1. \A k \in Nat \ {0} : k # 1 => 1 \in 1 .. k - 1 /\ 1 \in 1 .. k
        OBVIOUS
      <4> QED
        BY <3>2, <4>1, Zenon
    <3>5. Len(segments) # 1 => /\ segments[1].last \in Nat
                               /\ checkpoint.wal < segments[1].last
      BY <3>3, <3>4, MaxSeqNat DEF Segments, Seqs
    <3> QED
      BY <3>2, <3>4, <3>5 DEF CheckpointDue
  <2> QED
    BY <1>2, <1>8, <2>1 DEF OpenInv, Live, Booting, Loaded, Creating,
       Rotating, Appending, Writing, Installing
<1>17. HandleInv'
  BY <1>1, <1>2, <1>3 DEF MemoryInv, HandleInv, Active, Live, Booting, Loaded,
     Creating, Rotating, Appending, Writing, Installing
<1>18. PublishedInv'
  BY <1>1, <1>2, <1>3 DEF MemoryInv, PublishedInv, Fresh, Live, Booting,
     Loaded, Creating, Rotating, Appending, Writing, Installing
<1>19. AgreeInv'
  BY <1>3, <1>11 DEF AgreeInv
<1>20. SnapshotInv'
  BY <1>1, <1>2, <1>3 DEF MemoryInv, OpInv, SnapshotInv, Live, Booting,
     Loaded, Creating, Rotating, Appending, Writing, Installing
<1>21. HistoryInv'
  <2>1. undo' = now \/ op' = "append"
    BY <1>2
  <2>2. Keeps(Owing', seq', hist', floor') /\ Keeps(Owing', seq', now.hist, now.floor)
    BY <1>2, <1>3, <1>4, <1>7, <1>9
  <2> QED
    BY <1>2, <1>3, <1>5, <2>1, <2>2 DEF HistoryInv
<1> QED
  BY <1>10, <1>11, <1>12, <1>13, <1>14, <1>15, <1>16, <1>17, <1>18, <1>19,
     <1>20, <1>21 DEF WalInv, MemoryInv

(* A compaction begins: it prunes the history first.                       *)
LEMMA CompactKeeps ==
    ASSUME WalInv, Compact
    PROVE  WalInv'
<1>1. /\ TypeOK /\ DiskInv /\ JournalInv /\ MemoryInv
      /\ op \in {"recover", "append", "tidy"}
  BY DEF WalInv, TypeOK
<1> DEFINE now == [hist |-> hist, floor |-> floor]
<1>2. /\ pc = "ready" /\ pc' = "prep" /\ ~degraded
      /\ op' = "tidy" /\ batch' = {} /\ undo' = now
      /\ hist' = Pruned(now).hist /\ floor' = Pruned(now).floor
      /\ UNCHANGED <<journalled, file, next_seq, generation, checkpoint>>
      /\ UNCHANGED <<segments, fd, degraded, seq, meta, images>>
      /\ UNCHANGED <<newck, collected, removed, owed, peak>>
  <2>1. /\ UNCHANGED <<journalled, file, next_seq, generation, checkpoint>>
        /\ UNCHANGED <<segments, fd, degraded, seq, meta, images>>
        /\ UNCHANGED <<newck, collected, removed, owed, peak>>
    BY DEF Compact, diskVars, walVars, mapVars, callVars, ghostVars
  <2>2. /\ pc = "ready" /\ pc' = "prep" /\ ~degraded
        /\ op' = "tidy" /\ batch' = {} /\ undo' = now
        /\ hist' = Pruned(now).hist /\ floor' = Pruned(now).floor
    BY DEF Compact
  <2> HIDE DEF now
  <2> QED
    BY <2>1, <2>2
<1>3. /\ op # "tidy" /\ Owing = owed
      /\ Keeps(Owing, seq, hist, floor) /\ peak = seq
  <2>1. op # "tidy"
    BY <1>1, <1>2 DEF MemoryInv, OpInv, Live, Booting, Loaded, Creating,
       Rotating, Appending, Writing, Installing
  <2>2. Keeps(Owing, seq, hist, floor) /\ peak = seq
    BY <1>1, <1>2 DEF MemoryInv, HistoryInv, Booting, Up
  <2> QED
    BY <1>2, <2>1, <2>2 DEF Owing
<1>4. Owing' = Owing
  <2>1. Upsert(owed, {}, seq) = owed
    BY <1>1 DEF TypeOK, Upsert
  <2> QED
    BY <1>2, <1>3, <2>1 DEF Owing
<1>5. /\ hist \in Histories /\ floor \in Seqs /\ seq \in Seqs /\ seq \in Nat
      /\ Owing \in Histories /\ Within(seq, hist, floor)
  BY <1>1, <1>3, TypeFacts DEF TypeOK, Keeps, Within
<1>6. /\ hist' \in Histories /\ floor' \in Seqs
      /\ Within(seq, hist', floor')
      /\ \A t \in Tags : MaxOf(hist[t], floor) <= MaxOf(hist'[t], floor')
  <2>1. now \in MapsOf(hist, floor, seq)
    BY DEF MapsOf
  <2> HIDE DEF now
  <2>2. PrunesWell(now, hist, floor, seq)
    BY <1>5, <2>1, PruneKeeps
  <2> QED
    BY <1>2, <2>2 DEF PrunesWell
<1>7. now.hist = hist /\ now.floor = floor
  OBVIOUS
<1>8. undo' \in [hist : [Tags -> Seqs], floor : Seqs]
  BY <1>2, <1>5 DEF Histories
<1> HIDE DEF now
<1>9. Keeps(Owing, seq, hist', floor')
  <2>1. ASSUME NEW t \in Tags
        PROVE  hist'[t] <= seq /\ Owing[t] <= MaxOf(hist'[t], floor')
    <3>1. /\ Owing[t] <= MaxOf(hist[t], floor)
          /\ MaxOf(hist[t], floor) <= MaxOf(hist'[t], floor')
          /\ hist'[t] <= seq
      BY <1>3, <1>6 DEF Keeps, Within
    <3>2. /\ Owing[t] \in Nat /\ MaxOf(hist[t], floor) \in Nat
          /\ MaxOf(hist'[t], floor') \in Nat
      BY <1>5, <1>6, MaxSeqNat DEF Histories, Seqs, MaxOf
    <3> QED
      BY <3>1, <3>2
  <2> QED
    BY <1>6, <2>1 DEF Keeps, Within
<1>10. TypeOK'
  BY <1>1, <1>2, <1>6, <1>8 DEF TypeOK, Steps, Histories
<1>11. DiskInv' /\ (Agree => Agree')
  <2>1. Relinked /\ file' = file /\ peak' = peak /\ owed' = owed
    BY <1>1, <1>2 DEF Relinked, TypeOK
  <2> QED
    BY <1>1, <1>4, <2>1, DiskSame
<1>12. JournalInv'
  BY <1>1, <1>2 DEF JournalInv
<1>13. OpInv'
  BY <1>2 DEF OpInv, Live, Booting, Loaded, Creating, Rotating, Appending,
     Writing, Installing
<1>14. BootInv'
  BY <1>2 DEF BootInv, Booting
<1>15. LogInv'
  BY <1>1, <1>2 DEF MemoryInv, LogInv, Active, Live, Booting, Loaded,
     Creating, Rotating, Appending, Writing, Installing
<1>16. OpenInv'
  BY <1>2 DEF OpenInv, Live, Booting, Loaded, Creating, Rotating, Appending,
     Writing, Installing
<1>17. HandleInv'
  BY <1>1, <1>2 DEF MemoryInv, HandleInv, Active, Live, Booting, Loaded,
     Creating, Rotating, Appending, Writing, Installing
<1>18. PublishedInv'
  BY <1>1, <1>2 DEF MemoryInv, PublishedInv, Fresh, Live, Booting, Loaded,
     Creating, Rotating, Appending, Writing, Installing
<1>19. AgreeInv'
  BY <1>2 DEF AgreeInv, Live, Booting, Loaded, Creating, Rotating, Appending,
     Writing, Installing
<1>20. SnapshotInv'
  BY <1>2 DEF SnapshotInv, Live, Booting, Loaded, Creating, Rotating,
     Appending, Writing, Installing
<1>21. HistoryInv'
  <2>1. /\ Keeps(Owing', seq', hist', floor')
        /\ Keeps(Owing', seq', undo'.hist, undo'.floor)
    BY <1>2, <1>3, <1>4, <1>7, <1>9
  <2> QED
    BY <1>2, <1>3, <1>5, <2>1 DEF HistoryInv
<1> QED
  BY <1>10, <1>11, <1>12, <1>13, <1>14, <1>15, <1>16, <1>17, <1>18, <1>19,
     <1>20, <1>21 DEF WalInv, MemoryInv

(* The size of a batch.                                                    *)
LEMMA SizeNat ==
    ASSUME NEW K \in SUBSET Tags
    PROVE  Size(K) \in Nat /\ Size(K) > 0
<1>1. IsFiniteSet(K)
  BY TagsFinite, FS_Subset
<1>2. Cardinality(K) \in Nat
  BY <1>1, FS_CardinalityType
<1> QED
  BY <1>2 DEF Size

(* The bytes of the open segment are not part of a good log.               *)
LEMMA BytesSet ==
    ASSUME NEW f, NEW c \in Checkpoints, NEW segs \in Seq(Segments),
           segs # <<>>, NEW b \in Nat
    PROVE  LET new == [segs EXCEPT ![Len(segs)].bytes = b] IN
           /\ new \in Seq(Segments) /\ Len(new) = Len(segs) /\ new # <<>>
           /\ new[Len(new)] = [segs[Len(segs)] EXCEPT !.bytes = b]
           /\ new[Len(new)].first = segs[Len(segs)].first
           /\ new[Len(new)].bytes = b
           /\ OpenOf(new) = OpenOf(segs) /\ Listed(new) = Listed(segs)
           /\ GoodLog(f, c, segs) => GoodLog(f, c, new)
<1> DEFINE k == Len(segs)
           x == [segs[k] EXCEPT !.bytes = b]
           new == [segs EXCEPT ![k].bytes = b]
<1>1. k \in Nat \ {0} /\ k \in 1 .. k
  OBVIOUS
<1>2. segs[k] \in Segments
  BY <1>1
<1>3. /\ x \in Segments /\ x.first = segs[k].first /\ x.last = segs[k].last
      /\ x.bytes = b
  BY <1>2 DEF Segments
<1>4. new = [segs EXCEPT ![k] = x]
  OBVIOUS
<1> HIDE DEF x, new
<1>5. new \in Seq(Segments) /\ Len(new) = k /\ new[k] = x
      /\ \A i \in 1 .. k : i # k => new[i] = segs[i]
  BY <1>1, <1>3, <1>4
<1>6. \A i \in 1 .. k : new[i].first = segs[i].first /\ new[i].last = segs[i].last
  BY <1>3, <1>5
<1> HIDE DEF k
<1>7. new # <<>> /\ OpenOf(new) = OpenOf(segs)
  BY <1>1, <1>5, <1>6 DEF OpenOf, k
<1>8. Listed(new) = Listed(segs)
  BY <1>5, <1>6 DEF Listed, k
<1>9. ASSUME GoodLog(f, c, segs)
      PROVE  GoodLog(f, c, new)
  <2>1. Contiguous([ck |-> c, segs |-> segs]) /\ segs[k].last = 0
        /\ \A i \in 1 .. k - 1 : Sealed(f, segs[i])
    BY <1>9 DEF GoodLog, k
  <2>2. Contiguous([ck |-> c, segs |-> new])
    <3>1. ASSUME NEW i \in 1 .. k
          PROVE  /\ new[i].first = 1 + IF i = 1 THEN c.wal ELSE new[i - 1].last
                 /\ new[i].last = 0 => i = k
                 /\ new[i].last # 0 => new[i].last >= new[i].first
      <4>1. /\ segs[i].first = 1 + IF i = 1 THEN c.wal ELSE segs[i - 1].last
            /\ segs[i].last = 0 => i = k
            /\ segs[i].last # 0 => segs[i].last >= segs[i].first
        BY <2>1 DEF Contiguous, k
      <4>2. i # 1 => i - 1 \in 1 .. k
        BY <1>1
      <4> QED
        BY <1>6, <4>1, <4>2
    <3> QED
      BY <1>5, <3>1 DEF Contiguous
  <2>3. \A i \in 1 .. k - 1 : Sealed(f, new[i])
    <3>1. \A i \in 1 .. k - 1 : i \in 1 .. k /\ i # k
      BY <1>1
    <3> QED
      BY <1>5, <2>1, <3>1
  <2>4. new[k].last = 0 /\ k \in 1 .. k
    BY <1>1, <1>6, <2>1
  <2> QED
    BY <1>5, <1>7, <1>9, <2>2, <2>3, <2>4 DEF GoodLog
<1> QED
  BY <1>3, <1>5, <1>7, <1>8, <1>9 DEF new, x, k

(* The files with one of them synced, and the segments with the open one   *)
(* sealed and the next one open: what a rotation makes of them.            *)
SyncedAt(f, n) == [f EXCEPT ![n] = Synced(@)]
ThenOpen(segs, next) ==
    Append([segs EXCEPT ![Len(segs)].last = next - 1], NewSegment(next))
ListsAlso(new, segs, next) == Listed(new) = Listed(segs) \cup {next}

(* A rotation seals the open segment and opens the next one.               *)
LEMMA Rotated ==
    ASSUME NEW f \in [Firsts -> Files], NEW g \in [Firsts -> Files],
           NEW c \in Checkpoints, NEW segs \in Seq(Segments), segs # <<>>,
           NEW next \in Firsts, GoodLog(f, c, segs),
           Len(f[OpenOf(segs)].recs) > 0,
           OpenOf(segs) + Len(f[OpenOf(segs)].recs) = next,
           segs[Len(segs)].bytes = BytesOf(f[OpenOf(segs)].recs),
           ~f[OpenOf(segs)].torn, g = SyncedAt(f, OpenOf(segs)),
           NEW new, new = ThenOpen(segs, next)
    PROVE  /\ new \in Seq(Segments) /\ new # <<>> /\ Len(new) = Len(segs) + 1
           /\ new[Len(new)] = NewSegment(next) /\ OpenOf(new) = next
           /\ ListsAlso(new, segs, next)
           /\ g[next] = EmptyFile
           /\ GoodLog(g, c, new)
<1> DEFINE k == Len(segs)
           x == [segs[k] EXCEPT !.last = next - 1]
           sealed == [segs EXCEPT ![k].last = next - 1]
           n == OpenOf(segs)
<1>1. /\ k \in Nat \ {0} /\ k \in 1 .. k /\ segs[k] \in Segments
      /\ n = segs[k].first /\ n \in Firsts /\ n \in Nat /\ next \in Nat
      /\ Len(f[n].recs) \in Nat /\ next - 1 \in Seqs /\ n < next
  <2>1. k \in Nat \ {0} /\ k \in 1 .. k
    OBVIOUS
  <2>2. segs[k] \in Segments /\ n = segs[k].first /\ n \in Firsts
    BY LogShape
  <2>3. n \in Nat /\ next \in Nat /\ next - 1 \in Seqs
    BY <2>2, MaxSeqNat DEF Firsts, Seqs
  <2>4. Len(f[n].recs) \in Nat
    BY <2>2 DEF Files
  <2> HIDE DEF k, n
  <2>5. n + Len(f[n].recs) = next /\ Len(f[n].recs) > 0
    BY DEF n
  <2> QED
    BY <2>1, <2>2, <2>3, <2>4, <2>5
<1>2. /\ x \in Segments /\ x.first = n /\ x.last = next - 1
      /\ x.bytes = segs[k].bytes
  BY <1>1 DEF Segments
<1>3. sealed = [segs EXCEPT ![k] = x]
  OBVIOUS
<1>4. NewSegment(next) \in Segments /\ NewSegment(next).first = next
      /\ NewSegment(next).last = 0
  BY MaxSeqNat DEF NewSegment, Segments, Seqs
<1>5. /\ n + Len(f[n].recs) = next /\ segs[k].bytes = BytesOf(f[n].recs)
      /\ ~f[n].torn /\ g = [f EXCEPT ![n] = Synced(@)]
      /\ GoodLog(f, c, segs) /\ new = Append(sealed, NewSegment(next))
  BY DEF SyncedAt, ThenOpen
<1> HIDE DEF x, sealed, n
<1>6. sealed \in Seq(Segments) /\ Len(sealed) = k /\ sealed[k] = x
      /\ \A i \in 1 .. k : i # k => sealed[i] = segs[i]
  BY <1>1, <1>2, <1>3
<1>7. /\ new \in Seq(Segments) /\ Len(new) = k + 1 /\ new # <<>>
      /\ new[k + 1] = NewSegment(next) /\ new[k] = x
      /\ \A i \in 1 .. k : i # k => new[i] = segs[i]
  BY <1>1, <1>4, <1>5, <1>6, SMTT(60)
<1>8. OpenOf(new) = next
  BY <1>4, <1>7 DEF OpenOf
<1>9. /\ g[n] = Synced(f[n]) /\ \A j \in Firsts : j # n => g[j] = f[j]
      /\ g[n].recs = f[n].recs /\ g[n].synced = Len(f[n].recs)
      /\ g[n].clean /\ ~g[n].torn
  <2>1. f[n] \in Files
    BY <1>1
  <2>2. /\ Synced(f[n]).recs = f[n].recs /\ Synced(f[n]).synced = Len(f[n].recs)
        /\ Synced(f[n]).clean /\ Synced(f[n]).torn = f[n].torn
    BY <2>1 DEF Synced, Files
  <2> QED
    BY <1>1, <1>5, <2>2
<1>10. \A i \in 1 .. k + 1 :
          new[i].first = IF i = k + 1 THEN next ELSE segs[i].first
  BY <1>1, <1>2, <1>4, <1>7
<1>11. Listed(new) = Listed(segs) \cup {next}
  <2>1. \A i \in 1 .. k : new[i].first = segs[i].first /\ i \in 1 .. k + 1
    BY <1>1, <1>10
  <2>2. new[k + 1].first = next /\ k + 1 \in 1 .. k + 1
    BY <1>1, <1>10
  <2>3. \A i \in 1 .. k + 1 : i \in 1 .. k \/ i = k + 1
    BY <1>1
  <2> QED
    BY <1>7, <2>1, <2>2, <2>3 DEF Listed
<1>12. /\ \A i \in 1 .. k - 1 : Sealed(f, segs[i]) /\ segs[i] \in Segments
                                /\ segs[i].first # n
       /\ Contiguous([ck |-> c, segs |-> segs])
       /\ \A j \in Firsts : /\ j > n => f[j] = EmptyFile
                            /\ j < n => j + Len(f[j].recs) <= n
  <2>1. \A i \in 1 .. k - 1 : Sealed(f, segs[i]) /\ segs[i] \in Segments
                              /\ segs[i].first < n
    BY <1>5, LogShape DEF n
  <2>2. \A i \in 1 .. k - 1 : segs[i].first \in Nat
    <3>1. \A s \in Segments : s.first \in Nat
      BY MaxSeqNat DEF Segments, Firsts
    <3> QED
      BY <2>1, <3>1
  <2> QED
    BY <1>1, <1>5, <2>1, <2>2 DEF GoodLog, n
<1>13. \A i \in 1 .. k : Sealed(g, new[i])
  <2>1. Sealed(g, x)
    <3>1. x.last = n + Len(f[n].recs) - 1
      BY <1>1, <1>2, <1>5
    <3> QED
      BY <1>2, <1>5, <1>9, <3>1 DEF Sealed
  <2>2. ASSUME NEW i \in 1 .. k, i # k
        PROVE  Sealed(g, new[i])
    <3>1. i \in 1 .. k - 1
      BY <1>1, <2>2
    <3>2. new[i] = segs[i] /\ Sealed(f, segs[i]) /\ segs[i].first \in Firsts
          /\ segs[i].first # n
      BY <1>7, <1>12, <2>2, <3>1 DEF Segments
    <3>3. g[segs[i].first] = f[segs[i].first]
      BY <1>9, <3>2
    <3> QED
      BY <3>2, <3>3 DEF Sealed
  <2> QED
    BY <1>7, <2>1, <2>2
<1>14. Contiguous([ck |-> c, segs |-> new])
  <2>1. ASSUME NEW i \in 1 .. k + 1
        PROVE  /\ new[i].first = 1 + IF i = 1 THEN c.wal ELSE new[i - 1].last
               /\ new[i].last = 0 => i = k + 1
               /\ new[i].last # 0 => new[i].last >= new[i].first
    <3>1. CASE i = k + 1
      <4>1. new[i - 1].last = next - 1 /\ i # 1
        BY <1>1, <1>2, <1>7, <3>1
      <4> QED
        BY <1>1, <1>4, <1>7, <3>1, <4>1
    <3>2. CASE i = k
      <4>1. segs[k].first = 1 + IF k = 1 THEN c.wal ELSE segs[k - 1].last
        BY <1>1, <1>12 DEF Contiguous
      <4>2. k # 1 => new[k - 1] = segs[k - 1]
        <5>1. k # 1 => k - 1 \in 1 .. k /\ k - 1 # k
          <6>1. \A q \in Nat \ {0} : q # 1 => q - 1 \in 1 .. q /\ q - 1 # q
            OBVIOUS
          <6> QED
            BY <1>1, <6>1, Zenon
        <5> QED
          BY <1>7, <5>1
      <4>3. new[k].last = next - 1 /\ new[k].first = n
        BY <1>2, <1>7
      <4>4. next - 1 # 0 /\ next - 1 >= n /\ n = segs[k].first
        BY <1>1 DEF Firsts
      <4> QED
        BY <3>2, <4>1, <4>2, <4>3, <4>4
    <3>3. CASE i # k /\ i # k + 1
      <4>1. i \in 1 .. k /\ (i # 1 => i - 1 \in 1 .. k /\ i - 1 # k)
        BY <1>1, <3>3
      <4>2. /\ segs[i].first = 1 + IF i = 1 THEN c.wal ELSE segs[i - 1].last
            /\ segs[i].last = 0 => i = k
            /\ segs[i].last # 0 => segs[i].last >= segs[i].first
        BY <1>12, <4>1 DEF Contiguous
      <4>3. new[i] = segs[i] /\ (i # 1 => new[i - 1] = segs[i - 1])
        BY <1>7, <3>3, <4>1
      <4> QED
        BY <3>3, <4>2, <4>3
    <3> QED
      BY <3>1, <3>2, <3>3
  <2> QED
    BY <1>7, <2>1 DEF Contiguous
<1>15. \A j \in Firsts : /\ j > next => g[j] = EmptyFile
                         /\ j < next => j + Len(g[j].recs) <= next
  <2>1. ASSUME NEW j \in Firsts
        PROVE  /\ j > next => g[j] = EmptyFile
               /\ j < next => j + Len(g[j].recs) <= next
    <3>1. j \in Nat /\ Len(f[j].recs) \in Nat
      BY MaxSeqNat, SMTT(60) DEF Firsts, Files
    <3>2. CASE j = n
      BY <1>1, <1>5, <1>9, <3>1, <3>2
    <3>3. CASE j > n
      <4>1. g[j] = EmptyFile
        BY <1>1, <1>9, <1>12, <3>1, <3>3
      <4>2. Len(g[j].recs) = 0
        BY <4>1 DEF EmptyFile
      <4> QED
        BY <1>1, <3>1, <4>1, <4>2
    <3>4. CASE j < n
      <4>1. g[j] = f[j] /\ j + Len(f[j].recs) <= n
        BY <1>1, <1>9, <1>12, <3>1, <3>4
      <4> QED
        BY <1>1, <3>1, <3>4, <4>1
    <3> QED
      BY <1>1, <3>1, <3>2, <3>3, <3>4
  <2> QED
    BY <2>1
<1>16. g[next] = EmptyFile
  BY <1>1, <1>9, <1>12
<1>17. GoodLog(g, c, new)
  <2>1. GoodCheckpoint(c)
    BY <1>5 DEF GoodLog
  <2>2. new[Len(new)].last = 0 /\ Len(new) - 1 = k
    BY <1>1, <1>4, <1>7
  <2> QED
    BY <1>7, <1>8, <1>13, <1>14, <1>15, <2>1, <2>2 DEF GoodLog
<1> QED
  <2>1. ListsAlso(new, segs, next)
    BY <1>11 DEF ListsAlso
  <2> QED
    BY <1>1, <1>7, <1>8, <1>16, <1>17, <2>1

(* The record of a purge is synced.                                        *)
LEMMA SyncRecordKeeps ==
    ASSUME WalInv, SyncRecord
    PROVE  WalInv'
<1>1. /\ TypeOK /\ DiskInv /\ JournalInv /\ MemoryInv
      /\ op \in {"recover", "append", "tidy"}
  BY DEF WalInv, TypeOK
<1>2. /\ pc = "sync" /\ pc' = "apply"
      /\ file' = [file EXCEPT ![Active.first] = Synced(@)]
      /\ segments' = [segments EXCEPT ![Len(segments)].bytes = @ + Size(batch)]
      /\ UNCHANGED <<journalled, meta, images, next_seq, generation, checkpoint>>
      /\ UNCHANGED <<fd, degraded, seq, hist, floor, undo>>
      /\ UNCHANGED <<op, batch, newck, collected, removed, owed, peak>>
  BY DEF SyncRecord, diskVars, walVars, mapVars, callVars, ghostVars
<1> DEFINE n == Active.first
           recs == file[n].recs
<1>3. /\ op = "append" /\ ~degraded /\ Agree /\ seq < MaxSeq /\ batch # {}
      /\ recs # <<>> /\ recs[Len(recs)].tags = batch
      /\ next_seq = seq + 2 /\ n + Len(recs) = next_seq
      /\ Active.bytes + Size(batch) = BytesOf(recs)
      /\ GoodLog(file, checkpoint, segments) /\ fd /\ ~file[n].torn
  <2>1. ~degraded /\ op = "append"
    BY <1>1, <1>2 DEF MemoryInv, OpInv, Live, Booting, Loaded, Creating,
       Rotating, Appending, Writing, Installing
  <2>2. Agree
    BY <1>1, <1>2, <2>1 DEF MemoryInv, AgreeInv, Live, Booting, Loaded,
       Creating, Rotating, Appending, Writing, Installing
  <2>3. fd /\ ~file[n].torn
    BY <1>1, <1>2, <2>1 DEF MemoryInv, HandleInv, Live, Booting, Loaded,
       Creating, Rotating, Appending, Writing, Installing
  <2>4. /\ next_seq = seq + 2 /\ n + Len(recs) = next_seq
        /\ Active.bytes + Size(batch) = BytesOf(recs)
        /\ GoodLog(file, checkpoint, segments)
    BY <1>1, <1>2, <2>1 DEF MemoryInv, LogInv, Live, Booting, Loaded,
       Creating, Rotating, Appending, Writing, Installing
  <2>5. /\ recs # <<>> /\ recs[Len(recs)].tags = batch
        /\ seq < MaxSeq /\ batch # {}
    BY <1>1, <1>2, <2>1 DEF MemoryInv, OpenInv, Live, Booting, Loaded,
       Creating, Rotating, Appending, Writing, Installing
  <2> QED
    BY <2>1, <2>2, <2>3, <2>4, <2>5
<1>4. /\ n \in Firsts /\ Active.bytes + Size(batch) \in Nat
      /\ file \in [Firsts -> Files] /\ checkpoint \in Checkpoints
      /\ segments \in Seq(Segments) /\ segments # <<>>
      /\ \A k \in Firsts : GoodFile(file, k)
  <2>1. batch \in SUBSET Tags
    BY <1>1 DEF TypeOK
  <2>2. Active.bytes \in Nat /\ n \in Firsts
    BY <1>1, ActiveFacts
  <2>3. Size(batch) \in Nat
    BY <2>1, SizeNat
  <2> QED
    BY <1>1, <2>2, <2>3, TypeFacts DEF TypeOK, DiskInv
<1>5. /\ file' \in [Firsts -> Files]
      /\ \A k \in Firsts : GoodFile(file', k)
      /\ \A k \in Firsts : file'[k].recs = file[k].recs
      /\ \A o : Kept(file, file', o)
      /\ Grown(file, file')
  BY <1>2, <1>4, FilesSynced, ZenonT(60)
<1>6. file'[n].synced = Len(recs) /\ file'[n].torn = file[n].torn
  <2>1. file'[n] = Synced(file[n]) /\ file[n] \in Files
    BY <1>2, <1>4
  <2> QED
    BY <2>1 DEF Synced, Files
<1>7. /\ segments' \in Seq(Segments) /\ segments' # <<>>
      /\ Len(segments') = Len(segments)
      /\ Active' = [Active EXCEPT !.bytes = Active.bytes + Size(batch)]
      /\ Active'.first = n /\ Active'.bytes = Active.bytes + Size(batch)
      /\ OpenOf(segments') = OpenOf(segments)
      /\ Listed(segments') = Listed(segments)
      /\ GoodLog(file', checkpoint, segments')
  <2> DEFINE b == Active.bytes + Size(batch)
  <2>1. segments' = [segments EXCEPT ![Len(segments)].bytes = b]
    BY <1>2, <1>4 DEF Active
  <2>2. GoodLog(file', checkpoint, segments)
    BY <1>3, <1>4, <1>5, LogKept
  <2>3. b \in Nat
    BY <1>4
  <2> HIDE DEF b
  <2> DEFINE new == [segments EXCEPT ![Len(segments)].bytes = b]
  <2>4. /\ new \in Seq(Segments) /\ Len(new) = Len(segments) /\ new # <<>>
        /\ new[Len(new)] = [segments[Len(segments)] EXCEPT !.bytes = b]
        /\ new[Len(new)].first = segments[Len(segments)].first
        /\ new[Len(new)].bytes = b
        /\ OpenOf(new) = OpenOf(segments) /\ Listed(new) = Listed(segments)
        /\ GoodLog(file', checkpoint, segments) => GoodLog(file', checkpoint, new)
    BY <1>4, <2>3, BytesSet
  <2>5. segments' = new
    BY <2>1
  <2> HIDE DEF new
  <2> QED
    BY <2>2, <2>4, <2>5 DEF Active, b, n
<1> HIDE DEF n, recs
<1>8. TypeOK'
  BY <1>1, <1>2, <1>5, <1>7 DEF TypeOK, Steps, Files
<1>9. Owing' = Owing
  BY <1>2, <1>3 DEF Owing
<1>10. DiskInv' /\ (Agree => Agree')
  <2>1. \A t \in Tags : Owing[t] <= Owing[t]
    BY <1>1, TypeFacts, MaxSeqNat DEF Histories, Seqs
  <2>2. Owing \in Histories
    BY <1>1, TypeFacts
  <2> QED
    BY <1>1, <1>2, <1>9, <1>5, <2>1, <2>2, DiskStep
<1>11. JournalInv'
  BY <1>1, <1>2 DEF JournalInv
<1>12. OpInv'
  BY <1>1, <1>2 DEF MemoryInv, OpInv, Live, Booting, Loaded, Creating,
     Rotating, Appending, Writing, Installing
<1>13. BootInv'
  BY <1>1, <1>2 DEF MemoryInv, BootInv, Fresh, AsRead, Booting, Loaded
<1>14. LogInv'
  BY <1>2, <1>3, <1>4, <1>5, <1>7 DEF LogInv, n, recs
<1>15. OpenInv'
  BY <1>2, <1>3, <1>4, <1>5, <1>6, <1>7 DEF OpenInv, n, recs, Live, Booting,
     Loaded, Creating, Rotating, Appending, Writing, Installing
<1>16. HandleInv'
  BY <1>1, <1>2, <1>3, <1>6, <1>7 DEF MemoryInv, HandleInv, n, Live, Booting,
     Loaded, Creating, Rotating, Appending, Writing, Installing
<1>17. PublishedInv'
  BY <1>1, <1>2, <1>3, <1>7 DEF MemoryInv, PublishedInv, Fresh, Live, Booting,
     Loaded, Creating, Rotating, Appending, Writing, Installing
<1>18. AgreeInv'
  BY <1>1, <1>2, <1>10 DEF MemoryInv, OpInv, AgreeInv, Live, Booting, Loaded,
     Creating, Rotating, Appending, Writing, Installing
<1>19. SnapshotInv'
  BY <1>1, <1>2, <1>3 DEF MemoryInv, OpInv, SnapshotInv, Live, Booting,
     Loaded, Creating, Rotating, Appending, Writing, Installing
<1>20. HistoryInv'
  BY <1>1, <1>2, <1>9 DEF MemoryInv, OpInv, HistoryInv, Up, Live, Booting,
     Loaded, Creating, Rotating, Appending, Writing, Installing
<1> QED
  BY <1>8, <1>10, <1>11, <1>12, <1>13, <1>14, <1>15, <1>16, <1>17, <1>18,
     <1>19, <1>20 DEF WalInv, MemoryInv

(* The record of a purge is written to the open segment.                   *)
LEMMA WriteRecordKeeps ==
    ASSUME WalInv, WriteRecord
    PROVE  WalInv'
<1>1. /\ TypeOK /\ DiskInv /\ JournalInv /\ MemoryInv
      /\ op \in {"recover", "append", "tidy"}
  BY DEF WalInv, TypeOK
<1>2. /\ pc = "write" /\ pc' = "sync" /\ next_seq' = next_seq + 1
      /\ file' = [file EXCEPT ![Active.first].recs = Append(@, RecordOf(batch)),
                              ![Active.first].clean = FALSE]
      /\ UNCHANGED <<journalled, meta, images, generation, checkpoint, segments>>
      /\ UNCHANGED <<fd, degraded, seq, hist, floor, undo>>
      /\ UNCHANGED <<op, batch, newck, collected, removed, owed, peak>>
  BY DEF WriteRecord, diskVars, walVars, mapVars, callVars, ghostVars
<1> DEFINE n == Active.first
           recs == file[n].recs
           r == RecordOf(batch)
<1>3. /\ op = "append" /\ ~degraded /\ Agree /\ seq < MaxSeq /\ batch # {}
      /\ next_seq = seq + 1 /\ n + Len(recs) = next_seq
      /\ Active.bytes = BytesOf(recs)
      /\ GoodLog(file, checkpoint, segments) /\ fd /\ ~file[n].torn
      /\ meta.man # NoManifest /\ OpenOf(meta.man.segs) = OpenOf(segments)
  <2>1. ~degraded /\ op = "append"
    BY <1>1, <1>2 DEF MemoryInv, OpInv, Live, Booting, Loaded, Creating,
       Rotating, Appending, Writing, Installing
  <2>2. Agree
    BY <1>1, <1>2, <2>1 DEF MemoryInv, AgreeInv, Live, Booting, Loaded,
       Creating, Rotating, Appending, Writing, Installing
  <2>3. fd /\ ~file[n].torn
    BY <1>1, <1>2, <2>1 DEF MemoryInv, HandleInv, Live, Booting, Loaded,
       Creating, Rotating, Appending, Writing, Installing
  <2>4. /\ next_seq = seq + 1 /\ n + Len(recs) = next_seq
        /\ Active.bytes + 0 = BytesOf(recs)
        /\ GoodLog(file, checkpoint, segments)
    BY <1>1, <1>2, <2>1 DEF MemoryInv, LogInv, Live, Booting, Loaded,
       Creating, Rotating, Appending, Writing, Installing
  <2>5. seq < MaxSeq /\ batch # {}
    BY <1>1, <1>2, <2>1 DEF MemoryInv, OpenInv, Live, Booting, Loaded,
       Creating, Rotating, Appending, Writing, Installing
  <2>6. meta.man # NoManifest /\ OpenOf(meta.man.segs) = OpenOf(segments)
    BY <1>1, <1>2, <2>1 DEF MemoryInv, PublishedInv, Live, Booting, Loaded,
       Creating, Rotating, Appending, Writing, Installing
  <2>7. Active.bytes + 0 = Active.bytes
    BY <1>1, ActiveFacts
  <2> QED
    BY <2>1, <2>2, <2>3, <2>4, <2>5, <2>6, <2>7
<1>4. /\ n \in Firsts /\ n \in Nat /\ n = OpenOf(segments)
      /\ recs \in Seq(Records) /\ Len(recs) \in Nat
      /\ file \in [Firsts -> Files] /\ checkpoint \in Checkpoints
      /\ segments \in Seq(Segments) /\ segments # <<>>
      /\ \A k \in Firsts : GoodFile(file, k)
      /\ seq \in Nat /\ MaxSeq \in Nat /\ Active.bytes \in Nat
  BY <1>1, ActiveFacts, TypeFacts, MaxSeqNat DEF TypeOK, DiskInv
<1>5. /\ r \in Records /\ r.tags = batch /\ r.tags # {} /\ r.end > 0
      /\ r.wal = n + Len(recs) /\ r.seq = n + Len(recs)
      /\ r.end = Active.bytes + Size(batch)
  <2>1. batch \in SUBSET Tags
    BY <1>1 DEF TypeOK
  <2>2. Size(batch) \in Nat /\ Size(batch) > 0
    BY <2>1, SizeNat
  <2>3. next_seq \in 1 .. MaxSeq /\ seq + 1 \in 1 .. MaxSeq
    BY <1>3, <1>4
  <2>4. r = [wal |-> next_seq, seq |-> seq + 1, tags |-> batch,
             end |-> Active.bytes + Size(batch)]
    BY <1>3 DEF RecordOf
  <2>5. Active.bytes + Size(batch) \in Nat /\ Active.bytes + Size(batch) > 0
    BY <1>4, <2>2
  <2> HIDE DEF r
  <2> QED
    BY <1>3, <2>1, <2>3, <2>4, <2>5 DEF Records
<1>6. \A k \in Firsts : /\ k > n => file[k] = EmptyFile
                        /\ k < n => k + Len(file[k].recs) <= n
  BY <1>3, <1>4 DEF GoodLog
<1> HIDE DEF r
<1>7. /\ file' \in [Firsts -> Files]
      /\ \A k \in Firsts : GoodFile(file', k)
      /\ file'[n].recs = Append(recs, r)
      /\ file'[n].synced = file[n].synced /\ file'[n].torn = file[n].torn
      /\ \A k \in Firsts \ {n} : file'[k] = file[k]
      /\ Kept(file, file', n)
      /\ Grown(file, file')
  <2> DEFINE g == [file EXCEPT ![n].recs = Append(@, r), ![n].clean = FALSE]
  <2>1. file' = g
    BY <1>2 DEF r
  <2>2. /\ g \in [Firsts -> Files]
        /\ \A k \in Firsts : GoodFile(g, k)
        /\ g[n].recs = Append(recs, r)
        /\ g[n].synced = file[n].synced /\ g[n].torn = file[n].torn
        /\ \A k \in Firsts \ {n} : g[k] = file[k]
        /\ Kept(file, g, n)
        /\ Grown(file, g)
    BY <1>4, <1>5, <1>6, FilesAppended
  <2> HIDE DEF g
  <2> QED
    BY <2>1, <2>2
<1>8. /\ file'[n].recs # <<>> /\ Len(file'[n].recs) = Len(recs) + 1
      /\ file'[n].recs[Len(file'[n].recs)] = r
      /\ BytesOf(file'[n].recs) = Active.bytes + Size(batch)
  <2> HIDE DEF recs
  <2>1. /\ Append(recs, r) # <<>> /\ Len(Append(recs, r)) = Len(recs) + 1
        /\ Append(recs, r)[Len(recs) + 1] = r
    BY <1>4, <1>5
  <2> QED
    BY <1>7, <1>5, <2>1 DEF BytesOf
<1>9. GoodLog(file', checkpoint, segments)
  BY <1>3, <1>4, <1>7, LogKept
<1>10. Active' = Active
  BY <1>2 DEF Active
<1> HIDE DEF n, recs
<1>11. TypeOK'
  <2>1. next_seq' \in Firsts
    BY <1>2, <1>3, <1>4 DEF Firsts
  <2> QED
    BY <1>1, <1>2, <1>7, <2>1 DEF TypeOK, Steps, Files
<1>12. Owing' = Owing
  BY <1>2, <1>3 DEF Owing
<1>13. DiskInv' /\ (Agree => Agree')
  <2>1. \A t \in Tags : Owing[t] <= Owing[t]
    BY <1>1, TypeFacts, MaxSeqNat DEF Histories, Seqs
  <2>2. Owing \in Histories
    BY <1>1, TypeFacts
  <2>3. \A m \in images : Kept(file, file', OpenOf(m.man.segs))
    BY <1>3, <1>4, <1>7 DEF Agree
  <2>4. \A m \in images' : \E b \in images : b.man = m.man
    BY <1>2
  <2> QED
    BY <1>1, <1>2, <1>12, <1>7, <2>1, <2>2, <2>3, <2>4, DiskStep
<1>14. JournalInv'
  BY <1>1, <1>2 DEF JournalInv
<1>15. OpInv'
  BY <1>1, <1>2 DEF MemoryInv, OpInv, Live, Booting, Loaded, Creating,
     Rotating, Appending, Writing, Installing
<1>16. BootInv'
  BY <1>1, <1>2 DEF MemoryInv, BootInv, Fresh, AsRead, Booting, Loaded
<1>17. LogInv'
  <2>1. n + Len(file'[n].recs) = next_seq' /\ next_seq' = seq' + 2
    <3>1. n \in Nat /\ Len(recs) \in Nat /\ seq \in Nat
      BY <1>4
    <3>2. Len(file'[n].recs) = Len(recs) + 1
      BY <1>8
    <3>3. n + Len(recs) = next_seq /\ next_seq = seq + 1
      BY <1>3
    <3>4. next_seq' = next_seq + 1 /\ seq' = seq
      BY <1>2
    <3> QED
      BY <3>1, <3>2, <3>3, <3>4
  <2> QED
    BY <1>2, <1>8, <1>9, <1>10, <2>1 DEF LogInv, n
<1>18. OpenInv'
  <2>1. file'[Active'.first].recs # <<>> /\ batch' # {} /\ seq' < MaxSeq
        /\ file'[Active'.first].recs[Len(file'[Active'.first].recs)].tags = batch'
    BY <1>2, <1>3, <1>5, <1>8, <1>10 DEF n
  <2> QED
    BY <1>2, <2>1 DEF OpenInv, Live, Booting, Loaded, Creating, Rotating,
       Appending, Writing, Installing
<1>19. HandleInv'
  BY <1>1, <1>2, <1>3, <1>7, <1>10 DEF MemoryInv, HandleInv, n, Live, Booting,
     Loaded, Creating, Rotating, Appending, Writing, Installing
<1>20. PublishedInv'
  BY <1>1, <1>2 DEF MemoryInv, PublishedInv, Fresh, Live, Booting, Loaded,
     Creating, Rotating, Appending, Writing, Installing
<1>21. AgreeInv'
  BY <1>1, <1>2, <1>13 DEF MemoryInv, OpInv, AgreeInv, Live, Booting, Loaded,
     Creating, Rotating, Appending, Writing, Installing
<1>22. SnapshotInv'
  BY <1>1, <1>2, <1>3 DEF MemoryInv, OpInv, SnapshotInv, Live, Booting,
     Loaded, Creating, Rotating, Appending, Writing, Installing
<1>23. HistoryInv'
  BY <1>1, <1>2, <1>12 DEF MemoryInv, OpInv, HistoryInv, Up, Live, Booting,
     Loaded, Creating, Rotating, Appending, Writing, Installing
<1> QED
  BY <1>11, <1>13, <1>14, <1>15, <1>16, <1>17, <1>18, <1>19, <1>20, <1>21,
     <1>22, <1>23 DEF WalInv, MemoryInv

(* The open segment is sealed and a new one created.                       *)
LEMMA RotateKeeps ==
    ASSUME WalInv, Rotate
    PROVE  WalInv'
<1>1. /\ TypeOK /\ DiskInv /\ JournalInv /\ MemoryInv
      /\ op \in {"recover", "append", "tidy"}
  BY DEF WalInv, TypeOK
<1>2. /\ pc = "rotate" /\ pc' = "rotWal" /\ fd' = TRUE
      /\ file' = [file EXCEPT ![Active.first] = Synced(@)]
      /\ segments' = Append([segments EXCEPT ![Len(segments)].last = next_seq - 1],
                            NewSegment(next_seq))
      /\ Link(next_seq)
      /\ UNCHANGED <<journalled, next_seq, generation, checkpoint>>
      /\ UNCHANGED <<degraded, seq, hist, floor, undo>>
      /\ UNCHANGED <<op, batch, newck, collected, removed, owed, peak>>
  BY DEF Rotate, diskVars, walVars, mapVars, callVars, ghostVars
<1> DEFINE n == Active.first
           recs == file[n].recs
<1>3. /\ ~degraded
      /\ recs # <<>> /\ next_seq = seq + 1 /\ n + Len(recs) = next_seq
      /\ Active.bytes = BytesOf(recs)
      /\ GoodLog(file, checkpoint, segments) /\ ~file[n].torn
      /\ Listed(segments) \subseteq meta.names
  <2>1. ~degraded
    BY <1>1, <1>2 DEF MemoryInv, OpInv, Live, Booting, Loaded, Creating,
       Rotating, Appending, Writing, Installing
  <2>2. Active.bytes + 0 = Active.bytes
    BY <1>1, ActiveFacts
  <2>3. ~file[n].torn /\ Listed(segments) \subseteq meta.names
    BY <1>1, <1>2, <2>1 DEF MemoryInv, HandleInv, Live, Booting, Loaded,
       Creating, Rotating, Appending, Writing, Installing
  <2>4. /\ next_seq = seq + 1 /\ n + Len(recs) = next_seq
        /\ Active.bytes + 0 = BytesOf(recs)
        /\ GoodLog(file, checkpoint, segments)
    BY <1>1, <1>2, <2>1 DEF MemoryInv, LogInv, Live, Booting, Loaded,
       Creating, Rotating, Appending, Writing, Installing
  <2>5. recs # <<>>
    BY <1>1, <1>2, <2>1 DEF MemoryInv, OpenInv, Live, Booting, Loaded,
       Creating, Rotating, Appending, Writing, Installing
  <2> QED
    BY <2>1, <2>2, <2>3, <2>4, <2>5
<1>4. /\ n \in Firsts /\ n = OpenOf(segments)
      /\ Len(recs) \in Nat /\ Len(recs) > 0 /\ Len(segments) \in Nat \ {0}
      /\ file \in [Firsts -> Files] /\ checkpoint \in Checkpoints
      /\ segments \in Seq(Segments) /\ segments # <<>>
      /\ \A k \in Firsts : GoodFile(file, k)
      /\ next_seq \in Firsts /\ next_seq \in Nat
  <2>1. recs \in Seq(Records) /\ Len(recs) \in Nat
    BY <1>1, ActiveFacts
  <2>2. Len(recs) > 0
    <3> HIDE DEF recs
    <3> QED
      BY <1>3, <2>1
  <2> QED
    BY <1>1, <2>1, <2>2, ActiveFacts, TypeFacts DEF TypeOK, DiskInv
<1>5. /\ file' \in [Firsts -> Files]
      /\ \A k \in Firsts : GoodFile(file', k)
      /\ \A o : Kept(file, file', o)
      /\ Grown(file, file')
  BY <1>2, <1>4, FilesSynced
<1>6. /\ segments' \in Seq(Segments) /\ segments' # <<>>
      /\ Len(segments') = Len(segments) + 1
      /\ Active' = NewSegment(next_seq) /\ OpenOf(segments') = next_seq
      /\ Listed(segments') = Listed(segments) \cup {next_seq}
      /\ file'[next_seq] = EmptyFile
      /\ GoodLog(file', checkpoint, segments')
  <2>1. /\ segments[Len(segments)].bytes = BytesOf(file[OpenOf(segments)].recs)
        /\ ~file[OpenOf(segments)].torn
        /\ Len(file[OpenOf(segments)].recs) > 0
        /\ OpenOf(segments) + Len(file[OpenOf(segments)].recs) = next_seq
        /\ file' = SyncedAt(file, OpenOf(segments))
        /\ segments' = ThenOpen(segments, next_seq)
    BY <1>2, <1>3, <1>4 DEF Active, SyncedAt, ThenOpen
  <2>2. /\ file \in [Firsts -> Files] /\ file' \in [Firsts -> Files]
        /\ checkpoint \in Checkpoints /\ segments \in Seq(Segments)
        /\ segments # <<>> /\ next_seq \in Firsts
        /\ GoodLog(file, checkpoint, segments)
    BY <1>3, <1>4, <1>5
  <2>3. /\ segments' \in Seq(Segments) /\ segments' # <<>>
        /\ Len(segments') = Len(segments) + 1
        /\ segments'[Len(segments')] = NewSegment(next_seq)
        /\ OpenOf(segments') = next_seq
        /\ Listed(segments') = Listed(segments) \cup {next_seq}
        /\ file'[next_seq] = EmptyFile
        /\ GoodLog(file', checkpoint, segments')
    <3>1. /\ segments' \in Seq(Segments) /\ segments' # <<>>
          /\ Len(segments') = Len(segments) + 1
          /\ segments'[Len(segments')] = NewSegment(next_seq)
          /\ OpenOf(segments') = next_seq
      BY <2>1, <2>2, Rotated
    <3>2. file'[next_seq] = EmptyFile /\ GoodLog(file', checkpoint, segments')
      BY <2>1, <2>2, Rotated
    <3>3. ListsAlso(segments', segments, next_seq)
      BY <2>1, <2>2, Rotated
    <3> QED
      BY <3>1, <3>2, <3>3 DEF ListsAlso
  <2> QED
    BY <2>3 DEF Active
<1>7. /\ Active'.first = next_seq /\ Active'.bytes = 0
      /\ file'[Active'.first].recs = <<>> /\ ~file'[Active'.first].torn
      /\ Len(segments') > 1
  BY <1>4, <1>6 DEF NewSegment, EmptyFile
<1>8. /\ Relinked /\ meta'.man = meta.man
      /\ meta'.names = meta.names \cup {next_seq} /\ meta'.cks = meta.cks
  BY <1>1, <1>2, <1>4, LinkIs DEF Relinked
<1>9. Complete(meta) => Complete(meta')
  BY <1>8 DEF Complete
<1> HIDE DEF n, recs
<1>10. TypeOK'
  BY <1>1, <1>2, <1>5, <1>6, <1>8 DEF TypeOK, Steps, Files, Relinked
<1>11. Owing' = Owing
  BY <1>2, <1>3 DEF Owing
<1>12. DiskInv' /\ (Agree => Agree')
  <2>1. \A t \in Tags : Owing[t] <= Owing[t]
    BY <1>1, TypeFacts, MaxSeqNat DEF Histories, Seqs
  <2>2. Owing \in Histories
    BY <1>1, TypeFacts
  <2>3. \A m \in images' : \E b \in images : b.man = m.man
    BY <1>8 DEF Relinked
  <2> QED
    BY <1>1, <1>2, <1>11, <1>5, <1>8, <2>1, <2>2, <2>3, DiskStep
<1>13. JournalInv'
  BY <1>1, <1>2, <1>8, <1>9, JournalStep DEF TypeOK
<1>14. OpInv'
  BY <1>1, <1>2 DEF MemoryInv, OpInv, Live, Booting, Loaded, Creating,
     Rotating, Appending, Writing, Installing
<1>15. BootInv'
  BY <1>1, <1>2 DEF MemoryInv, BootInv, Fresh, AsRead, Booting, Loaded
<1>16. LogInv'
  BY <1>2, <1>3, <1>4, <1>6, <1>7 DEF LogInv, BytesOf
<1>17. OpenInv'
  <2>1. op = "append" => batch # {} /\ seq < MaxSeq
    BY <1>1, <1>2, <1>3 DEF MemoryInv, OpenInv, Live, Booting, Loaded,
       Creating, Rotating, Appending, Writing, Installing
  <2> QED
    BY <1>2, <1>3, <1>7, <2>1 DEF OpenInv, Live, Booting, Loaded, Creating,
       Rotating, Appending, Writing, Installing
<1>18. HandleInv'
  BY <1>2, <1>3, <1>6, <1>7, <1>8 DEF HandleInv
<1>19. PublishedInv'
  BY <1>1, <1>2, <1>3, <1>8 DEF MemoryInv, PublishedInv, Fresh, Live, Booting,
     Loaded, Creating, Rotating, Appending, Writing, Installing
<1>20. AgreeInv'
  BY <1>1, <1>2, <1>12 DEF MemoryInv, OpInv, AgreeInv, Live, Booting, Loaded,
     Creating, Rotating, Appending, Writing, Installing
<1>21. SnapshotInv'
  BY <1>1, <1>2, <1>3, <1>8 DEF MemoryInv, OpInv, SnapshotInv, Live, Booting,
     Loaded, Creating, Rotating, Appending, Writing, Installing
<1>22. HistoryInv'
  BY <1>1, <1>2, <1>11 DEF MemoryInv, OpInv, HistoryInv, Up, Live, Booting,
     Loaded, Creating, Rotating, Appending, Writing, Installing
<1> QED
  BY <1>10, <1>12, <1>13, <1>14, <1>15, <1>16, <1>17, <1>18, <1>19, <1>20,
     <1>21, <1>22 DEF WalInv, MemoryInv

(* A checkpoint takes the place of the segments it covers.                 *)
LEMMA InstallCheckpointKeeps ==
    ASSUME WalInv, InstallCheckpoint
    PROVE  WalInv'
<1>1. /\ TypeOK /\ DiskInv /\ JournalInv /\ MemoryInv
      /\ op \in {"recover", "append", "tidy"}
  BY DEF WalInv, TypeOK
<1> DEFINE kept == SubSeq(segments,
                          Cardinality({i \in 1 .. Len(segments) :
                                          Covered(segments[i])}) + 1,
                          Len(segments))
<1>2. /\ pc = "ckInstall" /\ pc' = "ckRename" /\ checkpoint' = newck
      /\ segments' = kept
      /\ collected' = [segs |-> Listed(segments) \ Listed(kept), ck |-> checkpoint]
      /\ UNCHANGED <<journalled, file, meta, images, next_seq, generation, fd>>
      /\ UNCHANGED <<degraded, seq, hist, floor, undo>>
      /\ UNCHANGED <<op, batch, newck, removed, owed, peak>>
  BY DEF InstallCheckpoint, diskVars, walVars, mapVars, callVars, ghostVars
<1> DEFINE n == Active.first
           recs == file[n].recs
<1>3. /\ ~degraded /\ Agree
      /\ recs = <<>> /\ next_seq = seq + 1 /\ n + Len(recs) = next_seq
      /\ Active.bytes = BytesOf(recs)
      /\ GoodLog(file, checkpoint, segments)
      /\ Listed(segments) \subseteq meta.names
      /\ meta.man # NoManifest /\ meta.man.gen = generation
      /\ OpenOf(meta.man.segs) = OpenOf(segments) /\ meta.man.ck = checkpoint
      /\ newck.wal = seq /\ newck.seq = seq /\ newck.hist = hist
      /\ newck.floor = floor /\ newck \in meta.cks
      /\ meta.man.ck.gen < newck.gen /\ newck.gen <= generation + 1
      /\ Keeps(Owing, seq, hist, floor)
  <2>1. ~degraded
    BY <1>1, <1>2 DEF MemoryInv, OpInv, Live, Booting, Loaded, Creating,
       Rotating, Appending, Writing, Installing
  <2>2. Active.bytes + 0 = Active.bytes
    BY <1>1, ActiveFacts
  <2>3. Listed(segments) \subseteq meta.names
    BY <1>1, <1>2, <2>1 DEF MemoryInv, HandleInv, Live, Booting, Loaded,
       Creating, Rotating, Appending, Writing, Installing
  <2>4. /\ next_seq = seq + 1 /\ n + Len(recs) = next_seq
        /\ Active.bytes + 0 = BytesOf(recs)
        /\ GoodLog(file, checkpoint, segments)
    BY <1>1, <1>2, <2>1 DEF MemoryInv, LogInv, Live, Booting, Loaded,
       Creating, Rotating, Appending, Writing, Installing
  <2>5. recs = <<>>
    BY <1>1, <1>2, <2>1 DEF MemoryInv, OpenInv, Live, Booting, Loaded,
       Creating, Rotating, Appending, Writing, Installing
  <2>6. /\ meta.man # NoManifest /\ meta.man.gen = generation
        /\ OpenOf(meta.man.segs) = OpenOf(segments) /\ meta.man.ck = checkpoint
    BY <1>1, <1>2, <2>1 DEF MemoryInv, PublishedInv, Live, Booting, Loaded,
       Creating, Rotating, Appending, Writing, Installing
  <2>7. /\ newck.wal = seq /\ newck.seq = seq /\ newck.hist = hist
        /\ newck.floor = floor /\ newck \in meta.cks
        /\ meta.man.ck.gen < newck.gen /\ newck.gen <= generation + 1
    BY <1>1, <1>2, <2>1 DEF MemoryInv, SnapshotInv, Live, Booting, Loaded,
       Creating, Rotating, Appending, Writing, Installing
  <2>8. Agree
    BY <1>1, <1>2, <2>1 DEF MemoryInv, AgreeInv, Live, Booting, Loaded,
       Creating, Rotating, Appending, Writing, Installing
  <2>9. Keeps(Owing, seq, hist, floor)
    BY <1>1, <1>2 DEF MemoryInv, HistoryInv, Booting
  <2> QED
    BY <2>1, <2>2, <2>3, <2>4, <2>5, <2>6, <2>7, <2>8, <2>9
<1>4. /\ n \in Firsts /\ n \in Nat /\ n = OpenOf(segments) /\ n = seq + 1
      /\ Len(segments) \in Nat \ {0} /\ Active \in Segments /\ Active.last = 0
      /\ checkpoint \in Checkpoints /\ newck \in Checkpoints
      /\ segments \in Seq(Segments) /\ segments # <<>>
      /\ seq \in Nat /\ newck.gen \in Nat /\ checkpoint.gen \in Nat
      /\ Active = segments[Len(segments)]
  <2>1. Len(recs) = 0
    BY <1>3
  <2>2. Active.last = 0
    BY <1>3 DEF GoodLog, Active
  <2>3. n \in Firsts /\ n \in Nat /\ n = OpenOf(segments) /\ Active \in Segments
        /\ Len(segments) \in Nat \ {0}
    BY <1>1, ActiveFacts
  <2>4. checkpoint \in Checkpoints /\ newck \in Checkpoints
        /\ segments \in Seq(Segments) /\ segments # <<>>
    BY <1>1 DEF TypeOK
  <2>5. newck.gen \in Nat /\ checkpoint.gen \in Nat
    BY <2>4 DEF Checkpoints
  <2> HIDE DEF recs, n
  <2>6. n = seq + 1
    BY <1>3, <2>1, <2>3
  <2> QED
    BY <1>1, <2>2, <2>3, <2>4, <2>5, <2>6, TypeFacts DEF Active
<1>5. kept = <<Active>>
  <2> DEFINE k == Len(segments)
             C == {i \in 1 .. k : Covered(segments[i])}
  <2>1. C = 1 .. k - 1
    <3>1. ASSUME NEW i \in 1 .. k - 1
          PROVE  Covered(segments[i]) /\ i \in 1 .. k
      <4>0. /\ \A j \in 1 .. Len(segments) - 1 :
                  /\ segments[j] \in Segments
                  /\ segments[j].last < OpenOf(segments)
                  /\ checkpoint.wal < segments[j].last
            /\ checkpoint.wal \in Nat
        <5>1. GoodLog(file, checkpoint, segments) /\ checkpoint \in Checkpoints
              /\ segments \in Seq(Segments)
          BY <1>3, <1>4
        <5> QED
          BY <5>1, LogShape
      <4>1. /\ checkpoint.wal < segments[i].last /\ checkpoint.wal \in Nat
            /\ segments[i].last < n /\ segments[i] \in Segments
        BY <1>4, <4>0
      <4>2. segments[i].last \in Nat
        BY <4>1, MaxSeqNat DEF Segments, Seqs
      <4> HIDE DEF n
      <4>3. segments[i].last # 0 /\ segments[i].last <= newck.wal
        BY <1>3, <1>4, <4>1, <4>2
      <4>4. i \in 1 .. k
        BY <1>4
      <4> QED
        BY <4>3, <4>4 DEF Covered
    <3>2. ~Covered(segments[k])
      BY <1>4 DEF Covered
    <3>3. \A i \in 1 .. k : i \in 1 .. k - 1 \/ i = k
      BY <1>4
    <3> QED
      BY <3>1, <3>2, <3>3
  <2>2. Cardinality(1 .. k - 1) = k - 1
    <3>1. k - 1 \in Nat
      BY <1>4
    <3>2. Cardinality(1 .. k - 1) = (k - 1) - 1 + 1
      BY <1>4, FS_Interval
    <3> QED
      BY <3>1, <3>2
  <2>3. kept = SubSeq(segments, (k - 1) + 1, k)
    BY <2>1, <2>2
  <2>4. (k - 1) + 1 = k /\ k \in Nat \ {0}
    BY <1>4
  <2>5. SubSeq(segments, k, k) = <<segments[k]>>
    <3>1. \A q \in Nat \ {0} : \A z \in Seq(Segments) :
             Len(z) = q => SubSeq(z, q, q) = <<z[q]>>
      <4>1. SUFFICES ASSUME NEW q \in Nat \ {0}, NEW z \in Seq(Segments), Len(z) = q
                     PROVE  SubSeq(z, q, q) = <<z[q]>>
        OBVIOUS
      <4>2. SubSeq(z, q, q) \in Seq(Segments) /\ Len(SubSeq(z, q, q)) = 1
        BY <4>1
      <4>3. SubSeq(z, q, q)[1] = z[q]
        BY <4>1
      <4>4. \A y \in Seq(Segments) : Len(y) = 1 => y = <<y[1]>>
        OBVIOUS
      <4> QED
        BY <4>2, <4>3, <4>4, Zenon
    <3>2. segments \in Seq(Segments) /\ Len(segments) = k
      BY <1>4
    <3> QED
      BY <2>4, <3>1, <3>2, Zenon
  <2> QED
    BY <1>4, <2>3, <2>4, <2>5
<1> HIDE DEF kept
<1>6. /\ segments' \in Seq(Segments) /\ segments' # <<>> /\ Len(segments') = 1
      /\ segments'[1] = Active /\ Active' = Active
      /\ Listed(segments') = {n} /\ OpenOf(segments') = n
      /\ n \in Listed(segments)
  <2>1. segments' = <<Active>>
    BY <1>2, <1>5
  <2>2. /\ <<Active>> \in Seq(Segments) /\ <<Active>> # <<>> /\ Len(<<Active>>) = 1
        /\ <<Active>>[1] = Active
    BY <1>4
  <2>3. Listed(<<Active>>) = {n}
    BY <2>2 DEF Listed
  <2>4. Len(segments) \in 1 .. Len(segments)
    BY <1>4
  <2> QED
    BY <1>4, <2>1, <2>2, <2>3, <2>4 DEF Active, OpenOf, Listed
<1>7. GoodLog(file, newck, segments')
  <2>1. GoodCheckpoint(newck)
    BY <1>3 DEF GoodCheckpoint, Keeps
  <2>2. Contiguous([ck |-> newck, segs |-> segments'])
    <3>1. Active.first = 1 + newck.wal
      BY <1>3, <1>4
    <3> QED
      <4> DEFINE m == [ck |-> newck, segs |-> segments']
      <4>1. m.ck.wal = newck.wal /\ m.segs = segments'
        OBVIOUS
      <4>2. /\ Len(segments') = 1 /\ segments'[1] = Active
            /\ Active.last = 0 /\ Active.first = 1 + newck.wal
        BY <1>4, <1>6, <3>1
      <4> HIDE DEF m
      <4>3. Contiguous(m)
        BY <4>1, <4>2 DEF Contiguous
      <4> QED
        BY <4>3 DEF m
  <2>3. \A i \in 1 .. Len(segments') - 1 : Sealed(file, segments'[i])
    BY <1>6
  <2>4. \A k \in Firsts :
           /\ k > n => file[k] = EmptyFile
           /\ k < n => k + Len(file[k].recs) <= n
    BY <1>3, <1>4 DEF GoodLog
  <2>5. segments'[Len(segments')].last = 0
    BY <1>4, <1>6
  <2> QED
    BY <1>6, <2>1, <2>2, <2>3, <2>4, <2>5 DEF GoodLog
<1> HIDE DEF n, recs
<1>8. TypeOK'
  <2>1. collected' \in [segs : SUBSET Firsts, ck : Checkpoints]
    <3>1. Listed(segments) \subseteq Firsts
      BY <1>4, ListedFirsts
    <3> QED
      BY <1>2, <1>4, <3>1
  <2> QED
    BY <1>1, <1>2, <1>4, <1>6, <2>1 DEF TypeOK, Steps
<1>9. Owing' = Owing
  BY <1>2 DEF Owing
<1>10. DiskInv' /\ (Agree => Agree')
  <2>1. Relinked /\ file' = file /\ peak' = peak /\ owed' = owed
    BY <1>1, <1>2 DEF Relinked, TypeOK
  <2> QED
    BY <1>1, <1>9, <2>1, DiskSame
<1>11. JournalInv'
  BY <1>1, <1>2 DEF JournalInv
<1>12. OpInv'
  BY <1>1, <1>2 DEF MemoryInv, OpInv, Live, Booting, Loaded, Creating,
     Rotating, Appending, Writing, Installing
<1>13. BootInv'
  BY <1>1, <1>2 DEF MemoryInv, BootInv, Fresh, AsRead, Booting, Loaded
<1>14. LogInv'
  <2>1. Active'.first + Len(file'[Active'.first].recs) = next_seq'
    BY <1>2, <1>3, <1>6 DEF n, recs
  <2>2. Active'.bytes + 0 = BytesOf(file'[Active'.first].recs)
    <3>1. Active.bytes + 0 = Active.bytes
      BY <1>1, ActiveFacts
    <3> QED
      BY <1>2, <1>3, <1>6, <3>1 DEF n, recs
  <2> QED
    BY <1>2, <1>3, <1>7, <2>1, <2>2 DEF LogInv
<1>15. OpenInv'
  <2>1. op # "append"
    BY <1>1, <1>2 DEF MemoryInv, OpInv, Live, Booting, Loaded, Creating,
       Rotating, Appending, Writing, Installing
  <2>2. /\ pc' = "ckRename" /\ op' # "append" /\ Len(segments') = 1
        /\ file'[Active'.first].recs = <<>>
    BY <1>2, <1>3, <1>6, <2>1 DEF n, recs
  <2> QED
    BY <2>2 DEF OpenInv, Live, Booting, Loaded, Creating, Rotating, Appending,
       Writing, Installing
<1>16. HandleInv'
  BY <1>1, <1>2, <1>3, <1>6 DEF MemoryInv, HandleInv, n, Live, Booting,
     Loaded, Creating, Rotating, Appending, Writing, Installing
<1>17. PublishedInv'
  BY <1>1, <1>2, <1>3, <1>6, <1>4 DEF MemoryInv, PublishedInv, Live, Booting,
     Loaded, Creating, Rotating, Appending, Writing, Installing
<1>18. AgreeInv'
  BY <1>1, <1>2, <1>10 DEF MemoryInv, OpInv, AgreeInv, Live, Booting, Loaded,
     Creating, Rotating, Appending, Writing, Installing
<1>19. SnapshotInv'
  <2>1. collected'.ck.gen < checkpoint'.gen
    BY <1>2, <1>3
  <2>2. collected'.segs \cap Listed(segments') = {}
    BY <1>2
  <2> QED
    BY <1>2, <1>3, <2>1, <2>2 DEF SnapshotInv, Live, Booting, Loaded,
       Creating, Rotating, Appending, Writing, Installing
<1>20. HistoryInv'
  BY <1>1, <1>2, <1>9 DEF MemoryInv, OpInv, HistoryInv, Up, Live, Booting,
     Loaded, Creating, Rotating, Appending, Writing, Installing
<1> QED
  BY <1>8, <1>10, <1>11, <1>12, <1>13, <1>14, <1>15, <1>16, <1>17, <1>18,
     <1>19, <1>20 DEF WalInv, MemoryInv

(* A manifest is renamed to its place.                                     *)
LEMMA LinkManifestIs ==
    ASSUME TypeOK, NEW x \in Manifests, LinkManifest(x)
    PROVE  /\ images' \subseteq Metas /\ meta' \in images' /\ meta'.man = x
           /\ meta'.names = meta.names /\ meta'.cks = meta.cks
           /\ \A m \in images' : m.man = x \/ \E b \in images : b.man = m.man
           /\ journalled => images' \subseteq images \cup {meta'}
<1> DEFINE With(m) == [m EXCEPT !.man = x]
<1>1. meta' = With(meta) /\ images' = images \cup {With(m) : m \in Bases}
  BY DEF LinkManifest
<1>2. \A m \in Metas : /\ With(m) \in Metas /\ With(m).man = x
                       /\ With(m).cks = m.cks /\ With(m).names = m.names
  BY DEF Metas, Manifests
<1>3. /\ images \subseteq Metas /\ meta \in images
      /\ meta \in Bases /\ Bases \subseteq images /\ (journalled => Bases = {meta})
  BY DEF TypeOK, Bases
<1> HIDE DEF With
<1>4. With(meta) \in images' /\ images' \subseteq Metas
  BY <1>1, <1>2, <1>3
<1>5. \A m \in images' : m.man = x \/ \E b \in images : b.man = m.man
  BY <1>1, <1>2, <1>3
<1> QED
  BY <1>1, <1>2, <1>3, <1>4, <1>5

(* A manifest of what is in memory takes the place of the old one.         *)
LEMMA RenameManifestKeeps ==
    ASSUME WalInv, RenameManifest
    PROVE  WalInv'
<1>1. /\ TypeOK /\ DiskInv /\ JournalInv /\ MemoryInv
      /\ op \in {"recover", "append", "tidy"}
  BY DEF WalInv, TypeOK
<1>2. /\ \/ pc = "prepRename" /\ pc' = "prepRoot"
         \/ pc = "rotRename" /\ pc' = "rotRoot"
         \/ pc = "ckRename" /\ pc' = "ckPublish"
      /\ generation' = generation + 1 /\ LinkManifest(ManifestNow)
      /\ UNCHANGED <<journalled, file, next_seq, checkpoint, segments, fd>>
      /\ UNCHANGED <<degraded, seq, hist, floor, undo>>
      /\ UNCHANGED <<op, batch, newck, collected, removed, owed, peak>>
  BY DEF RenameManifest, diskVars, walVars, mapVars, callVars, ghostVars
<1> DEFINE n == Active.first
           recs == file[n].recs
<1>3. /\ ~degraded
      /\ next_seq = seq + 1 /\ n + Len(recs) = next_seq
      /\ GoodLog(file, checkpoint, segments)
      /\ Listed(segments) \subseteq meta.names
      /\ checkpoint # NoCheckpoint => checkpoint \in meta.cks
  <2>1. ~degraded
    BY <1>1, <1>2 DEF MemoryInv, OpInv, Live, Booting, Loaded, Creating,
       Rotating, Appending, Writing, Installing
  <2>2. Listed(segments) \subseteq meta.names
    BY <1>1, <1>2, <2>1 DEF MemoryInv, HandleInv, Live, Booting, Loaded,
       Creating, Rotating, Appending, Writing, Installing
  <2>3. /\ next_seq = seq + 1 /\ n + Len(recs) = next_seq
        /\ GoodLog(file, checkpoint, segments)
    BY <1>1, <1>2, <2>1 DEF MemoryInv, LogInv, Live, Booting, Loaded,
       Creating, Rotating, Appending, Writing, Installing
  <2>4. checkpoint # NoCheckpoint => checkpoint \in meta.cks
    BY <1>1, <1>2, <2>1 DEF MemoryInv, PublishedInv, Live, Booting, Loaded,
       Creating, Rotating, Appending, Writing, Installing
  <2> QED
    BY <2>1, <2>2, <2>3, <2>4
<1>4. /\ pc = "prepRename" => meta.man = NoManifest /\ checkpoint = NoCheckpoint
      /\ pc # "prepRename" => meta.man # NoManifest
      /\ pc = "rotRename" => /\ meta.man.ck = checkpoint
                             /\ checkpoint.gen <= generation
                             /\ Len(segments) > 1
      /\ pc = "ckRename" => /\ OpenOf(meta.man.segs) = OpenOf(segments)
                            /\ checkpoint = newck
                            /\ newck.gen <= generation + 1
                            /\ newck.hist = hist /\ newck.floor = floor
                            /\ Agree
      /\ pc # "prepRename" => recs = <<>>
  <2>1. /\ pc = "prepRename" => meta.man = NoManifest /\ checkpoint = NoCheckpoint
        /\ pc # "prepRename" => meta.man # NoManifest
        /\ pc = "rotRename" => /\ meta.man.ck = checkpoint
                               /\ checkpoint.gen <= generation
        /\ pc = "ckRename" => OpenOf(meta.man.segs) = OpenOf(segments)
    BY <1>1, <1>2, <1>3 DEF MemoryInv, PublishedInv, Live, Booting, Loaded,
       Creating, Rotating, Appending, Writing, Installing
  <2>2. /\ pc # "prepRename" => recs = <<>>
        /\ pc = "rotRename" => Len(segments) > 1
    BY <1>1, <1>2, <1>3 DEF MemoryInv, OpenInv, Live, Booting, Loaded,
       Creating, Rotating, Appending, Writing, Installing
  <2>3. pc = "ckRename" => Agree
    BY <1>1, <1>2, <1>3 DEF MemoryInv, AgreeInv, Live, Booting, Loaded,
       Creating, Rotating, Appending, Writing, Installing
  <2>4. pc = "ckRename" => /\ checkpoint = newck
                           /\ newck.gen <= generation + 1
                           /\ newck.hist = hist /\ newck.floor = floor
    BY <1>1, <1>2, <1>3 DEF MemoryInv, SnapshotInv, Live, Booting, Loaded,
       Creating, Rotating, Appending, Writing, Installing
  <2> QED
    BY <1>2, <2>1, <2>2, <2>3, <2>4
<1>5. /\ n \in Firsts /\ n \in Nat /\ n = OpenOf(segments)
      /\ file \in [Firsts -> Files] /\ file[n].synced \in Nat
      /\ checkpoint \in Checkpoints /\ segments \in Seq(Segments) /\ segments # <<>>
      /\ seq \in Nat /\ peak \in Nat /\ next_seq \in Nat /\ generation \in Nat
      /\ Owing \in Histories /\ \A t \in Tags : owed[t] <= peak
      /\ \A k \in Firsts : GoodFile(file, k)
      /\ meta.man \in Manifests /\ GoodManifest(file, Owing, peak, meta.man)
  BY <1>1, ActiveFacts, TypeFacts DEF TypeOK, DiskInv
<1>6. /\ Keeps(Owing, seq, hist, floor) /\ peak <= seq
      /\ recs = <<>> /\ n = seq + 1 /\ file[n].synced = 0
  <2>1. Keeps(Owing, seq, hist, floor) /\ peak <= seq
    BY <1>1, <1>2 DEF MemoryInv, HistoryInv, Booting
  <2>2. recs = <<>>
    <3>1. CASE pc = "prepRename"
      <4>1. file[n] = EmptyFile
        BY <1>4, <1>5, <3>1, ManifestCases
      <4> QED
        BY <4>1 DEF EmptyFile
    <3> QED
      BY <1>4, <3>1
  <2>3. Len(recs) = 0
    BY <2>2
  <2>4. file[n].synced <= Len(recs)
    BY <1>5 DEF GoodFile
  <2> HIDE DEF n, recs
  <2> QED
    BY <1>3, <1>5, <2>1, <2>2, <2>3, <2>4 DEF n, recs
<1> HIDE DEF n, recs
<1>7. ManifestNow \in Manifests
  <2>1. generation + 1 \in Nat /\ next_seq - 1 \in Seqs
    BY <1>1, <1>5, MaxSeqNat DEF TypeOK, Firsts, Seqs
  <2> QED
    BY <1>5, <2>1 DEF ManifestNow, Manifests
<1>8. /\ images' \subseteq Metas /\ meta' \in images' /\ meta'.man = ManifestNow
      /\ meta'.names = meta.names /\ meta'.cks = meta.cks
      /\ \A m \in images' : m.man = ManifestNow \/ \E b \in images : b.man = m.man
      /\ journalled => images' \subseteq images \cup {meta'}
  BY <1>1, <1>2, <1>7, LinkManifestIs
<1>9. /\ ManifestNow.gen = generation + 1 /\ ManifestNow.last = seq
      /\ ManifestNow.ck = checkpoint /\ ManifestNow.segs = segments
      /\ ManifestNow # NoManifest
  <2>1. next_seq - 1 = seq
    BY <1>3, <1>5
  <2> QED
    BY <1>5, <2>1 DEF ManifestNow, NoManifest
<1>10. ASSUME NEW t \in Tags
      PROVE  Tells(file, checkpoint, segments, t, Owing[t])
  <2>1. /\ Owing[t] \in Nat /\ hist[t] \in Nat /\ floor \in Nat
        /\ checkpoint.floor \in Nat /\ checkpoint.wal \in Nat
    BY <1>1, <1>5, TypeFacts, MaxSeqNat DEF Histories, Seqs, Checkpoints
  <2>2. CASE pc = "prepRename"
    <3>1. Owing[t] = 0
      BY <1>4, <1>5, <2>2, ManifestCases
    <3> QED
      BY <2>1, <3>1 DEF Tells
  <2>3. CASE pc = "ckRename"
    <3>1. Owing[t] <= hist[t] \/ Owing[t] <= floor
      BY <1>6, <2>1 DEF Keeps, MaxOf
    <3> QED
      BY <1>4, <2>3, <3>1 DEF Tells
  <2>4. CASE pc = "rotRename"
    <3>1. /\ GoodLog(file, checkpoint, meta.man.segs)
          /\ Tells(file, checkpoint, meta.man.segs, t, Owing[t])
      BY <1>4, <1>5, <2>4, ManifestCases
    <3>2. meta.man.segs \in Seq(Segments)
      BY <1>1, TypeFacts
    <3>3. ASSUME NEW k \in Listed(meta.man.segs), NEW j \in 1 .. file[k].synced
          PROVE  k \in Listed(segments)
      <4>1. k \in Firsts /\ k \in Nat /\ checkpoint.wal < k
        <5>1. PICK i \in 1 .. Len(meta.man.segs) : k = meta.man.segs[i].first
          BY DEF Listed
        <5>2. checkpoint.wal < k
          BY <1>5, <3>1, <3>2, <5>1, Ordered DEF GoodLog
        <5> QED
          BY <3>2, <5>2, ListedFirsts, MaxSeqNat DEF Firsts
      <4>2. /\ j \in 1 .. Len(file[k].recs) /\ file[k].synced \in Nat
            /\ Len(file[k].recs) \in Nat /\ Len(file[k].recs) > 0
        <5>1. file[k].synced <= Len(file[k].recs)
          BY <1>5, <4>1 DEF GoodFile
        <5>2. file[k].synced \in Nat /\ Len(file[k].recs) \in Nat
          BY <1>5, <4>1 DEF Files
        <5> QED
          BY <5>1, <5>2
      <4>3. k + Len(file[k].recs) <= n
        <5>1. ~ k > n
          BY <1>3, <1>5, <4>1, <4>2 DEF GoodLog, EmptyFile
        <5>2. k # n
          BY <1>6, <4>2 DEF recs
        <5>3. k < n => k + Len(file[k].recs) <= n
          BY <1>3, <1>5, <4>1 DEF GoodLog
        <5> QED
          BY <1>5, <4>1, <5>1, <5>2, <5>3
      <4>4. LogEnd = n - 1
        BY <1>6, <1>5 DEF LogEnd, n, recs
      <4>5. k + j - 1 \in checkpoint.wal + 1 .. LogEnd
        <5>1. j \in Nat /\ 1 <= j /\ j <= Len(file[k].recs)
          BY <4>2
        <5>2. n \in Nat /\ k \in Nat /\ checkpoint.wal \in Nat /\ Len(file[k].recs) \in Nat
          BY <1>5, <2>1, <4>1, <4>2
        <5>3. \A a \in Nat, b \in Nat, c \in Nat, i \in Nat, l \in Nat :
                 c < b /\ 1 <= i /\ i <= l /\ b + l <= a
                 => b + i - 1 \in c + 1 .. a - 1
          OBVIOUS
        <5>4. k + j - 1 \in checkpoint.wal + 1 .. n - 1
          BY <4>1, <4>3, <5>1, <5>2, <5>3, Zenon
        <5> QED
          BY <4>4, <5>4
      <4>6. Readable
        BY <1>3, <1>5 DEF Readable
      <4>7. PICK q \in Listed(segments) : \E i \in 1 .. Len(file[q].recs) :
               k + j - 1 = q + i - 1
        BY <4>5, <4>6, NumbersCovered
      <4>8. PICK i \in 1 .. Len(file[q].recs) : k + j - 1 = q + i - 1
        BY <4>7
      <4>9. q \in Firsts /\ q \in Nat
        BY <1>5, ListedFirsts, MaxSeqNat DEF Firsts
      <4>10. k + j = q + i
        BY <4>1, <4>2, <4>8, <4>9
      <4>11. k = q
        BY <4>1, <4>2, <4>6, <4>9, <4>10, RecordOnce
      <4> QED
        BY <4>11
    <3> QED
      BY <3>1, <3>3 DEF Tells
  <2> QED
    BY <1>2, <2>2, <2>3, <2>4
<1>11. GoodManifest(file, Owing, peak, ManifestNow)
  <2>1. Reach(file, segments) = seq
    BY <1>6, <1>5 DEF Reach
  <2>2. checkpoint.gen <= generation + 1
    <3>1. checkpoint.gen \in Nat
      BY <1>5 DEF Checkpoints
    <3>2. pc = "prepRename" => checkpoint.gen = 0
      BY <1>4 DEF NoCheckpoint
    <3> QED
      BY <1>2, <1>4, <1>5, <3>1, <3>2
  <2>3. seq <= seq
    BY <1>5
  <2> QED
    BY <1>3, <1>9, <1>10, <1>6, <2>1, <2>2, <2>3 DEF GoodManifest
<1>12. /\ pc = "ckRename" => Agree'
       /\ pc = "rotRename" => checkpoint.wal < seq
  <2>1. pc = "ckRename" => Agree'
    BY <1>4, <1>9, <1>8 DEF Agree
  <2>2. ASSUME pc = "rotRename"
        PROVE  checkpoint.wal < seq
    <3>1. 1 \in 1 .. Len(segments) - 1
      BY <1>4, <1>5, <2>2
    <3>2. /\ \A i \in 1 .. Len(segments) - 1 :
                /\ segments[i] \in Segments
                /\ segments[i].last < OpenOf(segments)
                /\ checkpoint.wal < segments[i].last
          /\ checkpoint.wal \in Nat
      BY <1>3, <1>5, LogShape
    <3>3. /\ segments[1] \in Segments
          /\ segments[1].last < n /\ checkpoint.wal < segments[1].last
      BY <1>5, <3>1, <3>2
    <3>4. segments[1].last \in Nat
      BY <3>3, MaxSeqNat DEF Segments, Seqs
    <3> QED
      BY <1>6, <1>5, <3>2, <3>3, <3>4
  <2> QED
    BY <2>1, <2>2
<1>13. Complete(meta')
  BY <1>3, <1>9, <1>8 DEF Complete
<1>14. Owing' = Owing
  BY <1>2 DEF Owing
<1>15. TypeOK'
  BY <1>1, <1>2, <1>5, <1>8 DEF TypeOK, Steps
<1>16. DiskInv'
  <2>1. \A m \in images' : GoodManifest(file, Owing, peak, m.man)
    BY <1>1, <1>8, <1>11 DEF DiskInv
  <2>2. \/ Agree' \/ meta'.man.ck = NoCheckpoint
        \/ meta'.man.ck.wal < meta'.man.last
    <3>1. meta'.man.ck = checkpoint /\ meta'.man.last = seq
      BY <1>9, <1>8
    <3>2. CASE pc = "prepRename"
      BY <1>4, <3>1, <3>2
    <3>3. CASE pc = "rotRename"
      BY <1>12, <3>1, <3>3
    <3>4. CASE pc = "ckRename"
      BY <1>12, <3>4
    <3> QED
      BY <1>2, <3>2, <3>3, <3>4
  <2> QED
    BY <1>2, <1>5, <1>14, <2>1, <2>2 DEF DiskInv
<1>17. JournalInv'
  BY <1>1, <1>2, <1>8, <1>13 DEF JournalInv
<1>18. OpInv'
  BY <1>1, <1>2 DEF MemoryInv, OpInv, Live, Booting, Loaded, Creating,
     Rotating, Appending, Writing, Installing
<1>19. BootInv'
  BY <1>1, <1>2 DEF MemoryInv, BootInv, Fresh, AsRead, Booting, Loaded
<1>20. LogInv'
  BY <1>1, <1>2 DEF MemoryInv, LogInv, Active, Live, Booting, Loaded,
     Creating, Rotating, Appending, Writing, Installing
<1>21. OpenInv'
  BY <1>1, <1>2 DEF MemoryInv, OpInv, OpenInv, Active, Live, Booting, Loaded,
     Creating, Rotating, Appending, Writing, Installing
<1>22. HandleInv'
  BY <1>1, <1>2, <1>3, <1>8 DEF MemoryInv, HandleInv, Active, Live, Booting,
     Loaded, Creating, Rotating, Appending, Writing, Installing
<1>23. PublishedInv'
  <2>1. checkpoint.gen <= generation + 1
    BY <1>11, <1>9, ManifestCases
  <2> QED
    BY <1>2, <1>3, <1>4, <1>9, <1>8, <2>1 DEF PublishedInv, Live, Booting,
       Loaded, Creating, Rotating, Appending, Writing, Installing
<1>24. AgreeInv'
  <2>1. pc' \in {"prepRoot", "rotRoot"} \/ Agree'
    BY <1>2, <1>12
  <2> QED
    BY <2>1 DEF AgreeInv, Live, Booting, Loaded, Creating, Rotating,
       Appending, Writing, Installing
<1>25. SnapshotInv'
  <2>1. pc = "rotRename" /\ op # "append" =>
           /\ newck.wal = seq /\ newck.seq = seq
           /\ newck.hist = hist /\ newck.floor = floor
           /\ newck \in meta.cks
           /\ meta.man.ck.gen < newck.gen /\ newck.gen <= generation + 1
    BY <1>1, <1>2, <1>3 DEF MemoryInv, SnapshotInv, Live, Booting, Loaded,
       Creating, Rotating, Appending, Writing, Installing
  <2>2. pc = "ckRename" => /\ collected.ck.gen < checkpoint.gen
                           /\ collected.segs \cap Listed(segments) = {}
    BY <1>1, <1>2, <1>3 DEF MemoryInv, SnapshotInv, Live, Booting, Loaded,
       Creating, Rotating, Appending, Writing, Installing
  <2>3. meta'.man.ck = checkpoint /\ meta'.cks = meta.cks
    BY <1>9, <1>8
  <2>4. newck.gen \in Nat
    BY <1>1 DEF TypeOK, Checkpoints
  <2>5. newck.gen <= generation + 1 => newck.gen <= generation' + 1
    BY <1>2, <1>5, <2>4
  <2>6. /\ pc' = "rotRoot" /\ op' # "append" =>
              /\ newck'.wal = seq' /\ newck'.seq = seq'
              /\ newck'.hist = hist' /\ newck'.floor = floor'
              /\ newck' \in meta'.cks
              /\ meta'.man.ck.gen < newck'.gen /\ newck'.gen <= generation' + 1
        /\ pc' = "ckPublish" => /\ collected'.ck.gen < checkpoint'.gen
                                /\ collected'.segs \cap Listed(segments') = {}
    BY <1>2, <1>4, <2>1, <2>2, <2>3, <2>5
  <2>7. pc' \in {"prepRoot", "rotRoot", "ckPublish"}
    BY <1>2
  <2>8. pc' = "prepRoot" => op' = "recover"
    BY <1>1, <1>2 DEF MemoryInv, OpInv, Live, Booting, Loaded, Creating,
       Rotating, Appending, Writing, Installing
  <2> QED
    BY <2>6, <2>7, <2>8 DEF SnapshotInv, Live, Booting, Loaded, Creating,
       Rotating, Appending, Writing, Installing
<1>26. HistoryInv'
  BY <1>1, <1>2, <1>14 DEF MemoryInv, OpInv, HistoryInv, Up, Live, Booting,
     Loaded, Creating, Rotating, Appending, Writing, Installing
<1> QED
  BY <1>15, <1>16, <1>17, <1>18, <1>19, <1>20, <1>21, <1>22, <1>23, <1>24,
     <1>25, <1>26 DEF WalInv, MemoryInv

(* The open segment's file is there, and is cut.                           *)
LEMMA PrepareOpens ==
    ASSUME WalInv, Prepare, fd \/ Active.first \in meta.names
    PROVE  WalInv'
<1>1. /\ TypeOK /\ DiskInv /\ JournalInv /\ MemoryInv
      /\ op \in {"recover", "append", "tidy"}
  BY DEF WalInv, TypeOK
<1>2. /\ pc = "prep" /\ pc' = Prepared /\ fd' = TRUE
      /\ meta' = meta /\ images' = images
      /\ file' = IF ~fd /\ file[Active.first].torn
                 THEN [file EXCEPT ![Active.first].torn = FALSE,
                                   ![Active.first].clean = FALSE]
                 ELSE file
      /\ UNCHANGED <<journalled, next_seq, generation, checkpoint, segments>>
      /\ UNCHANGED <<degraded, seq, hist, floor, undo>>
      /\ UNCHANGED <<op, batch, newck, collected, removed, owed, peak>>
  BY DEF Prepare, diskVars, walVars, mapVars, callVars, ghostVars
<1> DEFINE n == Active.first
           recs == file[n].recs
<1>3. /\ ~degraded
      /\ next_seq = seq + 1 /\ n + Len(recs) = next_seq
      /\ Active.bytes = BytesOf(recs)
      /\ GoodLog(file, checkpoint, segments)
      /\ meta.man # NoManifest /\ Listed(segments) \subseteq meta.names
      /\ pc' \in {"room", "ckWrite"}
      /\ pc' = "room" => op = "append" /\ Agree
      /\ pc' = "ckWrite" => op # "append"
  <2>1. ~degraded
    BY <1>1, <1>2 DEF MemoryInv, OpInv, Live, Booting, Loaded, Creating,
       Rotating, Appending, Writing, Installing
  <2>2. Active.bytes + 0 = Active.bytes
    BY <1>1, ActiveFacts
  <2>3. /\ meta.man = NoManifest \/ Listed(segments) \subseteq meta.names
        /\ op = "recover" => ~fd
    BY <1>1, <1>2, <2>1 DEF MemoryInv, HandleInv, Live, Booting, Loaded,
       Creating, Rotating, Appending, Writing, Installing
  <2>4. /\ next_seq = seq + 1 /\ n + Len(recs) = next_seq
        /\ Active.bytes + 0 = BytesOf(recs)
        /\ GoodLog(file, checkpoint, segments)
    BY <1>1, <1>2, <2>1 DEF MemoryInv, LogInv, Live, Booting, Loaded,
       Creating, Rotating, Appending, Writing, Installing
  <2>5. meta.man = NoManifest => op = "recover" /\ meta.names = {}
    BY <1>1, <1>2, <2>1 DEF MemoryInv, PublishedInv, Live, Booting, Loaded,
       Creating, Rotating, Appending, Writing, Installing
  <2>6. op = "append" => Agree
    BY <1>1, <1>2, <2>1 DEF MemoryInv, AgreeInv, Live, Booting, Loaded,
       Creating, Rotating, Appending, Writing, Installing
  <2>7. /\ pc' \in {"room", "ckWrite"}
        /\ pc' = "room" => op = "append"
        /\ pc' = "ckWrite" => op # "append"
    BY <1>2 DEF Prepared
  <2> QED
    BY <2>1, <2>2, <2>3, <2>4, <2>5, <2>6, <2>7
<1>4. /\ n \in Firsts /\ n = OpenOf(segments) /\ file[n] \in Files
      /\ file \in [Firsts -> Files] /\ checkpoint \in Checkpoints
      /\ segments \in Seq(Segments) /\ Owing \in Histories
      /\ \A k \in Firsts : GoodFile(file, k)
  BY <1>1, ActiveFacts, TypeFacts DEF TypeOK, DiskInv
<1>5. /\ file' \in [Firsts -> Files]
      /\ \A k \in Firsts : GoodFile(file', k)
      /\ file'[n].recs = recs
      /\ ~fd => ~file'[n].torn
      /\ fd => file' = file
      /\ \A o : Kept(file, file', o)
      /\ Grown(file, file')
  <2>1. CASE ~fd /\ file[n].torn
    <3> DEFINE f1 == [file[n] EXCEPT !.torn = FALSE]
               f2 == [f1 EXCEPT !.clean = FALSE]
               g == [file EXCEPT ![n] = f2]
    <3>1. file' = g
      <4>1. file' = [file EXCEPT ![n].torn = FALSE, ![n].clean = FALSE]
        BY <1>2, <2>1
      <4> QED
        BY <1>4, <4>1
    <3>2. /\ f1 \in Files /\ f1.recs = file[n].recs
          /\ f1.synced = file[n].synced /\ ~f1.torn
      BY <1>4 DEF Files
    <3> HIDE DEF f1
    <3>3. /\ f2 \in Files /\ f2.recs = f1.recs
          /\ f2.synced = f1.synced /\ ~f2.torn /\ ~f2.clean
      BY <3>2 DEF Files
    <3> HIDE DEF f2
    <3>4. /\ g \in [Firsts -> Files]
          /\ \A k \in Firsts : GoodFile(g, k)
          /\ \A k \in Firsts : g[k].recs = file[k].recs
          /\ Kept(file, g, n)
          /\ Grown(file, g)
      BY <1>4, <3>2, <3>3, FilesPatched
    <3>5. g[n] = f2
      BY <1>4
    <3> HIDE DEF g
    <3>6. Len(g[n].recs) <= Len(file[n].recs)
      <4>1. Len(file[n].recs) \in Nat
        BY <1>4 DEF Files
      <4> QED
        BY <1>4, <3>4, <4>1
    <3>7. \A o : Kept(file, g, o)
      BY <2>1, <3>4, <3>6 DEF Kept
    <3> QED
      BY <1>4, <2>1, <3>1, <3>3, <3>4, <3>5, <3>7
  <2>2. CASE fd \/ ~file[n].torn
    <3>1. file' = file
      BY <1>2, <2>2
    <3>2. \A o : Kept(file, file, o)
      BY <1>4 DEF Kept, Files
    <3>3. Grown(file, file)
      BY <1>4 DEF Grown, Files
    <3> QED
      BY <1>4, <2>2, <3>1, <3>2, <3>3
  <2> QED
    BY <2>1, <2>2
<1>6. GoodLog(file', checkpoint, segments)
  BY <1>3, <1>4, <1>5, LogKept
<1>7. Active' = Active
  BY <1>2 DEF Active
<1> HIDE DEF n, recs
<1>8. TypeOK'
  BY <1>1, <1>2, <1>3, <1>5 DEF TypeOK, Steps, Files
<1>9. Owing' = Owing
  BY <1>2, <1>3 DEF Owing
<1>10. DiskInv' /\ (Agree => Agree')
  <2>1. \A t \in Tags : Owing[t] <= Owing[t]
    BY <1>1, <1>4, MaxSeqNat DEF Histories, Seqs
  <2>2. \A m \in images' : \E b \in images : b.man = m.man
    BY <1>2
  <2> QED
    BY <1>1, <1>2, <1>9, <1>5, <1>4, <2>1, <2>2, DiskStep
<1>11. JournalInv'
  BY <1>1, <1>2 DEF JournalInv
<1>12. OpInv'
  BY <1>1, <1>2, <1>3 DEF MemoryInv, OpInv, Live, Booting, Loaded, Creating,
     Rotating, Appending, Writing, Installing
<1>13. BootInv'
  BY <1>3 DEF BootInv, Booting
<1>14. LogInv'
  <2>1. Active'.first + Len(file'[Active'.first].recs) = next_seq'
    BY <1>2, <1>3, <1>5, <1>7 DEF n, recs
  <2>2. Active'.bytes + 0 = BytesOf(file'[Active'.first].recs)
    <3>1. Active.bytes + 0 = Active.bytes
      BY <1>1, ActiveFacts
    <3> QED
      BY <1>2, <1>3, <1>5, <1>7, <3>1 DEF n, recs
  <2> QED
    BY <1>2, <1>3, <1>6, <2>1, <2>2 DEF LogInv
<1>15. OpenInv'
  <2>1. op = "append" => batch # {} /\ seq < MaxSeq
    BY <1>1, <1>2, <1>3 DEF MemoryInv, OpenInv, Live, Booting, Loaded,
       Creating, Rotating, Appending, Writing, Installing
  <2> QED
    BY <1>2, <1>3, <2>1 DEF OpenInv, Live, Booting, Loaded, Creating,
       Rotating, Appending, Writing, Installing
<1>16. HandleInv'
  <2>1. fd => ~file[n].torn
    BY <1>1, <1>2, <1>3 DEF MemoryInv, HandleInv, n, Live, Booting, Loaded,
       Creating, Rotating, Appending, Writing, Installing
  <2>2. ~file'[Active'.first].torn
    BY <1>5, <1>7, <2>1 DEF n
  <2> QED
    BY <1>2, <1>3, <2>2 DEF HandleInv
<1>17. PublishedInv'
  BY <1>1, <1>2, <1>3 DEF MemoryInv, PublishedInv, Fresh, Live, Booting,
     Loaded, Creating, Rotating, Appending, Writing, Installing
<1>18. AgreeInv'
  BY <1>3, <1>10 DEF AgreeInv, Live, Booting, Loaded, Creating, Rotating,
     Appending, Writing, Installing
<1>19. SnapshotInv'
  BY <1>3 DEF SnapshotInv, Live, Booting, Loaded, Creating, Rotating,
     Appending, Writing, Installing
<1>20. HistoryInv'
  BY <1>1, <1>2, <1>3, <1>9 DEF MemoryInv, OpInv, HistoryInv, Up, Live,
     Booting, Loaded, Creating, Rotating, Appending, Writing, Installing
<1> QED
  BY <1>8, <1>10, <1>11, <1>12, <1>13, <1>14, <1>15, <1>16, <1>17, <1>18,
     <1>19, <1>20 DEF WalInv, MemoryInv

(* The open segment's file is not there, and is created.                   *)
LEMMA PrepareCreates ==
    ASSUME WalInv, Prepare, ~fd, Active.first \notin meta.names
    PROVE  WalInv'
<1>1. /\ TypeOK /\ DiskInv /\ JournalInv /\ MemoryInv
      /\ op \in {"recover", "append", "tidy"}
  BY DEF WalInv, TypeOK
<1>2. /\ pc = "prep" /\ pc' = "prepWal" /\ fd' = TRUE
      /\ Link(Active.first)
      /\ file' = [file EXCEPT ![Active.first] = EmptyFile]
      /\ UNCHANGED <<journalled, next_seq, generation, checkpoint, segments>>
      /\ UNCHANGED <<degraded, seq, hist, floor, undo>>
      /\ UNCHANGED <<op, batch, newck, collected, removed, owed, peak>>
  BY DEF Prepare, diskVars, walVars, mapVars, callVars, ghostVars
<1>3. /\ ~degraded /\ meta.man = NoManifest /\ op = "recover" /\ Fresh
  <2>1. ~degraded
    BY <1>1, <1>2 DEF MemoryInv, OpInv, Live, Booting, Loaded, Creating,
       Rotating, Appending, Writing, Installing
  <2>2. meta.man = NoManifest
    <3>1. meta.man = NoManifest \/ Listed(segments) \subseteq meta.names
      BY <1>1, <1>2, <2>1 DEF MemoryInv, HandleInv, Live, Booting, Loaded,
         Creating, Rotating, Appending, Writing, Installing
    <3>2. Active.first \in Listed(segments)
      BY <1>1, ListedFirsts DEF TypeOK, Active
    <3> QED
      BY <3>1, <3>2
  <2>3. op = "recover" /\ Fresh
    BY <1>1, <1>2, <2>1, <2>2 DEF MemoryInv, PublishedInv, Live, Booting,
       Loaded, Creating, Rotating, Appending, Writing, Installing
  <2> QED
    BY <2>1, <2>2, <2>3
<1>4. Active.first \in Firsts /\ file' = file /\ file[Active.first] = EmptyFile
  <2>1. GoodManifest(file, Owing, peak, meta.man) /\ file \in [Firsts -> Files]
    BY <1>1, TypeFacts DEF DiskInv
  <2>2. Active.first \in Firsts
    BY <1>1, ActiveFacts
  <2>3. file[Active.first] = EmptyFile
    BY <1>3, <2>1, <2>2, ManifestCases
  <2> QED
    BY <1>2, <2>1, <2>2, <2>3
<1>5. /\ Relinked /\ meta'.names = meta.names \cup {Active.first}
      /\ meta'.cks = meta.cks /\ meta'.man = meta.man
  BY <1>1, <1>2, <1>4, LinkIs DEF Relinked
<1>6. /\ Listed(segments) = {Active.first} /\ Active' = Active
      /\ checkpoint = NoCheckpoint
  <2>1. segments = <<NewSegment(1)>> /\ checkpoint = NoCheckpoint
    BY <1>3 DEF Fresh
  <2>2. Len(<<NewSegment(1)>>) = 1 /\ <<NewSegment(1)>>[1] = NewSegment(1)
    OBVIOUS
  <2>3. Active = NewSegment(1)
    BY <2>1, <2>2 DEF Active
  <2> QED
    BY <1>2, <2>1, <2>2, <2>3 DEF Listed, Active
<1>7. Complete(meta) => Complete(meta')
  BY <1>5 DEF Complete
<1>8. TypeOK'
  BY <1>1, <1>2, <1>4, <1>5 DEF TypeOK, Steps, Relinked
<1>9. Owing' = Owing
  BY <1>2 DEF Owing
<1>10. DiskInv' /\ (Agree => Agree')
  <2>1. Relinked /\ file' = file /\ peak' = peak /\ owed' = owed
    BY <1>2, <1>4, <1>5
  <2> QED
    BY <1>1, <1>9, <2>1, DiskSame
<1>11. JournalInv'
  BY <1>1, <1>2, <1>5, <1>7, JournalStep DEF TypeOK
<1>12. OpInv'
  BY <1>1, <1>2, <1>3 DEF MemoryInv, OpInv, Live, Booting, Loaded, Creating,
     Rotating, Appending, Writing, Installing
<1>13. BootInv'
  BY <1>1, <1>2 DEF MemoryInv, BootInv, Fresh, AsRead, Booting, Loaded
<1>14. LogInv'
  BY <1>1, <1>2, <1>3, <1>4 DEF MemoryInv, LogInv, Active, Live, Booting,
     Loaded, Creating, Rotating, Appending, Writing, Installing
<1>15. OpenInv'
  BY <1>2, <1>3 DEF OpenInv, Live, Booting, Loaded, Creating, Rotating,
     Appending, Writing, Installing
<1>16. HandleInv'
  BY <1>2, <1>4, <1>5, <1>6 DEF HandleInv, EmptyFile
<1>17. PublishedInv'
  BY <1>2, <1>3, <1>5, <1>6 DEF PublishedInv, Fresh
<1>18. AgreeInv'
  BY <1>2, <1>3 DEF AgreeInv, Live, Booting, Loaded, Creating, Rotating,
     Appending, Writing, Installing
<1>19. SnapshotInv'
  BY <1>2, <1>3 DEF SnapshotInv, Live, Booting, Loaded, Creating, Rotating,
     Appending, Writing, Installing
<1>20. HistoryInv'
  BY <1>1, <1>2, <1>3, <1>9 DEF MemoryInv, OpInv, HistoryInv, Up, Live,
     Booting, Loaded, Creating, Rotating, Appending, Writing, Installing
<1> QED
  BY <1>8, <1>10, <1>11, <1>12, <1>13, <1>14, <1>15, <1>16, <1>17, <1>18,
     <1>19, <1>20 DEF WalInv, MemoryInv

(* The open segment is prepared, either way.                               *)
LEMMA PrepareKeeps ==
    ASSUME WalInv, Prepare
    PROVE  WalInv'
BY PrepareOpens, PrepareCreates

(* What a replay leaves in the map.                                        *)
LEMMA RecoveredShape ==
    ASSUME Readable
    PROVE  /\ Recovered.hist \in Histories /\ Recovered.floor \in Seqs
           /\ Recovered.seq = LogEnd
           /\ LogEnd \in Seqs /\ LogEnd + 1 \in Firsts
           /\ Within(LogEnd, Recovered.hist, Recovered.floor)
           /\ BytesOf(file[Active.first].recs) \in Nat
<1> DEFINE v == Recovered
           n == Active.first
           recs == file[n].recs
<1>1. /\ checkpoint.wal \in Nat /\ LogEnd \in Nat /\ checkpoint.wal <= LogEnd
      /\ checkpoint.seq = checkpoint.wal
      /\ n \in Firsts /\ n \in Nat /\ file[n] \in Files /\ Len(recs) \in Nat
  BY ReadableShape
<1>2. checkpoint.seq + (LogEnd - checkpoint.wal) = LogEnd
  BY <1>1
<1>3. /\ v.seq = checkpoint.seq + (LogEnd - checkpoint.wal)
      /\ v.hist \in Histories /\ v.floor \in Seqs
      /\ Within(checkpoint.seq + (LogEnd - checkpoint.wal), v.hist, v.floor)
  <2> DEFINE w == Replayed[LogEnd - checkpoint.wal]
  <2>1. /\ w = [hist |-> w.hist, floor |-> w.floor,
                seq |-> checkpoint.seq + (LogEnd - checkpoint.wal)]
        /\ w.hist \in Histories /\ w.floor \in Seqs
        /\ Within(checkpoint.seq + (LogEnd - checkpoint.wal), w.hist, w.floor)
    BY Replays DEF ReplayedOK
  <2>2. v = w
    BY DEF Recovered
  <2> HIDE DEF v, w
  <2> QED
    BY <2>1, <2>2
<1>4. recs \in Seq(Records)
  BY <1>1 DEF Files
<1>5. LogEnd \in Seqs /\ LogEnd + 1 \in Firsts
  <2>1. LogEnd = n + Len(recs) - 1
    BY DEF LogEnd
  <2>2. CASE Len(recs) = 0
    <3> HIDE DEF n, recs
    <3> QED
      BY <1>1, <2>1, <2>2, MaxSeqNat DEF Firsts, Seqs
  <2>3. CASE Len(recs) # 0
    <3>1. Len(recs) \in 1 .. Len(recs)
      BY <1>1, <2>3
    <3>2. /\ recs[Len(recs)] \in Records
          /\ recs[Len(recs)].wal = n + Len(recs) - 1
      BY <1>1, <3>1, RecordShape
    <3>3. recs[Len(recs)].wal \in 1 .. MaxSeq
      BY <3>2 DEF Records
    <3> HIDE DEF n, recs
    <3> QED
      BY <1>1, <2>1, <3>2, <3>3, MaxSeqNat DEF Firsts, Seqs
  <2> QED
    BY <2>2, <2>3
<1>6. BytesOf(recs) \in Nat
  <2>1. CASE recs = <<>>
    BY <2>1 DEF BytesOf
  <2>2. CASE recs # <<>>
    <3> HIDE DEF recs
    <3>1. recs[Len(recs)] \in Records
      BY <1>4, <2>2
    <3>2. recs[Len(recs)].end \in Nat
      BY <3>1 DEF Records
    <3> QED
      BY <2>2, <3>2 DEF BytesOf
  <2> QED
    BY <2>1, <2>2
<1> HIDE DEF v
<1>7. v.seq = LogEnd /\ Within(LogEnd, v.hist, v.floor)
  BY <1>2, <1>3
<1> QED
  BY <1>3, <1>5, <1>6, <1>7 DEF v

(* What a start finds in the directories, and has read from them.          *)
LEMMA ReplayFacts ==
    ASSUME WalInv, pc = "replay", meta.man # NoManifest
    PROVE  /\ Readable
           /\ op = "recover" /\ ~degraded /\ ~fd /\ Owing = owed
           /\ checkpoint = meta.man.ck /\ segments = meta.man.segs
           /\ generation = meta.man.gen /\ next_seq = 1 + meta.man.last
           /\ checkpoint.gen <= generation
           /\ meta.man.last <= Reach(file, segments)
           /\ peak <= Reach(file, segments)
           /\ \A t \in Tags : Tells(file, checkpoint, segments, t, owed[t])
           /\ Reach(file, segments) \in Int
           /\ Reach(file, segments) <= LogEnd
<1>1. /\ TypeOK /\ DiskInv /\ JournalInv /\ MemoryInv
      /\ op \in {"recover", "append", "tidy"}
  BY DEF WalInv, TypeOK
<1>2. op = "recover" /\ ~degraded
  BY <1>1 DEF MemoryInv, OpInv, Live, Booting, Loaded, Creating, Rotating, Appending, Writing, Installing
<1>3. /\ ~fd /\ checkpoint = meta.man.ck /\ segments = meta.man.segs
      /\ generation = meta.man.gen /\ next_seq = 1 + meta.man.last
  BY <1>1 DEF MemoryInv, BootInv, AsRead, Booting, Loaded
<1>4. Owing = owed
  BY <1>2 DEF Owing
<1>5. /\ GoodLog(file, checkpoint, segments) /\ checkpoint.gen <= generation
      /\ meta.man.last <= Reach(file, segments)
      /\ peak <= Reach(file, segments)
      /\ \A t \in Tags : Tells(file, checkpoint, segments, t, owed[t])
  <2>1. GoodManifest(file, owed, peak, meta.man)
    BY <1>1, <1>4, TypeFacts DEF DiskInv
  <2>2. /\ GoodLog(file, meta.man.ck, meta.man.segs)
        /\ meta.man.ck.gen <= meta.man.gen
        /\ meta.man.last <= Reach(file, meta.man.segs)
        /\ peak <= Reach(file, meta.man.segs)
        /\ \A t \in Tags : Tells(file, meta.man.ck, meta.man.segs, t, owed[t])
    BY <2>1, ManifestCases
  <2> QED
    BY <1>3, <2>2
<1>6. Readable
  BY <1>1, <1>5, TypeFacts DEF Readable, DiskInv, TypeOK
<1>7. Reach(file, segments) \in Int /\ Reach(file, segments) <= LogEnd
  <2> DEFINE n == Active.first
  <2>1. n \in Firsts /\ n \in Nat /\ n = OpenOf(segments) /\ file[n] \in Files
        /\ Len(file[n].recs) \in Nat
    BY <1>6, ReadableShape
  <2>2. file[n].synced \in Nat /\ file[n].synced <= Len(file[n].recs)
    BY <1>6, <2>1 DEF Readable, GoodFile, Files
  <2> HIDE DEF n
  <2>3. Reach(file, segments) = n + file[n].synced - 1
    BY <2>1 DEF Reach
  <2>4. LogEnd = n + Len(file[n].recs) - 1
    BY DEF LogEnd, n
  <2> QED
    BY <2>1, <2>2, <2>3, <2>4
<1> QED
  BY <1>2, <1>3, <1>4, <1>5, <1>6, <1>7

(* A log that cannot be read is refused.                                   *)
LEMMA ReplayRefuses ==
    ASSUME WalInv, Replay, ~Replayable
    PROVE  WalInv'
<1>1. /\ TypeOK /\ DiskInv /\ JournalInv /\ MemoryInv
      /\ op \in {"recover", "append", "tidy"}
  BY DEF WalInv, TypeOK
<1>2. /\ pc = "replay" /\ pc' = "refused"
      /\ meta' = meta /\ images' = images
      /\ UNCHANGED <<journalled, file, next_seq, generation, checkpoint>>
      /\ UNCHANGED <<segments, fd, degraded, seq, hist, floor, undo>>
      /\ UNCHANGED <<op, batch, newck, collected, removed, owed, peak>>
  BY DEF Replay, diskVars, walVars, mapVars, callVars, ghostVars
<1>3. op = "recover" /\ ~degraded
  BY <1>1, <1>2 DEF MemoryInv, OpInv, Live, Booting, Loaded, Creating,
     Rotating, Appending, Writing, Installing
<1>4. TypeOK'
  BY <1>1, <1>2 DEF TypeOK, Steps
<1>5. Owing' = Owing
  BY <1>2 DEF Owing
<1>6. DiskInv' /\ (Agree => Agree')
  <2>1. Relinked /\ file' = file /\ peak' = peak /\ owed' = owed
    BY <1>1, <1>2 DEF Relinked, TypeOK
  <2> QED
    BY <1>1, <1>5, <2>1, DiskSame
<1>7. JournalInv'
  BY <1>1, <1>2 DEF JournalInv
<1>8. OpInv'
  BY <1>2, <1>3 DEF OpInv, Live, Booting, Loaded, Creating, Rotating,
     Appending, Writing, Installing
<1>9. BootInv'
  BY <1>2 DEF BootInv, Booting
<1>10. LogInv'
  BY <1>2 DEF LogInv, Live
<1>11. OpenInv'
  BY <1>2 DEF OpenInv, Live
<1>12. HandleInv'
  BY <1>2 DEF HandleInv, Live
<1>13. PublishedInv'
  BY <1>2 DEF PublishedInv, Live
<1>14. AgreeInv'
  BY <1>2 DEF AgreeInv, Live
<1>15. SnapshotInv'
  BY <1>2 DEF SnapshotInv, Live
<1>16. HistoryInv'
  BY <1>2 DEF HistoryInv
<1> QED
  BY <1>4, <1>6, <1>7, <1>8, <1>9, <1>10, <1>11, <1>12, <1>13, <1>14, <1>15,
     <1>16 DEF WalInv, MemoryInv

(* A log that can be read is replayed into the map.                        *)
LEMMA ReplaySucceeds ==
    ASSUME WalInv, Replay, Replayable
    PROVE  WalInv'
<1>1. /\ TypeOK /\ DiskInv /\ JournalInv /\ MemoryInv
      /\ op \in {"recover", "append", "tidy"}
  BY DEF WalInv, TypeOK
<1>2. /\ pc = "replay" /\ meta.man # NoManifest
      /\ meta' = meta /\ images' = images
      /\ hist' = Recovered.hist /\ floor' = Recovered.floor
      /\ seq' = Recovered.seq /\ next_seq' = MaxOf(next_seq, LogEnd + 1)
      /\ segments' = [segments EXCEPT ![Len(segments)].bytes =
                         BytesOf(file[Active.first].recs)]
      /\ \/ pc' = "prep" /\ peak' = peak
         \/ pc' = "ready" /\ peak' = seq' /\ ~RecoveryDue(next_seq')
      /\ UNCHANGED <<journalled, file, generation, checkpoint, fd, degraded>>
      /\ UNCHANGED <<undo, op, batch, newck, collected, removed, owed>>
  BY DEF Replay, diskVars, walVars, mapVars, callVars, ghostVars
<1> DEFINE n == Active.first
           recs == file[n].recs
<1>3. /\ Readable
      /\ op = "recover" /\ ~degraded /\ ~fd /\ Owing = owed
      /\ checkpoint = meta.man.ck /\ segments = meta.man.segs
      /\ generation = meta.man.gen /\ next_seq = 1 + meta.man.last
      /\ checkpoint.gen <= generation
      /\ meta.man.last <= Reach(file, segments)
      /\ peak <= Reach(file, segments)
      /\ \A t \in Tags : Tells(file, checkpoint, segments, t, owed[t])
      /\ Reach(file, segments) \in Int
      /\ Reach(file, segments) <= LogEnd
  BY <1>2, ReplayFacts
<1>4. /\ hist' \in Histories /\ floor' \in Seqs /\ seq' = LogEnd
      /\ LogEnd \in Seqs /\ LogEnd \in Nat /\ LogEnd + 1 \in Firsts
      /\ Within(LogEnd, hist', floor') /\ BytesOf(recs) \in Nat
      /\ next_seq' = LogEnd + 1 /\ seq' \in Nat
  <2>1. /\ Recovered.hist \in Histories /\ Recovered.floor \in Seqs
        /\ Recovered.seq = LogEnd
        /\ LogEnd \in Seqs /\ LogEnd + 1 \in Firsts
        /\ Within(LogEnd, Recovered.hist, Recovered.floor)
        /\ BytesOf(recs) \in Nat
    BY <1>3, RecoveredShape
  <2>2. LogEnd \in Nat /\ meta.man.last \in Nat
    BY <1>1, <2>1, TypeFacts, MaxSeqNat DEF Seqs
  <2>3. next_seq' = LogEnd + 1
    <3>1. next_seq <= LogEnd + 1
      BY <1>3, <2>2
    <3> QED
      BY <1>2, <1>3, <2>2, <3>1 DEF MaxOf
  <2> QED
    BY <1>2, <2>1, <2>2, <2>3
<1>5. /\ segments' \in Seq(Segments) /\ Len(segments') = Len(segments)
      /\ segments' # <<>> /\ Active'.first = n /\ Active'.bytes = BytesOf(recs)
      /\ OpenOf(segments') = OpenOf(segments)
      /\ Listed(segments') = Listed(segments)
      /\ GoodLog(file, checkpoint, segments')
  <2> DEFINE b == BytesOf(recs)
             new == [segments EXCEPT ![Len(segments)].bytes = b]
  <2>1. segments' = new /\ b \in Nat
    BY <1>2, <1>4
  <2>2. checkpoint \in Checkpoints /\ segments \in Seq(Segments)
        /\ segments # <<>> /\ GoodLog(file, checkpoint, segments)
    BY <1>3 DEF Readable, GoodLog
  <2>3. Active = segments[Len(segments)]
    BY DEF Active
  <2> HIDE DEF b
  <2>4. /\ new \in Seq(Segments) /\ Len(new) = Len(segments) /\ new # <<>>
        /\ new[Len(new)] = [segments[Len(segments)] EXCEPT !.bytes = b]
        /\ new[Len(new)].first = segments[Len(segments)].first
        /\ new[Len(new)].bytes = b
        /\ OpenOf(new) = OpenOf(segments) /\ Listed(new) = Listed(segments)
        /\ GoodLog(file, checkpoint, segments) => GoodLog(file, checkpoint, new)
    BY <2>1, <2>2, BytesSet
  <2> HIDE DEF new
  <2> QED
    BY <2>1, <2>2, <2>3, <2>4 DEF Active, b
<1>6. /\ n \in Firsts /\ n \in Nat /\ n = OpenOf(segments) /\ n # 0
      /\ Len(recs) \in Nat /\ LogEnd = n + Len(recs) - 1
      /\ checkpoint.wal \in Nat /\ checkpoint.wal <= LogEnd
      /\ checkpoint.wal < n /\ Len(segments) \in Nat \ {0}
      /\ file[n].synced \in Nat
  BY <1>1, <1>3, ReadableShape, ActiveFacts DEF LogEnd, Firsts
<1> HIDE DEF n, recs
<1>7. ASSUME pc' = "ready"
      PROVE  /\ Agree /\ LogEnd = checkpoint.wal /\ Len(recs) = 0
             /\ Len(segments) = 1
  <2>1. checkpoint # NoCheckpoint /\ LogEnd = checkpoint.wal
    <3>1. checkpoint # NoCheckpoint /\ ~ next_seq' - 1 > checkpoint.wal
      BY <1>2, <1>7 DEF RecoveryDue
    <3> QED
      BY <1>4, <1>6, <3>1
  <2>2. Len(recs) = 0
    BY <1>6, <2>1
  <2>3. Agree
    <3>1. ~ meta.man.ck.wal < meta.man.last
      <4>1. meta.man.last \in Nat
        BY <1>1, TypeFacts
      <4> QED
        BY <1>3, <1>4, <1>6, <2>1, <4>1, SMTT(60)
    <3> QED
      BY <1>1, <1>3, <2>1, <3>1 DEF DiskInv
  <2>4. Len(segments) = 1
    <3>1. ~ Len(segments) - 1 > 0
      <4> SUFFICES ASSUME Len(segments) - 1 > 0
                   PROVE  FALSE
        OBVIOUS
      <4>1. 1 \in 1 .. Len(segments) - 1
        BY <1>6
      <4>2. \A i \in 1 .. Len(segments) - 1 :
               /\ segments[i] \in Segments
               /\ segments[i].last < OpenOf(segments)
               /\ checkpoint.wal < segments[i].last
        BY <1>3, LogShape DEF Readable
      <4>3. /\ segments[1] \in Segments
            /\ segments[1].last < n /\ checkpoint.wal < segments[1].last
        BY <1>6, <4>1, <4>2
      <4>4. segments[1].last \in Nat
        BY <4>3, MaxSeqNat DEF Segments, Seqs
      <4> QED
        BY <1>6, <2>1, <2>2, <4>3, <4>4
    <3>2. \A k \in Nat \ {0} : ~ k - 1 > 0 => k = 1
      OBVIOUS
    <3> QED
      BY <1>6, <3>1, <3>2, Zenon
  <2> QED
    BY <2>1, <2>2, <2>3, <2>4
<1>8. Keeps(owed, seq', hist', floor') /\ peak <= seq' /\ peak' <= seq'
  <2>1. ASSUME NEW t \in Tags
        PROVE  hist'[t] <= seq' /\ owed[t] <= MaxOf(hist'[t], floor')
    <3>1. owed[t] \in Nat
      BY <1>1, TypeFacts, MaxSeqNat DEF Histories, Seqs
    <3>2. owed[t] <= MaxOf(Recovered.hist[t], Recovered.floor)
      BY <1>3, <3>1, ReplayTells
    <3> QED
      BY <1>2, <1>4, <3>2 DEF Within
  <2>2. floor' <= seq'
    BY <1>4 DEF Within
  <2>3. peak \in Nat
    BY <1>1, TypeFacts
  <2>4. peak <= seq'
    BY <1>3, <1>4, <2>3
  <2>5. seq' <= seq'
    BY <1>4
  <2> QED
    BY <1>2, <2>1, <2>2, <2>4, <2>5 DEF Keeps
<1>9. Owing' = Owing /\ Owing' = owed
  BY <1>2, <1>3 DEF Owing
<1>10. TypeOK'
  <2>1. peak' \in Seqs
    BY <1>1, <1>2, <1>4 DEF TypeOK
  <2> QED
    BY <1>1, <1>2, <1>4, <1>5, <2>1 DEF TypeOK, Steps, Histories
<1>11. DiskInv' /\ (Agree => Agree')
  <2>1. Relinked /\ file' = file
    BY <1>1, <1>2 DEF Relinked, TypeOK
  <2>2. CASE pc' = "prep"
    BY <1>1, <1>2, <1>9, <2>1, <2>2, DiskSame
  <2>3. CASE pc' = "ready"
    <3>1. ASSUME NEW m \in images
          PROVE  m.man # NoManifest /\ peak' <= Reach(file, m.man.segs)
      <4>1. OpenOf(m.man.segs) = n
        BY <1>3, <1>6, <1>7, <2>3 DEF Agree
      <4>2. m.man # NoManifest
        BY <1>6, <4>1 DEF NoManifest, OpenOf
      <4>3. Reach(file, m.man.segs) = n + file[n].synced - 1
        BY <4>1 DEF Reach
      <4>4. peak' = n - 1
        BY <1>2, <1>4, <1>6, <1>7, <2>3
      <4> QED
        BY <1>6, <4>2, <4>3, <4>4
    <3>2. ASSUME NEW t \in Tags
          PROVE  owed'[t] <= peak'
      <4>1. owed[t] \in Nat /\ peak \in Nat /\ owed[t] <= peak
        BY <1>1, TypeFacts, MaxSeqNat DEF DiskInv, Histories, Seqs
      <4>2. peak' = seq'
        BY <1>2, <2>3
      <4> QED
        BY <1>2, <1>4, <1>8, <4>1, <4>2
    <3>3. peak' \in Nat
      BY <1>2, <1>4, <2>3
    <3> QED
      BY <1>1, <1>9, <2>1, <3>1, <3>2, <3>3, DiskRaised
  <2> QED
    BY <1>2, <2>2, <2>3
<1>12. JournalInv'
  BY <1>1, <1>2 DEF JournalInv
<1>13. OpInv'
  BY <1>2, <1>3 DEF OpInv, Live, Booting, Loaded, Creating, Rotating,
     Appending, Writing, Installing
<1>14. BootInv'
  BY <1>2 DEF BootInv, Booting
<1>15. LogInv'
  <2>1. Active'.first + Len(file'[Active'.first].recs) = next_seq'
    BY <1>2, <1>4, <1>5, <1>6 DEF recs
  <2>2. Active'.bytes + 0 = BytesOf(file'[Active'.first].recs)
    BY <1>2, <1>4, <1>5 DEF recs
  <2>3. next_seq' = seq' + 1 /\ GoodLog(file', checkpoint', segments')
    BY <1>2, <1>4, <1>5
  <2> QED
    BY <1>2, <2>1, <2>2, <2>3 DEF LogInv
<1>16. OpenInv'
  <2>1. pc' = "ready" => Len(segments') = 1
    BY <1>5, <1>7
  <2> QED
    BY <1>2, <1>3, <2>1 DEF OpenInv, Live, Booting, Loaded, Creating,
       Rotating, Appending, Writing, Installing
<1>17. HandleInv'
  <2>1. Listed(segments) \subseteq meta.names
    <3>1. \A i \in 1 .. Len(segments) : segments[i].first \in meta.names
      BY DEF Replayable
    <3> QED
      BY <3>1 DEF Listed
  <2> QED
    BY <1>2, <1>3, <1>5, <2>1 DEF HandleInv
<1>18. PublishedInv'
  <2>1. checkpoint # NoCheckpoint => checkpoint \in meta.cks
    BY DEF Replayable
  <2> QED
    BY <1>2, <1>3, <1>5, <2>1 DEF PublishedInv, Live, Booting, Loaded,
       Creating, Rotating, Appending, Writing, Installing
<1>19. AgreeInv'
  BY <1>2, <1>3, <1>7, <1>11 DEF AgreeInv, Live, Booting, Loaded, Creating,
     Rotating, Appending, Writing, Installing
<1>20. SnapshotInv'
  BY <1>2, <1>3 DEF SnapshotInv, Live, Booting, Loaded, Creating, Rotating,
     Appending, Writing, Installing
<1>21. HistoryInv'
  <2>1. Up' => peak' = seq'
    BY <1>2, <1>3 DEF Up
  <2> QED
    BY <1>2, <1>3, <1>9, <1>8, <2>1 DEF HistoryInv
<1> QED
  BY <1>10, <1>11, <1>12, <1>13, <1>14, <1>15, <1>16, <1>17, <1>18, <1>19,
     <1>20, <1>21 DEF WalInv, MemoryInv

(* A log is replayed, either way.                                          *)
LEMMA ReplayKeeps ==
    ASSUME WalInv, Replay
    PROVE  WalInv'
BY ReplayRefuses, ReplaySucceeds

(* A call fails and leaves no part of a record.                            *)
LEMMA FailPlain ==
    ASSUME WalInv, Fail, op # "tidy", file' = file
    PROVE  WalInv'
<1>1. /\ TypeOK /\ DiskInv /\ JournalInv /\ MemoryInv
      /\ op \in {"recover", "append", "tidy"}
  BY DEF WalInv, TypeOK
<1>2. /\ pc \notin {"off", "refused", "failed", "ready", "apply", "prune"}
      /\ degraded' = TRUE /\ batch' = {}
      /\ \/ op = "append" /\ pc' = "ready"
         \/ op = "recover" /\ pc' = "failed"
      /\ UNCHANGED <<hist, floor, op, owed>>
      /\ file' = file
      /\ UNCHANGED <<journalled, meta, images, next_seq, generation, checkpoint>>
      /\ UNCHANGED <<segments, fd, seq, undo, removed, newck, collected, peak>>
  BY <1>1 DEF Fail, diskVars, walVars, mapVars, callVars, ghostVars
<1>3. /\ ~degraded /\ pc # "prune"
      /\ op = "append" => /\ pc \notin Booting \cup {"refused", "failed"}
                          /\ peak = seq
      /\ pc \notin Booting \cup {"refused", "failed"} =>
            Keeps(Owing, seq, hist, floor) /\ peak <= seq
  <2>1. ~degraded /\ pc # "prune"
    BY <1>1, <1>2 DEF MemoryInv, OpInv, Live, Booting, Loaded, Creating,
       Rotating, Appending, Writing, Installing
  <2>2. op = "append" => pc \notin Booting \cup {"refused", "failed"}
    BY <1>1, <1>2 DEF MemoryInv, OpInv, Live, Booting, Loaded, Creating,
       Rotating, Appending, Writing, Installing
  <2>3. pc \notin Booting \cup {"refused", "failed"} =>
           /\ Keeps(Owing, seq, hist, floor) /\ peak <= seq
           /\ op = "append" => peak = seq
    BY <1>1 DEF MemoryInv, HistoryInv, Up
  <2> QED
    BY <2>1, <2>2, <2>3
<1>4. TypeOK'
  BY <1>1, <1>2 DEF TypeOK, Steps
<1>5. Owing' = Owing
  BY <1>2, <1>3 DEF Owing
<1>6. DiskInv' /\ (Agree => Agree')
  <2>1. Relinked /\ file' = file /\ peak' = peak /\ owed' = owed
    BY <1>1, <1>2 DEF Relinked, TypeOK
  <2> QED
    BY <1>1, <1>5, <2>1, DiskSame
<1>7. JournalInv'
  BY <1>1, <1>2 DEF JournalInv
<1>8. OpInv'
  BY <1>2 DEF OpInv, Live, Booting, Loaded, Creating, Rotating, Appending,
     Writing, Installing
<1>9. BootInv'
  BY <1>2 DEF BootInv, Booting
<1>10. LogInv'
  BY <1>2 DEF LogInv, Live
<1>11. OpenInv'
  BY <1>2 DEF OpenInv, Live
<1>12. HandleInv'
  BY <1>2 DEF HandleInv, Live
<1>13. PublishedInv'
  BY <1>2 DEF PublishedInv, Live
<1>14. AgreeInv'
  BY <1>2 DEF AgreeInv, Live
<1>15. SnapshotInv'
  BY <1>2 DEF SnapshotInv, Live
<1>16. HistoryInv'
  <2>1. pc' = "ready" => /\ Keeps(Owing', seq', hist', floor')
                         /\ peak' <= seq' /\ op' = "append" /\ peak' = seq'
    BY <1>2, <1>5, <1>3
  <2>2. pc' \in {"ready", "failed"} /\ op' # "tidy"
    BY <1>2
  <2> QED
    BY <2>1, <2>2 DEF HistoryInv
<1> QED
  BY <1>4, <1>6, <1>7, <1>8, <1>9, <1>10, <1>11, <1>12, <1>13, <1>14, <1>15,
     <1>16 DEF WalInv, MemoryInv

(* A write fails and leaves a part of a record.                            *)
LEMMA FailTorn ==
    ASSUME WalInv, Fail, pc = "write", file' # file
    PROVE  WalInv'
<1>1. /\ TypeOK /\ DiskInv /\ JournalInv /\ MemoryInv
      /\ op \in {"recover", "append", "tidy"}
  BY DEF WalInv, TypeOK
<1>2. /\ pc \notin {"off", "refused", "failed", "ready", "apply", "prune"}
      /\ degraded' = TRUE /\ batch' = {}
      /\ \/ op = "append" /\ pc' = "ready"
         \/ op = "recover" /\ pc' = "failed"
      /\ UNCHANGED <<hist, floor, op, owed>>
      /\ pc = "write"
      /\ file' = [file EXCEPT ![Active.first].torn = TRUE,
                              ![Active.first].clean = FALSE]
      /\ UNCHANGED <<journalled, meta, images, next_seq, generation, checkpoint>>
      /\ UNCHANGED <<segments, fd, seq, undo, removed, newck, collected, peak>>
  <2>1. op # "tidy"
    BY <1>1 DEF MemoryInv, OpInv, Live, Booting, Loaded, Creating, Rotating,
       Appending, Writing, Installing
  <2> QED
    BY <1>1, <2>1 DEF Fail, diskVars, walVars, mapVars, callVars, ghostVars
<1>3. /\ ~degraded /\ pc # "prune"
      /\ op = "append" => /\ pc \notin Booting \cup {"refused", "failed"}
                          /\ peak = seq
      /\ pc \notin Booting \cup {"refused", "failed"} =>
            Keeps(Owing, seq, hist, floor) /\ peak <= seq
  <2>1. ~degraded /\ pc # "prune"
    BY <1>1, <1>2 DEF MemoryInv, OpInv, Live, Booting, Loaded, Creating,
       Rotating, Appending, Writing, Installing
  <2>2. op = "append" => pc \notin Booting \cup {"refused", "failed"}
    BY <1>1, <1>2 DEF MemoryInv, OpInv, Live, Booting, Loaded, Creating,
       Rotating, Appending, Writing, Installing
  <2>3. pc \notin Booting \cup {"refused", "failed"} =>
           /\ Keeps(Owing, seq, hist, floor) /\ peak <= seq
           /\ op = "append" => peak = seq
    BY <1>1 DEF MemoryInv, HistoryInv, Up
  <2> QED
    BY <2>1, <2>2, <2>3
<1> DEFINE n == Active.first
<1>4. \A m \in images : OpenOf(m.man.segs) = n
  <2>1. Agree
    BY <1>1, <1>2, <1>3 DEF MemoryInv, AgreeInv, Live, Booting, Loaded,
       Creating, Rotating, Appending, Writing, Installing
  <2>2. meta.man # NoManifest /\ OpenOf(meta.man.segs) = OpenOf(segments)
    BY <1>1, <1>2, <1>3 DEF MemoryInv, PublishedInv, Live, Booting, Loaded,
       Creating, Rotating, Appending, Writing, Installing
  <2>3. n = OpenOf(segments)
    BY <1>1, ActiveFacts
  <2> QED
    BY <2>1, <2>2, <2>3 DEF Agree
<1>5. /\ n \in Firsts /\ file[n] \in Files /\ file \in [Firsts -> Files]
      /\ Owing \in Histories /\ \A k \in Firsts : GoodFile(file, k)
  BY <1>1, ActiveFacts, TypeFacts DEF DiskInv
<1>6. /\ file' \in [Firsts -> Files]
      /\ \A k \in Firsts : GoodFile(file', k)
      /\ Kept(file, file', n)
      /\ Grown(file, file')
  <2> DEFINE f1 == [file[n] EXCEPT !.torn = TRUE]
             f2 == [f1 EXCEPT !.clean = FALSE]
             g == [file EXCEPT ![n] = f2]
  <2>1. file' = g
    <3>1. file' = [file EXCEPT ![n].torn = TRUE, ![n].clean = FALSE]
      BY <1>2
    <3> QED
      BY <1>5, <3>1
  <2>2. /\ f1 \in Files /\ f1.recs = file[n].recs /\ f1.synced = file[n].synced
    BY <1>5 DEF Files
  <2> HIDE DEF f1
  <2>3. /\ f2 \in Files /\ f2.recs = f1.recs /\ f2.synced = f1.synced
        /\ ~f2.clean
    BY <2>2 DEF Files
  <2> HIDE DEF f2, n
  <2>4. /\ g \in [Firsts -> Files]
        /\ \A k \in Firsts : GoodFile(g, k)
        /\ \A k \in Firsts : g[k].recs = file[k].recs
        /\ Kept(file, g, n)
        /\ Grown(file, g)
    BY <1>5, <2>2, <2>3, FilesPatched
  <2> HIDE DEF g
  <2> QED
    BY <2>1, <2>4
<1> HIDE DEF n
<1>7. TypeOK'
  BY <1>1, <1>2, <1>6 DEF TypeOK, Steps, Files
<1>8. Owing' = Owing
  BY <1>2, <1>3 DEF Owing
<1>9. DiskInv' /\ (Agree => Agree')
  <2>1. \A t \in Tags : Owing[t] <= Owing[t]
    BY <1>1, <1>5, MaxSeqNat DEF Histories, Seqs
  <2>2. \A m \in images' : \E b \in images : b.man = m.man
    BY <1>2
  <2> QED
    BY <1>1, <1>2, <1>8, <1>6, <1>4, <1>5, <2>1, <2>2, DiskStep
<1>10. JournalInv'
  BY <1>1, <1>2 DEF JournalInv
<1>11. OpInv'
  BY <1>2 DEF OpInv, Live, Booting, Loaded, Creating, Rotating, Appending,
     Writing, Installing
<1>12. BootInv'
  BY <1>2 DEF BootInv, Booting
<1>13. LogInv'
  BY <1>2 DEF LogInv, Live
<1>14. OpenInv'
  BY <1>2 DEF OpenInv, Live
<1>15. HandleInv'
  BY <1>2 DEF HandleInv, Live
<1>16. PublishedInv'
  BY <1>2 DEF PublishedInv, Live
<1>17. AgreeInv'
  BY <1>2 DEF AgreeInv, Live
<1>18. SnapshotInv'
  BY <1>2 DEF SnapshotInv, Live
<1>19. HistoryInv'
  <2>1. pc' = "ready" => /\ Keeps(Owing', seq', hist', floor')
                         /\ peak' <= seq' /\ op' = "append" /\ peak' = seq'
    BY <1>2, <1>8, <1>3
  <2>2. pc' \in {"ready", "failed"} /\ op' # "tidy"
    BY <1>2
  <2> QED
    BY <2>1, <2>2 DEF HistoryInv
<1> QED
  BY <1>7, <1>9, <1>10, <1>11, <1>12, <1>13, <1>14, <1>15, <1>16, <1>17,
     <1>18, <1>19 DEF WalInv, MemoryInv

(* A checkpoint fails: its prune is undone.                                *)
LEMMA FailTidy ==
    ASSUME WalInv, Fail, op = "tidy"
    PROVE  WalInv'
<1>1. /\ TypeOK /\ DiskInv /\ JournalInv /\ MemoryInv
      /\ op \in {"recover", "append", "tidy"}
  BY DEF WalInv, TypeOK
<1>2. /\ op = "tidy" /\ pc' = "ready" /\ op' = "append" /\ degraded' = TRUE
      /\ batch' = {} /\ owed' = Upsert(owed, batch, seq)
      /\ hist' = undo.hist /\ floor' = undo.floor /\ file' = file
      /\ UNCHANGED <<journalled, meta, images, next_seq, generation, checkpoint>>
      /\ UNCHANGED <<segments, fd, seq, undo, removed, newck, collected, peak>>
  <2>1. pc # "write"
    BY <1>1 DEF MemoryInv, OpInv, Live, Booting, Loaded, Creating, Rotating,
       Appending, Writing, Installing
  <2> QED
    BY <1>1, <2>1 DEF Fail, Return, diskVars, walVars, mapVars, callVars,
       ghostVars
<1>3. Owing' = Owing /\ owed' = Owing
  BY <1>2 DEF Owing
<1>4. /\ Keeps(Owing, seq, undo.hist, undo.floor) /\ peak = seq
      /\ Keeps(Owing, seq, hist, floor)
  <2>1. pc \notin Booting \cup {"refused", "failed"}
    BY <1>1, <1>2 DEF MemoryInv, OpInv, Live, Booting, Loaded, Creating,
       Rotating, Appending, Writing, Installing
  <2> QED
    BY <1>1, <1>2, <2>1 DEF MemoryInv, HistoryInv, Up
<1>5. /\ owed' \in [Tags -> Seqs] /\ undo.hist \in Histories /\ undo.floor \in Seqs
      /\ seq \in Nat /\ peak \in Nat /\ floor \in Nat /\ hist \in Histories
  BY <1>1, <1>3, TypeFacts DEF Histories
<1>6. TypeOK'
  BY <1>1, <1>2, <1>5 DEF TypeOK, Steps, Histories
<1>7. DiskInv' /\ (Agree => Agree')
  <2>1. ASSUME NEW t \in Tags
        PROVE  owed'[t] <= peak'
    <3>1. Owing[t] \in Nat /\ hist[t] \in Nat
      BY <1>1, <1>5, TypeFacts, MaxSeqNat DEF Histories, Seqs
    <3> QED
      BY <1>2, <1>3, <1>4, <1>5, <3>1 DEF Keeps, MaxOf
  <2>2. Relinked /\ file' = file /\ peak' = peak /\ peak' \in Nat
    BY <1>1, <1>2, <1>5 DEF Relinked, TypeOK
  <2> QED
    BY <1>1, <1>3, <2>1, <2>2, DiskRaised
<1>8. JournalInv'
  BY <1>1, <1>2 DEF JournalInv
<1>9. OpInv'
  BY <1>2 DEF OpInv, Live, Booting, Loaded, Creating, Rotating, Appending,
     Writing, Installing
<1>10. BootInv'
  BY <1>2 DEF BootInv, Booting
<1>11. LogInv'
  BY <1>2 DEF LogInv, Live
<1>12. OpenInv'
  BY <1>2 DEF OpenInv, Live
<1>13. HandleInv'
  BY <1>2 DEF HandleInv, Live
<1>14. PublishedInv'
  BY <1>2 DEF PublishedInv, Live
<1>15. AgreeInv'
  BY <1>2 DEF AgreeInv, Live
<1>16. SnapshotInv'
  BY <1>2 DEF SnapshotInv, Live
<1>17. HistoryInv'
  <2>1. Keeps(Owing', seq', hist', floor') /\ peak' <= seq' /\ peak' = seq'
    BY <1>2, <1>3, <1>4, <1>5
  <2> QED
    BY <1>2, <2>1 DEF HistoryInv
<1> QED
  BY <1>6, <1>7, <1>8, <1>9, <1>10, <1>11, <1>12, <1>13, <1>14, <1>15, <1>16,
     <1>17 DEF WalInv, MemoryInv

(* A call of the file system fails.                                        *)
LEMMA FailKeeps ==
    ASSUME WalInv, Fail
    PROVE  WalInv'
<1>1. CASE op = "tidy"
  BY <1>1, FailTidy
<1>2. CASE op # "tidy" /\ file' = file
  BY <1>2, FailPlain
<1>3. CASE op # "tidy" /\ file' # file
  <2>1. pc = "write"
    BY <1>3 DEF Fail
  <2> QED
    BY <1>3, <2>1, FailTorn
<1> QED
  BY <1>1, <1>2, <1>3

(* The instance stops, and finds one of the images later.                  *)
LEMMA StopKeeps ==
    ASSUME WalInv, Stopped, peak' = peak, owed' = owed, journalled' = journalled,
           images' \subseteq images, meta' \in images',
           meta'.man = meta.man \/ images' = {meta'},
           file' \in [Firsts -> Files],
           \A n \in Firsts : GoodFile(file', n),
           \A o : Kept(file, file', o), Grown(file, file')
    PROVE  WalInv'
<1>1. /\ TypeOK /\ DiskInv /\ JournalInv /\ MemoryInv
      /\ op \in {"recover", "append", "tidy"}
  BY DEF WalInv, TypeOK
<1>2. /\ next_seq' = 1 /\ generation' = 0 /\ checkpoint' = NoCheckpoint
      /\ segments' = <<NewSegment(1)>> /\ fd' = FALSE /\ degraded' = FALSE
      /\ seq' = 0 /\ hist' = NoHistory /\ floor' = 0
      /\ undo' = [hist |-> NoHistory, floor |-> 0]
      /\ pc' = "off" /\ op' = "recover" /\ batch' = {} /\ removed' = FALSE
      /\ newck' = NoCheckpoint /\ collected' = NoneCollected
  BY DEF Stopped
<1>3. TypeOK'
  <2>1. /\ 1 \in Firsts /\ 0 \in Nat /\ 0 \in Seqs
        /\ NoHistory \in [Tags -> Seqs]
    BY MaxSeqNat DEF Firsts, Seqs, NoHistory
  <2>2. NoCheckpoint \in Checkpoints
    BY <2>1 DEF NoCheckpoint, Checkpoints
  <2>3. NewSegment(1) \in Segments
    BY <2>1 DEF NewSegment, Segments
  <2>4. <<NewSegment(1)>> \in Seq(Segments) /\ <<NewSegment(1)>> # <<>>
    BY <2>3
  <2>5. NoneCollected \in [segs : SUBSET Firsts, ck : Checkpoints]
    BY <2>2 DEF NoneCollected
  <2>6. [hist |-> NoHistory, floor |-> 0] \in [hist : [Tags -> Seqs], floor : Seqs]
    BY <2>1
  <2> QED
    BY <1>1, <1>2, <2>1, <2>2, <2>4, <2>5, <2>6 DEF TypeOK, Steps, Files
<1>4. Owing' = owed
  BY <1>2 DEF Owing
<1>5. DiskInv'
  <2>1. ASSUME NEW t \in Tags
        PROVE  owed[t] <= Owing[t]
    <3>1. owed[t] \in Nat /\ peak \in Nat /\ seq \in Nat /\ owed[t] <= peak
          /\ owed \in Histories
      BY <1>1, TypeFacts, MaxSeqNat DEF DiskInv, Histories, Seqs
    <3>2. op = "tidy" \/ pc = "prune" => peak <= seq
      <4>1. op = "tidy" \/ pc = "prune" =>
               pc \notin Booting \cup {"refused", "failed"}
        BY <1>1 DEF MemoryInv, OpInv, Live, Booting, Loaded, Creating,
           Rotating, Appending, Writing, Installing
      <4> QED
        BY <1>1, <4>1 DEF MemoryInv, HistoryInv
    <3>3. CASE op = "tidy" \/ pc = "prune"
      <4>1. Owing[t] = IF t \in batch THEN seq ELSE owed[t]
        BY <3>3 DEF Owing, Upsert
      <4> QED
        BY <3>1, <3>2, <3>3, <4>1
    <3>4. CASE ~(op = "tidy" \/ pc = "prune")
      BY <3>1, <3>4 DEF Owing
    <3> QED
      BY <3>3, <3>4
  <2>2. Owing' \in Histories
    BY <1>1, <1>4, TypeFacts
  <2>3. \A m \in images' : \E b \in images : b.man = m.man
    OBVIOUS
  <2> QED
    BY <1>1, <1>4, <2>1, <2>2, <2>3, DiskStep
<1>6. JournalInv'
  BY <1>1 DEF JournalInv
<1>7. OpInv'
  BY <1>2 DEF OpInv, Live, Booting, Loaded, Creating, Rotating, Appending,
     Writing, Installing
<1>8. BootInv'
  BY <1>2 DEF BootInv, Fresh, Booting, Loaded
<1>9. LogInv'
  BY <1>2 DEF LogInv, Live, Booting
<1>10. OpenInv'
  BY <1>2 DEF OpenInv, Live, Booting
<1>11. HandleInv'
  BY <1>2 DEF HandleInv, Live, Booting
<1>12. PublishedInv'
  BY <1>2 DEF PublishedInv, Live, Booting
<1>13. AgreeInv'
  BY <1>2 DEF AgreeInv, Live, Booting
<1>14. SnapshotInv'
  BY <1>2 DEF SnapshotInv, Live, Booting
<1>15. HistoryInv'
  BY <1>2 DEF HistoryInv, Booting
<1> QED
  BY <1>3, <1>5, <1>6, <1>7, <1>8, <1>9, <1>10, <1>11, <1>12, <1>13, <1>14,
     <1>15 DEF WalInv, MemoryInv

(* The process stops.                                                      *)
LEMMA KillKeeps ==
    ASSUME WalInv, Kill
    PROVE  WalInv'
<1>1. TypeOK /\ DiskInv
  BY DEF WalInv
<1>2. /\ Stopped /\ images' = images /\ meta' = meta /\ file' = file
      /\ peak' = peak /\ owed' = owed /\ journalled' = journalled
  BY DEF Kill, diskVars, ghostVars
<1>3. /\ file \in [Firsts -> Files] /\ meta \in images
      /\ \A n \in Firsts : GoodFile(file, n)
  BY <1>1, TypeFacts DEF DiskInv
<1>4. \A o : Kept(file, file, o)
  BY <1>3 DEF Kept, Files
<1>5. Grown(file, file)
  BY <1>3 DEF Grown, Files
<1> QED
  BY <1>2, <1>3, <1>4, <1>5, StopKeeps

(* The machine stops.                                                      *)
LEMMA PowerLossKeeps ==
    ASSUME WalInv, PowerLoss
    PROVE  WalInv'
<1>1. TypeOK /\ DiskInv
  BY DEF WalInv
<1>2. /\ Stopped /\ images' = {meta'} /\ meta' \in images
      /\ peak' = peak /\ owed' = owed /\ journalled' = journalled
  BY DEF PowerLoss, ghostVars
<1>3. /\ file \in [Firsts -> Files] /\ \A n \in Firsts : GoodFile(file, n)
  BY <1>1, TypeFacts DEF DiskInv
<1>4. /\ DOMAIN file' = Firsts /\ file' = [k \in Firsts |-> file'[k]]
      /\ \A k \in Firsts : file'[k] \in Survivors(file[k])
  <2> DEFINE dirty == {n \in Firsts : ~file[n].clean}
  <2>1. PICK g \in [dirty -> UNION {Survivors(file[n]) : n \in dirty}] :
           /\ \A n \in dirty : g[n] \in Survivors(file[n])
           /\ file' = [n \in Firsts |-> IF n \in dirty THEN g[n] ELSE file[n]]
    BY DEF PowerLoss
  <2>2. ASSUME NEW k \in Firsts
        PROVE  file'[k] \in Survivors(file[k])
    <3>1. CASE k \in dirty
      BY <2>1, <3>1
    <3>2. CASE k \notin dirty
      <4>1. file'[k] = file[k]
        BY <2>1, <3>2
      <4>2. file[k].clean
        BY <3>2
      <4> QED
        BY <4>1, <4>2 DEF Survivors
    <3> QED
      BY <3>1, <3>2
  <2> QED
    BY <2>1, <2>2
<1>5. /\ file' \in [Firsts -> Files]
      /\ \A k \in Firsts : GoodFile(file', k)
      /\ \A o : Kept(file, file', o)
      /\ Grown(file, file')
  BY <1>3, <1>4, FilesSurvive
<1> QED
  BY <1>2, <1>5, StopKeeps

(* The first start: an empty directory.                                    *)
LEMMA WalInit == Init => WalInv
<1> SUFFICES ASSUME Init
             PROVE  WalInv
  OBVIOUS
<1>1. /\ journalled \in BOOLEAN
      /\ meta = [man |-> NoManifest, cks |-> {}, names |-> {}] /\ images = {meta}
      /\ file = [n \in Firsts |-> EmptyFile]
      /\ next_seq = 1 /\ generation = 0 /\ checkpoint = NoCheckpoint
      /\ segments = <<NewSegment(1)>> /\ fd = FALSE /\ degraded = FALSE
      /\ seq = 0 /\ hist = NoHistory /\ floor = 0
      /\ undo = [hist |-> NoHistory, floor |-> 0]
      /\ pc = "off" /\ op = "recover" /\ batch = {} /\ removed = FALSE
      /\ newck = NoCheckpoint /\ collected = NoneCollected
      /\ owed = NoHistory /\ peak = 0
  BY DEF Init
<1>2. /\ 1 \in Firsts /\ 0 \in Nat /\ 0 \in Seqs /\ NoHistory \in [Tags -> Seqs]
      /\ \A t \in Tags : NoHistory[t] = 0
  BY MaxSeqNat DEF Firsts, Seqs, NoHistory
<1>3. NoCheckpoint \in Checkpoints
  BY <1>2 DEF NoCheckpoint, Checkpoints
<1>4. /\ NoManifest.segs = <<>> /\ NoManifest.ck = NoCheckpoint
      /\ <<>> \in Seq(Segments) /\ NoManifest \in Manifests
  BY <1>2, <1>3 DEF NoManifest, Manifests
<1>5. meta \in Metas /\ meta.man = NoManifest
  BY <1>1, <1>4 DEF Metas, Manifests
<1>6. /\ EmptyFile \in Files /\ EmptyFile.recs = <<>> /\ EmptyFile.synced = 0
      /\ file \in [Firsts -> Files] /\ \A n \in Firsts : file[n] = EmptyFile
  <2>1. EmptyFile \in Files /\ EmptyFile.recs = <<>> /\ EmptyFile.synced = 0
    BY DEF EmptyFile, Files
  <2> QED
    BY <1>1, <2>1
<1>7. TypeOK
  <2>1. NewSegment(1) \in Segments
    BY <1>2 DEF NewSegment, Segments
  <2>2. <<NewSegment(1)>> \in Seq(Segments) /\ <<NewSegment(1)>> # <<>>
    BY <2>1
  <2>3. NoneCollected \in [segs : SUBSET Firsts, ck : Checkpoints]
    BY <1>3 DEF NoneCollected
  <2>4. [hist |-> NoHistory, floor |-> 0] \in [hist : [Tags -> Seqs], floor : Seqs]
    BY <1>2
  <2> QED
    BY <1>1, <1>2, <1>3, <1>5, <1>6, <2>2, <2>3, <2>4 DEF TypeOK, Steps, Files
<1>8. DiskInv
  <2>1. ASSUME NEW n \in Firsts
        PROVE  GoodFile(file, n)
    BY <1>6 DEF GoodFile
  <2>2. Owing = NoHistory
    BY <1>1 DEF Owing
  <2>3. \A m \in images : GoodManifest(file, Owing, peak, m.man)
    BY <1>1, <1>2, <1>5, <1>6, <2>2 DEF GoodManifest
  <2>4. Agree
    BY <1>1 DEF Agree
  <2>5. \A t \in Tags : owed[t] <= peak
    BY <1>1, <1>2
  <2> QED
    BY <2>1, <2>3, <2>4, <2>5 DEF DiskInv
<1>9. JournalInv
  <2>1. Listed(<<>>) = {}
    BY DEF Listed
  <2> QED
    BY <1>1, <1>4, <1>5, <2>1 DEF JournalInv, Complete
<1>10. MemoryInv
  BY <1>1 DEF MemoryInv, OpInv, BootInv, LogInv, OpenInv, HandleInv,
     PublishedInv, AgreeInv, SnapshotInv, HistoryInv, Fresh, Live, Booting, Loaded, Creating, Rotating, Appending, Writing, Installing
<1> QED
  BY <1>7, <1>8, <1>9, <1>10 DEF WalInv

(* The invariant is inductive.                                             *)
LEMMA WalNext ==
    ASSUME WalInv, [Next]_vars
    PROVE  WalInv'
<1>1. CASE Next
  <2>1. CASE Start \/ LoadNothing \/ LoadManifest \/ UnlinkOrphan \/ OrphansGone
    BY <2>1, StartKeeps, LoadNothingKeeps, LoadManifestKeeps,
       UnlinkOrphanKeeps, OrphansGoneKeeps
  <2>2. CASE SyncOrphans \/ Replay \/ ReplayNothing \/ Prepare
    BY <2>2, SyncOrphansKeeps, ReplayKeeps, ReplayNothingKeeps, PrepareKeeps
  <2>3. CASE SyncNewSegment \/ RenameManifest \/ SyncManifest \/ Rotate
    BY <2>3, SyncNewSegmentKeeps, RenameManifestKeeps, SyncManifestKeeps,
       RotateKeeps
  <2>4. CASE \E K \in (SUBSET Tags) \ {{}} : Purge(K)
    BY <2>4, PurgeKeeps
  <2>5. CASE MakeRoom \/ WriteRecord \/ SyncRecord \/ Apply \/ Prune \/ Compact
    BY <2>5, MakeRoomKeeps, WriteRecordKeeps, SyncRecordKeeps, ApplyKeeps,
       PruneKeepsInv, CompactKeeps
  <2>6. CASE \/ WriteCheckpoint \/ SyncCheckpoint \/ InstallCheckpoint
             \/ UnlinkCovered \/ CheckpointDone
    BY <2>6, WriteCheckpointKeeps, SyncCheckpointKeeps,
       InstallCheckpointKeeps, UnlinkCoveredKeeps, CheckpointDoneKeeps
  <2>7. CASE Fail \/ Kill \/ PowerLoss
    BY <2>7, FailKeeps, KillKeeps, PowerLossKeeps
  <2> QED
    BY <1>1, <2>1, <2>2, <2>3, <2>4, <2>5, <2>6, <2>7 DEF Next
<1>2. CASE UNCHANGED vars
  <2>1. /\ UNCHANGED <<journalled, meta, images, file, next_seq, generation>>
        /\ UNCHANGED <<checkpoint, segments, fd, degraded, seq, hist, floor>>
        /\ UNCHANGED <<undo, pc, op, batch, removed, newck, collected>>
        /\ UNCHANGED <<owed, peak>>
    BY <1>2 DEF vars
  <2>2. Owing' = Owing /\ Active' = Active /\ Agree' = Agree
    BY <2>1 DEF Owing, Active, Agree
  <2>3. TypeOK' /\ DiskInv' /\ JournalInv'
    BY <2>1, <2>2 DEF WalInv, TypeOK, DiskInv, JournalInv
  <2>4. MemoryInv'
    <3>1. OpInv' /\ BootInv' /\ HandleInv' /\ PublishedInv' /\ AgreeInv'
      BY <2>1, <2>2 DEF WalInv, MemoryInv, OpInv, BootInv, HandleInv,
         PublishedInv, AgreeInv, Live, Fresh, AsRead
    <3>2. LogInv' /\ OpenInv' /\ SnapshotInv' /\ HistoryInv'
      BY <2>1, <2>2 DEF WalInv, MemoryInv, LogInv, OpenInv, SnapshotInv,
         HistoryInv, Live, Up
    <3> QED
      BY <3>1, <3>2 DEF MemoryInv
  <2> QED
    BY <2>3, <2>4 DEF WalInv
<1> QED
  BY <1>1, <1>2

(***************************************************************************)
(* Theorems                                                                *)
(***************************************************************************)
(* The invariant holds in every state.                                     *)
LEMMA WalInvariant == Spec => []WalInv
<1>1. Init => WalInv
  BY WalInit
<1>2. WalInv /\ [Next]_vars => WalInv'
  BY WalNext
<1> QED
  BY <1>1, <1>2, PTL DEF Spec

(* TypeOK: sequences, records, segments and manifests stay within their    *)
(* bounds, and what the calls show is among what power loss may leave.     *)
THEOREM WalTyped == Spec => []TypeOK
<1>1. WalInv => TypeOK
  BY DEF WalInv
<1> QED
  BY <1>1, WalInvariant, PTL

(* LogBounded: a purge that is over leaves one segment, since a second one *)
(* makes a checkpoint due and the checkpoint collects it (wal.c:803,       *)
(* purgemap.c:1489).                                                       *)
THEOREM LogStaysBounded == Spec => []LogBounded
<1>1. WalInv => LogBounded
  BY DEF WalInv, MemoryInv, OpenInv, LogBounded, Live, Booting
<1> QED
  BY <1>1, WalInvariant, PTL

(* Only a start that reads what it should not find refuses it.             *)
LEMMA Refusals ==
    ASSUME [Next]_vars, pc # "refused", pc' = "refused"
    PROVE  LoadNothing \/ LoadManifest \/ Replay
<1>1. pc' # pc
  OBVIOUS
<1>2. CASE Start \/ UnlinkOrphan \/ OrphansGone \/ SyncOrphans \/ ReplayNothing
  BY <1>1, <1>2 DEF Start, UnlinkOrphan, OrphansGone, SyncOrphans, ReplayNothing
<1>3. CASE Prepare \/ SyncNewSegment \/ RenameManifest \/ SyncManifest \/ Rotate
  BY <1>1, <1>3 DEF Prepare, SyncNewSegment, RenameManifest, SyncManifest, Rotate,
     Prepared
<1>4. CASE \/ \E K \in (SUBSET Tags) \ {{}} : Purge(K)
           \/ MakeRoom \/ WriteRecord \/ SyncRecord \/ Apply \/ Prune \/ Compact
  BY <1>1, <1>4 DEF Purge, MakeRoom, WriteRecord, SyncRecord, Apply, Prune,
     Compact, Return
<1>5. CASE \/ WriteCheckpoint \/ SyncCheckpoint \/ InstallCheckpoint
           \/ UnlinkCovered \/ CheckpointDone
  BY <1>1, <1>5 DEF WriteCheckpoint, SyncCheckpoint, InstallCheckpoint,
     UnlinkCovered, CheckpointDone, Return
<1>6. CASE Fail \/ Kill \/ PowerLoss
  BY <1>1, <1>6 DEF Fail, Kill, PowerLoss, Stopped, Return
<1>7. CASE UNCHANGED vars
  BY <1>1, <1>7 DEF vars
<1> QED
  BY <1>2, <1>3, <1>4, <1>5, <1>6, <1>7 DEF Next

(* NeverRefuses: on a journalled disk every manifest that a stop may leave *)
(* is complete and good, so the checks of a start pass (wal.c:1224,        *)
(* 1408-1425, 1580, 1632, 1657).                                           *)
THEOREM StartsNeverRefuse == Spec => []NeverRefuses
<1>1. Init => NeverRefuses
  BY DEF Init, NeverRefuses
<1>2. ASSUME WalInv, NeverRefuses, [Next]_vars
      PROVE  NeverRefuses'
  <2> SUFFICES ASSUME journalled', pc' = "refused"
               PROVE  FALSE
    BY DEF NeverRefuses
  <2>1. journalled' = journalled
    BY <1>2 DEF Next, vars, Start, LoadNothing, LoadManifest, UnlinkOrphan,
       OrphansGone, SyncOrphans, Replay, ReplayNothing, Prepare, SyncNewSegment,
       RenameManifest, SyncManifest, Rotate, Purge, MakeRoom, WriteRecord,
       SyncRecord, Apply, Prune, Compact, WriteCheckpoint, SyncCheckpoint,
       InstallCheckpoint, UnlinkCovered, CheckpointDone, Fail, Kill, PowerLoss,
       diskVars
  <2>2. pc # "refused" /\ journalled
    BY <1>2, <2>1 DEF NeverRefuses
  <2>3. /\ \A n \in Firsts : meta.man = NoManifest => file[n].recs = <<>>
        /\ meta.man # NoManifest =>
              /\ Contiguous(meta.man)
              /\ Complete(meta)
        /\ meta.names \subseteq Firsts
    <3>1. /\ GoodManifest(file, Owing, peak, meta.man)
          /\ meta.names \subseteq Firsts /\ Complete(meta)
      BY <1>2, <2>2, TypeFacts DEF WalInv, DiskInv, JournalInv
    <3>2. meta.man = NoManifest => \A n \in Firsts : file[n] = EmptyFile
      BY <3>1, ManifestCases
    <3>3. meta.man # NoManifest => GoodLog(file, meta.man.ck, meta.man.segs)
      BY <3>1, ManifestCases
    <3> QED
      BY <3>1, <3>2, <3>3 DEF GoodLog, Contiguous, EmptyFile
  <2>4. ~LoadNothing
    BY <2>3 DEF LoadNothing
  <2>5. ~LoadManifest
    BY <2>3 DEF LoadManifest
  <2>6. ~Replay
    <3> SUFFICES ASSUME Replay
                 PROVE  FALSE
      OBVIOUS
    <3>1. pc = "replay" /\ meta.man # NoManifest /\ ~Replayable
      BY DEF Replay, RecoveryDue
    <3>2. /\ Readable /\ checkpoint = meta.man.ck /\ segments = meta.man.segs
      BY <1>2, <3>1, ReplayFacts
    <3>3. /\ checkpoint # NoCheckpoint => checkpoint \in meta.cks
          /\ Listed(segments) \subseteq meta.names
      BY <2>3, <3>1, <3>2 DEF Complete
    <3> QED
      BY <3>1, <3>2, <3>3, GoodIsReplayable
  <2> QED
    BY <1>2, <2>2, <2>4, <2>5, <2>6, Refusals
<1>3. WalInv /\ NeverRefuses /\ [Next]_vars => NeverRefuses'
  BY <1>2
<1> QED
  BY <1>1, <1>3, WalInvariant, PTL DEF Spec

(***************************************************************************)
(* The refinement of DurableHistory                                        *)
(***************************************************************************)
(* What an instance refuses of a tag.                                      *)
Refuses(h, fl) == [t \in Tags |-> MaxOf(h[t], fl)]

(* It never passes the newest sequence, and covers what is owed.           *)
LEMMA RefusesWhat ==
    ASSUME NEW h \in Histories, NEW fl \in Seqs, NEW s \in Nat,
           NEW ow \in Histories, Keeps(ow, s, h, fl)
    PROVE  /\ Refuses(h, fl) \in [Tags -> 0 .. s]
           /\ \A t \in Tags : ow[t] <= Refuses(h, fl)[t]
<1>1. ASSUME NEW t \in Tags
      PROVE  MaxOf(h[t], fl) \in 0 .. s /\ ow[t] <= MaxOf(h[t], fl)
  <2>1. h[t] \in Nat /\ fl \in Nat
    BY MaxSeqNat DEF Histories, Seqs
  <2>2. h[t] <= s /\ fl <= s /\ ow[t] <= MaxOf(h[t], fl)
    BY DEF Keeps
  <2> QED
    BY <2>1, <2>2 DEF MaxOf
<1> QED
  BY <1>1 DEF Refuses

(* An instance is up when it is ready, or works on a purge.                *)
LEMMA UpWhen ==
    ASSUME WalInv
    PROVE  /\ Up <=> pc = "ready" \/ op # "recover"
           /\ Up \in BOOLEAN
           /\ Up => pc \notin Booting \cup {"refused", "failed"}
<1>1. OpInv /\ op \in {"recover", "append", "tidy"}
  BY DEF WalInv, MemoryInv, TypeOK
<1> QED
  BY <1>1 DEF Up, OpInv, Live, Booting, Loaded, Creating, Rotating,
     Appending, Writing, Installing

(* The facts of a state that is up.                                        *)
LEMMA UpFacts ==
    ASSUME WalInv
    PROVE  /\ hist \in Histories /\ floor \in Seqs /\ seq \in Nat /\ peak \in Nat
           /\ Owing \in Histories /\ owed \in Histories
           /\ \A t \in Tags : owed[t] <= peak
           /\ Up => peak = seq /\ Keeps(Owing, seq, hist, floor)
<1>1. TypeOK /\ DiskInv /\ HistoryInv
  BY DEF WalInv, MemoryInv
<1>2. Up => peak = seq /\ Keeps(Owing, seq, hist, floor)
  BY <1>1, UpWhen DEF HistoryInv
<1>3. floor \in Seqs
  BY <1>1 DEF TypeOK
<1> QED
  BY <1>1, <1>2, <1>3, TypeFacts DEF DiskInv

(* What happens elsewhere is a stutter of the promise.                     *)
LEMMA Stutters ==
    ASSUME Up' = Up, peak' = peak, owed' = owed,
           ~Up \/ (hist' = hist /\ floor' = floor)
    PROVE  UNCHANGED Durable!vars
<1>1. CASE Up
  BY <1>1 DEF Durable!vars
<1>2. CASE ~Up
  BY <1>2 DEF Durable!vars
<1> QED
  BY <1>1, <1>2

(* Most steps only move files.                                             *)
Quiet ==
    \/ Start \/ LoadNothing \/ LoadManifest \/ UnlinkOrphan \/ OrphansGone
    \/ SyncOrphans \/ ReplayNothing \/ Prepare \/ SyncNewSegment
    \/ RenameManifest \/ SyncManifest \/ Rotate \/ MakeRoom \/ WriteRecord
    \/ SyncRecord \/ WriteCheckpoint \/ SyncCheckpoint \/ InstallCheckpoint
    \/ UnlinkCovered

(* They are stutters.                                                      *)
LEMMA QuietRefines ==
    ASSUME WalInv, WalInv', Quiet
    PROVE  UNCHANGED Durable!vars
<1>1. /\ op' = op /\ owed' = owed /\ peak' = peak /\ hist' = hist
      /\ floor' = floor /\ pc # "ready" /\ pc' # "ready"
  <2>1. CASE Start \/ LoadNothing \/ LoadManifest \/ UnlinkOrphan \/ OrphansGone
    BY <2>1 DEF Start, LoadNothing, LoadManifest, UnlinkOrphan, OrphansGone,
       mapVars, callVars, ghostVars
  <2>2. CASE \/ SyncOrphans \/ ReplayNothing \/ Prepare \/ SyncNewSegment
             \/ RenameManifest
    BY <2>2 DEF SyncOrphans, ReplayNothing, Prepare, SyncNewSegment,
       RenameManifest, Prepared, mapVars, callVars, ghostVars
  <2>3. CASE \/ SyncManifest \/ Rotate \/ MakeRoom \/ WriteRecord \/ SyncRecord
    BY <2>3 DEF SyncManifest, Rotate, MakeRoom, WriteRecord, SyncRecord,
       Prepared, mapVars, callVars, ghostVars
  <2>4. CASE \/ WriteCheckpoint \/ SyncCheckpoint \/ InstallCheckpoint
             \/ UnlinkCovered
    BY <2>4 DEF WriteCheckpoint, SyncCheckpoint, InstallCheckpoint,
       UnlinkCovered, mapVars, callVars, ghostVars
  <2> QED
    BY <2>1, <2>2, <2>3, <2>4 DEF Quiet
<1>2. Up <=> op # "recover"
  BY <1>1, UpWhen
<1>3. OpInv' /\ op' \in {"recover", "append", "tidy"}
  BY DEF WalInv, MemoryInv, TypeOK
<1>4. Up' <=> op' # "recover"
  BY <1>1, <1>3 DEF Up, OpInv, Live, Booting, Loaded, Creating, Rotating,
     Appending, Writing, Installing
<1>5. Up' = Up
  BY <1>1, <1>2, <1>4 DEF Up
<1> QED
  BY <1>1, <1>5, Stutters

(* A purge that has begun is not seen yet.                                 *)
LEMMA PurgeRefines ==
    ASSUME WalInv, NEW K, Purge(K)
    PROVE  UNCHANGED Durable!vars
<1>1. /\ pc = "ready" /\ op' = "append" /\ owed' = owed /\ peak' = peak
      /\ hist' = hist /\ floor' = floor
  BY DEF Purge, mapVars, ghostVars
<1>2. Up' = Up
  BY <1>1 DEF Up
<1> QED
  BY <1>1, <1>2, Stutters

(* The purge takes effect.                                                 *)
LEMMA ApplyRefines ==
    ASSUME WalInv, Apply
    PROVE  Durable!Next
<1>1. /\ pc = "apply" /\ pc' = "prune" /\ seq' = seq + 1 /\ peak' = seq'
      /\ hist' = Upsert(hist, batch, seq') /\ floor' = floor /\ owed' = owed
  BY DEF Apply, ghostVars
<1>2. Up /\ Up'
  BY <1>1 DEF Up
<1>3. /\ peak = seq /\ seq \in Nat /\ floor <= seq /\ floor \in Nat
      /\ hist \in Histories
  BY <1>2, UpFacts, MaxSeqNat DEF Keeps, Seqs
<1>4. Refuses(hist', floor') = [t \in Tags |-> IF t \in batch THEN peak'
                                               ELSE Refuses(hist, floor)[t]]
  <2>1. ASSUME NEW t \in Tags
        PROVE  MaxOf(hist'[t], floor') = IF t \in batch THEN peak'
                                         ELSE MaxOf(hist[t], floor)
    <3>1. hist'[t] = IF t \in batch THEN seq + 1 ELSE hist[t]
      BY <1>1 DEF Upsert
    <3>2. t \in batch => MaxOf(seq + 1, floor) = seq + 1
      BY <1>3 DEF MaxOf
    <3> QED
      BY <1>1, <3>1, <3>2
  <2> QED
    BY <2>1 DEF Refuses
<1>5. Durable!Purge(batch)
  BY <1>1, <1>2, <1>3, <1>4 DEF Durable!Purge, Refuses
<1>6. batch \in SUBSET Tags
  BY DEF WalInv, TypeOK
<1> QED
  BY <1>5, <1>6 DEF Durable!Next

(* The history is trimmed, or the trimming undone, and the purge returns.  *)
LEMMA ReturnRefines ==
    ASSUME WalInv, WalInv', Up, Up', peak' = peak,
           \/ owed' = owed
           \/ owed' = Upsert(owed, batch, seq) /\ Owing' = owed'
    PROVE  Durable!Next
<1>1. /\ hist' \in Histories /\ floor' \in Seqs /\ seq' \in Nat
      /\ Owing' \in Histories /\ peak' = seq'
      /\ Keeps(Owing', seq', hist', floor')
      /\ owed' \in Histories /\ \A t \in Tags : owed'[t] <= peak'
  <2>1. TypeOK' /\ DiskInv' /\ HistoryInv' /\ OpInv'
    BY DEF WalInv, MemoryInv
  <2>2. /\ hist' \in Histories /\ floor' \in Seqs /\ seq' \in Seqs
        /\ owed' \in Histories /\ batch' \subseteq Tags
        /\ op' \in {"recover", "append", "tidy"}
    BY <2>1 DEF TypeOK, Histories
  <2>3. Owing' \in Histories
    BY <2>2 DEF Owing, Upsert, Histories
  <2>4. pc' \notin Booting \cup {"refused", "failed"}
    BY <2>1, <2>2 DEF Up, OpInv, Live, Booting, Loaded, Creating, Rotating,
       Appending, Writing, Installing
  <2>5. peak' = seq' /\ Keeps(Owing', seq', hist', floor')
    BY <2>1, <2>4 DEF HistoryInv
  <2>6. \A t \in Tags : owed'[t] <= peak'
    BY <2>1 DEF DiskInv
  <2> QED
    BY <2>2, <2>3, <2>5, <2>6, MaxSeqNat DEF Seqs
<1>2. /\ Refuses(hist', floor') \in [Tags -> 0 .. peak']
      /\ \A t \in Tags : Owing'[t] <= Refuses(hist', floor')[t]
  BY <1>1, RefusesWhat
<1>3. peak = seq /\ batch \in SUBSET Tags
  BY UpFacts DEF WalInv, TypeOK
<1>4. \A t \in Tags : owed'[t] <= Refuses(hist', floor')[t]
  <2> SUFFICES ASSUME NEW t \in Tags
               PROVE  owed'[t] <= Refuses(hist', floor')[t]
    OBVIOUS
  <2>1. /\ owed'[t] \in Nat /\ Owing'[t] \in Nat
        /\ Refuses(hist', floor')[t] \in Nat /\ owed'[t] <= peak'
    BY <1>1, <1>2, MaxSeqNat DEF Histories, Seqs
  <2>2. Owing'[t] = owed'[t] \/ Owing'[t] = seq'
    BY DEF Owing, Upsert
  <2> QED
    BY <1>1, <1>2, <2>1, <2>2
<1>5. CASE owed' = owed
  <2>1. Durable!Trim
    BY <1>2, <1>4, <1>5 DEF Durable!Trim, Durable!Covers, Refuses
  <2> QED
    BY <2>1 DEF Durable!Next
<1>6. CASE owed' = Upsert(owed, batch, seq)
  <2>1. Durable!Return(batch)
    BY <1>2, <1>3, <1>4, <1>6 DEF Durable!Return, Upsert, Refuses
  <2> QED
    BY <1>3, <2>1 DEF Durable!Next
<1> QED
  BY <1>5, <1>6

(* The instance becomes ready after its start.                             *)
LEMMA StartRefines ==
    ASSUME WalInv, WalInv', ~Up, Up', owed' = owed, peak <= peak'
    PROVE  Durable!Next
<1>1. /\ hist' \in Histories /\ floor' \in Seqs /\ seq' \in Nat
      /\ owed' \in Histories /\ peak' = seq' /\ Owing' \in Histories
      /\ Keeps(Owing', seq', hist', floor') /\ \A t \in Tags : owed'[t] <= peak'
  <2>1. TypeOK' /\ DiskInv' /\ HistoryInv' /\ OpInv'
    BY DEF WalInv, MemoryInv
  <2>2. /\ hist' \in Histories /\ floor' \in Seqs /\ seq' \in Seqs
        /\ owed' \in Histories /\ batch' \subseteq Tags
        /\ op' \in {"recover", "append", "tidy"}
    BY <2>1 DEF TypeOK, Histories
  <2>3. Owing' \in Histories
    BY <2>2 DEF Owing, Upsert, Histories
  <2>4. pc' \notin Booting \cup {"refused", "failed"}
    BY <2>1, <2>2 DEF Up, OpInv, Live, Booting, Loaded, Creating, Rotating,
       Appending, Writing, Installing
  <2>5. peak' = seq' /\ Keeps(Owing', seq', hist', floor')
    BY <2>1, <2>4 DEF HistoryInv
  <2>6. \A t \in Tags : owed'[t] <= peak'
    BY <2>1 DEF DiskInv
  <2> QED
    BY <2>2, <2>3, <2>5, <2>6, MaxSeqNat DEF Seqs
<1>2. /\ Refuses(hist', floor') \in [Tags -> 0 .. peak']
      /\ \A t \in Tags : Owing'[t] <= Refuses(hist', floor')[t]
  BY <1>1, RefusesWhat
<1>3. \A t \in Tags : owed[t] <= Refuses(hist', floor')[t]
  <2> SUFFICES ASSUME NEW t \in Tags
               PROVE  owed[t] <= Refuses(hist', floor')[t]
    OBVIOUS
  <2>1. /\ owed'[t] \in Nat /\ Owing'[t] \in Nat
        /\ Refuses(hist', floor')[t] \in Nat /\ owed'[t] <= peak'
    BY <1>1, <1>2, MaxSeqNat DEF Histories, Seqs
  <2>2. Owing'[t] = owed'[t] \/ Owing'[t] = seq'
    BY DEF Owing, Upsert
  <2> QED
    BY <1>1, <1>2, <2>1, <2>2
<1>4. peak \in Nat /\ peak' \in Nat
  BY <1>1, UpFacts
<1>5. Durable!Start
  BY <1>2, <1>3, <1>4 DEF Durable!Start, Durable!Covers, Refuses
<1> QED
  BY <1>5 DEF Durable!Next

(* A prune trims the history, and may return at once.                      *)
LEMMA PruneRefines ==
    ASSUME WalInv, WalInv', Prune
    PROVE  Durable!Next
<1>1. /\ pc = "prune" /\ peak' = peak /\ seq' = seq
      /\ \/ op' = "tidy" /\ owed' = owed
         \/ pc' = "ready" /\ op' = "append" /\ owed' = Upsert(owed, batch, seq)
  BY DEF Prune, Return
<1>2. Up /\ Up'
  BY <1>1 DEF Up
<1>3. CASE owed' = owed
  BY <1>1, <1>2, <1>3, ReturnRefines
<1>4. CASE /\ pc' = "ready" /\ op' = "append"
           /\ owed' = Upsert(owed, batch, seq)
  <2>1. Owing' = owed'
    BY <1>4 DEF Owing
  <2> QED
    BY <1>1, <1>2, <1>4, <2>1, ReturnRefines
<1> QED
  BY <1>1, <1>3, <1>4

(* A compaction trims the history too.                                     *)
LEMMA CompactRefines ==
    ASSUME WalInv, WalInv', Compact
    PROVE  Durable!Next
<1>1. pc = "ready" /\ op' = "tidy" /\ owed' = owed /\ peak' = peak
  BY DEF Compact, ghostVars
<1>2. Up /\ Up'
  BY <1>1 DEF Up
<1> QED
  BY <1>1, <1>2, ReturnRefines

(* A purge returns after its checkpoint; a start ends with one.            *)
LEMMA CheckpointDoneRefines ==
    ASSUME WalInv, WalInv', CheckpointDone
    PROVE  Durable!Next
<1>1. /\ pc = "ckDone" /\ pc' = "ready" /\ peak' = seq /\ seq' = seq
      /\ \/ op = "tidy" /\ op' = "append" /\ owed' = Upsert(owed, batch, seq)
         \/ op # "tidy" /\ op' = op /\ owed' = owed
  BY DEF CheckpointDone, Return, mapVars
<1>2. /\ op \in {"recover", "append", "tidy"} /\ OpInv /\ HistoryInv
  BY DEF WalInv, MemoryInv, TypeOK
<1>3. Up'
  BY <1>1 DEF Up
<1>4. CASE op = "tidy"
  <2>1. Up
    BY <1>4 DEF Up
  <2>2. peak' = peak
    BY <1>1, <2>1, UpFacts
  <2>3. Owing' = owed'
    BY <1>1, <1>4 DEF Owing
  <2> QED
    BY <1>1, <1>3, <1>4, <2>1, <2>2, <2>3, ReturnRefines
<1>5. CASE op # "tidy"
  <2>1. op = "recover"
    BY <1>1, <1>2, <1>5 DEF OpInv, Rotating, Appending
  <2>2. ~Up
    BY <1>1, <2>1 DEF Up
  <2>3. peak <= peak'
    BY <1>1, <1>2 DEF HistoryInv, Booting
  <2> QED
    BY <1>1, <1>3, <1>5, <2>2, <2>3, StartRefines
<1> QED
  BY <1>4, <1>5

(* A replay that needs no checkpoint ends the start.                       *)
LEMMA ReplayRefines ==
    ASSUME WalInv, WalInv', Replay
    PROVE  Durable!Next \/ UNCHANGED Durable!vars
<1>1. /\ pc = "replay" /\ meta.man # NoManifest
      /\ op' = op /\ owed' = owed
      /\ \/ pc' = "ready" /\ peak' = seq' /\ seq' = Recovered.seq
         \/ pc' \in {"prep", "refused"} /\ peak' = peak
  BY DEF Replay, callVars
<1>2. /\ Readable /\ op = "recover" /\ peak <= Reach(file, segments)
      /\ Reach(file, segments) \in Int /\ Reach(file, segments) <= LogEnd
  BY <1>1, ReplayFacts
<1>3. ~Up
  BY <1>1, <1>2 DEF Up
<1>4. CASE pc' = "ready"
  <2>1. Up'
    BY <1>4 DEF Up
  <2>2. Recovered.seq = LogEnd /\ LogEnd \in Nat /\ peak \in Nat
    BY <1>2, RecoveredShape, UpFacts, MaxSeqNat DEF Seqs
  <2>3. peak <= peak'
    BY <1>1, <1>2, <1>4, <2>2
  <2> QED
    BY <1>1, <1>3, <2>1, <2>3, StartRefines
<1>5. CASE pc' \in {"prep", "refused"}
  <2>1. Up' = Up
    BY <1>1, <1>2, <1>5 DEF Up
  <2>2. peak' = peak
    BY <1>1, <1>5
  <2> QED
    BY <1>1, <1>3, <2>1, <2>2 DEF Durable!vars
<1> QED
  BY <1>1, <1>4, <1>5

(* A call that fails undoes a prune, or changes nothing that is promised.  *)
LEMMA FailRefines ==
    ASSUME WalInv, WalInv', Fail
    PROVE  Durable!Next \/ UNCHANGED Durable!vars
<1>1. /\ pc # "ready" /\ peak' = peak /\ op \in {"recover", "append", "tidy"}
      /\ pc \notin {"prune", "apply"} /\ OpInv
  BY DEF Fail, WalInv, MemoryInv, TypeOK
<1>2. CASE op = "tidy"
  <2>1. pc' = "ready" /\ op' = "append" /\ owed' = Upsert(owed, batch, seq)
    BY <1>2 DEF Fail, Return
  <2>2. Up /\ Up' /\ Owing' = owed'
    BY <1>2, <2>1 DEF Up, Owing
  <2> QED
    BY <1>1, <2>1, <2>2, ReturnRefines
<1>3. CASE op # "tidy"
  <2>1. /\ op' = op /\ hist' = hist /\ floor' = floor /\ owed' = owed
        /\ pc' = IF op = "append" THEN "ready" ELSE "failed"
    BY <1>3 DEF Fail
  <2>2. Up <=> op # "recover"
    BY <1>1, UpWhen
  <2>3. Up' <=> op # "recover"
    BY <1>1, <1>3, <2>1 DEF Up
  <2>4. Up' = Up
    BY <2>2, <2>3 DEF Up
  <2> QED
    BY <1>1, <2>1, <2>4, Stutters
<1> QED
  BY <1>2, <1>3

(* A stop leaves what is owed.                                             *)
LEMMA StopRefines ==
    ASSUME Kill \/ PowerLoss
    PROVE  Durable!Next \/ UNCHANGED Durable!vars
<1>1. pc' = "off" /\ op' = "recover" /\ owed' = owed /\ peak' = peak
  BY DEF Kill, PowerLoss, Stopped, ghostVars
<1>2. Up' = FALSE
  BY <1>1 DEF Up
<1>3. CASE Up
  <2>1. Durable!Stop
    BY <1>1, <1>2, <1>3 DEF Durable!Stop
  <2> QED
    BY <2>1 DEF Durable!Next
<1>4. CASE ~Up
  <2>1. Up' = Up
    BY <1>2, <1>4 DEF Up
  <2> QED
    BY <1>1, <1>4, <2>1 DEF Durable!vars
<1> QED
  BY <1>3, <1>4

(* A start has not begun, and nothing is owed.                             *)
LEMMA InitRefines == Init => Durable!Init
<1> SUFFICES ASSUME Init
             PROVE  Durable!Init
  OBVIOUS
<1>1. Up = FALSE
  BY DEF Init, Up
<1> QED
  BY <1>1 DEF Init, Durable!Init, NoHistory

(* Every step is one of the promise, or none.                              *)
LEMMA NextRefines ==
    ASSUME WalInv, WalInv', [Next]_vars
    PROVE  [Durable!Next]_(Durable!vars)
<1>1. CASE Quiet
  BY <1>1, QuietRefines
<1>2. CASE \E K \in (SUBSET Tags) \ {{}} : Purge(K)
  BY <1>2, PurgeRefines
<1>3. CASE Apply
  BY <1>3, ApplyRefines
<1>4. CASE Prune \/ Compact
  BY <1>4, PruneRefines, CompactRefines
<1>5. CASE CheckpointDone
  BY <1>5, CheckpointDoneRefines
<1>6. CASE Replay
  BY <1>6, ReplayRefines
<1>7. CASE Fail
  BY <1>7, FailRefines
<1>8. CASE Kill \/ PowerLoss
  BY <1>8, StopRefines
<1>9. CASE UNCHANGED vars
  <2>1. /\ op' = op /\ pc' = pc /\ owed' = owed /\ peak' = peak
        /\ hist' = hist /\ floor' = floor
    BY <1>9 DEF vars
  <2>2. Up' = Up
    BY <2>1 DEF Up
  <2> QED
    BY <2>1, <2>2, Stutters
<1> QED
  BY <1>1, <1>2, <1>3, <1>4, <1>5, <1>6, <1>7, <1>8, <1>9 DEF Next, Quiet

(* PurgesAreDurable: whatever fails or stops, on any disk, a purge that    *)
(* returned success is in force after the next start, and no sequence is   *)
(* published twice (docs/usage.md:156, docs/strictness.md:50).             *)
THEOREM DurablePurges == Spec => PurgesAreDurable
<1>1. WalInv /\ WalInv' /\ [Next]_vars => [Durable!Next]_(Durable!vars)
  BY NextRefines
<1> QED
  BY <1>1, InitRefines, WalInvariant, PTL DEF Spec, PurgesAreDurable,
     Durable!Spec
==============================================================================
