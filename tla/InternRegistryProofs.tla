------------------------- MODULE InternRegistryProofs -------------------------
(***************************************************************************)
(* For any objects, threads, tag sets, hash and sizes of tables: no two    *)
(* sets of the same tags, no set that is not found when its object goes,   *)
(* counts that are exact, nothing leaked, and no migration that everybody  *)
(* has forgotten.                                                          *)
(***************************************************************************)
EXTENDS InternRegistry, FiniteSetTheorems, SequenceTheorems,
        WellFoundedInduction, TLAPS

(***************************************************************************)
(* What a registry looks like, in the middle of a migration step too; the  *)
(* tags of the set structures are a parameter, g, because they change.     *)
(***************************************************************************)
Tables == Seq(Seq(Nodes))
Registries == [primary : Tables, old : Tables, cursor : Nat, sets : Nat,
               generation : Nat]

(* A set is in the bucket of its hash, once.                               *)
Housed(T, g) ==
    \A b \in DOMAIN T :
        /\ IsInjective(T[b])
        /\ \A i \in DOMAIN T[b] : (Hash[g[T[b][i]]] % Len(T)) + 1 = b

In(R) == InTable(R.primary) \cup InTable(R.old)

(* What is before the cursor has been moved.                               *)
CursorOK(R) ==
    /\ R.old # NoTable => R.primary # NoTable
    /\ R.cursor \in 1 .. Len(R.old) + 1
    /\ \A b \in DOMAIN R.old : b < R.cursor => R.old[b] = <<>>

SetsOK(R, g) ==
    /\ InTable(R.primary) \cap InTable(R.old) = {}
    /\ \A n \in In(R) : g[n] \in TagSets
    /\ \A m, n \in In(R) : g[m] = g[n] => m = n

Good(R, g) ==
    /\ R \in Registries
    /\ Housed(R.primary, g) /\ Housed(R.old, g)
    /\ CursorOK(R)
    /\ SetsOK(R, g)

(***************************************************************************)
(* The inductive invariant                                                 *)
(***************************************************************************)
Pcs == {"idle", "try", "table", "node", "leave", "entered"}
Attaching == {"try", "table", "node"}
ThreadStates ==
    [pc : Pcs, obj : Objects \cup {NoNode}, tags : TagSets \cup {NoTags},
     cand : Nodes \cup {NoNode}, size : Nat, generation : Nat,
     failed : BOOLEAN, spent : BOOLEAN, tables : {0, 1}, wake : BOOLEAN]

TypeInv ==
    /\ reg \in Registries
    /\ tags \in [Nodes -> TagSets \cup {NoTags}]
    /\ refs \in [Nodes -> Nat]
    /\ tables \in Nat
    /\ set \in [Objects -> Nodes \cup {NoNode}]
    /\ asked \in [Objects -> TagSets \cup {NoTags}]
    /\ thr \in [Threads -> ThreadStates]
    /\ worker \in {"asleep", "busy"} /\ wakeup \in BOOLEAN
    /\ retired \in BOOLEAN

(* Between two critical sections a migration is finished or has buckets    *)
(* left.                                                                   *)
RegInv == Good(reg, tags) /\ (Migrating(reg) => reg.cursor <= Len(reg.old))

SetInv == \A o \in Tracked : tags[set[o]] = asked[o]

(* A thread attaches an object of its own, and holds a table only after it *)
(* has spent its share of migration steps.                                 *)
Attacher(w) ==
    /\ w.pc = "idle" => w = Idle
    /\ w.pc \in {"leave", "entered"} => w.obj = NoNode
    /\ w.pc \in Attaching => w.obj \in Objects /\ w.tags \in TagSets
    /\ w.pc = "node" => w.cand = NoNode
    /\ w.tables = 1 /\ w.pc \in Attaching => w.spent
AttachInv ==
    /\ \A t \in Threads : Attacher(thr[t])
    /\ \A t \in Threads : thr[t].obj \in Objects => set[thr[t].obj] = NoNode
    /\ \A t, u \in Threads : thr[t].obj = thr[u].obj /\ t # u
                                => thr[t].obj = NoNode
    /\ \A t \in Threads : thr[t].failed => reg.primary # NoTable

(* A candidate belongs to the thread that made it, with that thread's tags.*)
CandInv ==
    /\ \A t \in Threads : thr[t].cand # NoNode /\ thr[t].pc \in Attaching
                            => tags[thr[t].cand] = thr[t].tags
    /\ Allocated = Published \cup Candidates
    /\ Published \cap Candidates = {}
    /\ \A t, u \in Threads : thr[t].cand = thr[u].cand /\ t # u
                               => thr[t].cand = NoNode

TablesInv ==
    tables = Cardinality({T \in {"primary", "old"} : reg[T] # NoTable})
                + InHands

IInv == /\ TypeInv /\ RegInv /\ SetInv /\ RefsExact /\ AttachInv /\ CandInv
        /\ TablesInv /\ MigrationHasWorker

(***************************************************************************)
(* Chains                                                                  *)
(***************************************************************************)
LEMMA ConsChain ==
    ASSUME NEW S, NEW q \in Seq(S), NEW e \in S
    PROVE  /\ <<e>> \o q \in Seq(S)
           /\ Len(<<e>> \o q) = Len(q) + 1
           /\ \A i \in 1 .. Len(q) + 1 :
                  (<<e>> \o q)[i] = IF i = 1 THEN e ELSE q[i - 1]
           /\ Range(<<e>> \o q) = {e} \cup Range(q)
           /\ IsInjective(q) /\ e \notin Range(q) => IsInjective(<<e>> \o q)
<1>1. /\ <<e>> \o q \in Seq(S)
      /\ Len(<<e>> \o q) = Len(q) + 1
      /\ \A i \in 1 .. Len(q) + 1 :
             (<<e>> \o q)[i] = IF i = 1 THEN e ELSE q[i - 1]
  OBVIOUS
<1> DEFINE p == <<e>> \o q
<1>2. /\ DOMAIN p = 1 .. Len(q) + 1 /\ DOMAIN q = 1 .. Len(q)
      /\ Len(q) \in Nat
  BY <1>1
<1>3. p[1] = e /\ \A i \in DOMAIN q : p[i + 1] = q[i]
  BY <1>1, <1>2
<1>4. \A i \in DOMAIN p : i = 1 \/ (i - 1 \in DOMAIN q /\ p[i] = q[i - 1])
  BY <1>1, <1>2
<1> HIDE DEF p
<1>5. Range(p) = {e} \cup Range(q)
  <2>1. ASSUME NEW x \in Range(p) PROVE x \in {e} \cup Range(q)
    BY <1>3, <1>4 DEF Range
  <2>2. e \in Range(p) /\ \A x \in Range(q) : x \in Range(p)
    <3>1. 1 \in DOMAIN p /\ \A i \in DOMAIN q : i + 1 \in DOMAIN p
      BY <1>2
    <3> QED
      BY <3>1, <1>3 DEF Range
  <2> QED
    BY <2>1, <2>2
<1>6. ASSUME IsInjective(q), e \notin Range(q) PROVE IsInjective(p)
  <2> SUFFICES ASSUME NEW a \in DOMAIN p, NEW b \in DOMAIN p, p[a] = p[b]
               PROVE  a = b
    BY DEF IsInjective
  <2>1. \A i \in DOMAIN q : q[i] # e
    BY <1>6 DEF Range
  <2>2. CASE a = 1 \/ b = 1
    BY <2>1, <2>2, <1>3, <1>4
  <2>3. CASE a # 1 /\ b # 1
    BY <2>3, <1>4, <1>6, <1>2 DEF IsInjective
  <2> QED
    BY <2>2, <2>3
<1> QED
  BY <1>1, <1>5, <1>6 DEF p

LEMMA TailChain ==
    ASSUME NEW S, NEW q \in Seq(S), q # <<>>, IsInjective(q)
    PROVE  /\ Head(q) \in S
           /\ Head(q) \in Range(q)
           /\ Tail(q) \in Seq(S)
           /\ Range(Tail(q)) = Range(q) \ {Head(q)}
           /\ IsInjective(Tail(q))
<1>1. /\ Tail(q) \in Seq(S) /\ Head(q) = q[1] /\ q[1] \in S
      /\ Len(q) \in Nat /\ Len(q) >= 1 /\ Len(Tail(q)) = Len(q) - 1
      /\ \A i \in 1 .. Len(q) - 1 : Tail(q)[i] = q[i + 1]
  BY HeadTailProperties, ElementOfSeq, EmptySeq, LenProperties
<1> DEFINE p == Tail(q)
<1>2. DOMAIN p = 1 .. Len(q) - 1 /\ DOMAIN q = 1 .. Len(q)
  BY <1>1
<1>3. \A i \in DOMAIN p : i + 1 \in DOMAIN q /\ i + 1 # 1 /\ p[i] = q[i + 1]
  BY <1>1, <1>2
<1>4. 1 \in DOMAIN q /\ \A i \in DOMAIN q : i = 1 \/ i - 1 \in DOMAIN p
  BY <1>1, <1>2
<1>5. \A i \in DOMAIN q : i # 1 => p[i - 1] = q[i]
  <2> TAKE i \in DOMAIN q
  <2> HAVE i # 1
  <2>1. i - 1 \in DOMAIN p /\ (i - 1) + 1 = i
    BY <1>4, <1>2
  <2> QED
    BY <2>1, <1>3
<1> HIDE DEF p
<1>6. Range(p) = Range(q) \ {q[1]}
  <2>1. ASSUME NEW x \in Range(p) PROVE x \in Range(q) \ {q[1]}
    <3>1. PICK i \in DOMAIN p : x = p[i]
      BY DEF Range
    <3> QED
      BY <3>1, <1>3, <1>4 DEF Range, IsInjective
  <2>2. ASSUME NEW x \in Range(q), x # q[1] PROVE x \in Range(p)
    <3>1. PICK i \in DOMAIN q : x = q[i]
      BY DEF Range
    <3>2. i # 1
      BY <3>1, <2>2
    <3> QED
      BY <3>1, <3>2, <1>4, <1>5 DEF Range
  <2> QED
    BY <2>1, <2>2
<1>7. IsInjective(p)
  <2> SUFFICES ASSUME NEW a \in DOMAIN p, NEW b \in DOMAIN p, p[a] = p[b]
               PROVE  a = b
    BY DEF IsInjective
  <2>1. a + 1 = b + 1
    BY <1>3 DEF IsInjective
  <2> QED
    BY <2>1, <1>2, <1>1
<1> QED
  BY <1>1, <1>4, <1>6, <1>7 DEF p, Range

LEMMA UnchainChain ==
    ASSUME NEW S, NEW q \in Seq(S), IsInjective(q), NEW n \in Range(q)
    PROVE  /\ Unchain(q, n) \in Seq(S)
           /\ Range(Unchain(q, n)) = Range(q) \ {n}
           /\ IsInjective(Unchain(q, n))
<1>0. Len(q) \in Nat /\ DOMAIN q = 1 .. Len(q)
  OBVIOUS
<1>1. PICK i \in DOMAIN q : q[i] = n
  BY DEF Range
<1>2. \A j \in DOMAIN q : q[j] = n => j = i
  BY <1>1 DEF IsInjective
<1>3. \A j \in 1 .. i - 1 : q[j] # n
  BY <1>0, <1>1, <1>2
<1> DEFINE First(k) == q[k] = n /\ \A j \in 1 .. k - 1 : q[j] # n
<1>4. (CHOOSE k \in DOMAIN q : First(k)) = i
  BY <1>1, <1>2, <1>3
<1> DEFINE p == SubSeq(q, 1, i - 1) \o SubSeq(q, i + 1, Len(q))
<1>5. Unchain(q, n) = p
  BY <1>4 DEF Unchain, RemoveAt
<1>6. /\ p \in Seq(S) /\ Len(p) = Len(q) - 1
      /\ \A j \in 1 .. Len(q) - 1 : p[j] = IF j < i THEN q[j] ELSE q[j + 1]
  <2> DEFINE a == SubSeq(q, 1, i - 1)
             b == SubSeq(q, i + 1, Len(q))
  <2>0. i \in Nat /\ 1 <= i /\ i <= Len(q)
    BY <1>0
  <2>1. /\ a \in Seq(S) /\ Len(a) = i - 1
        /\ \A j \in 1 .. i - 1 : a[j] = q[j]
    BY <2>0, <1>0
  <2>2. /\ b \in Seq(S) /\ Len(b) = Len(q) - i
        /\ \A j \in 1 .. Len(q) - i : b[j] = q[j + i]
    <3>1. i + 1 \in 1 .. Len(q) + 1
      BY <2>0, <1>0
    <3>2. /\ SubSeq(q, i + 1, Len(q)) \in Seq(S)
          /\ Len(SubSeq(q, i + 1, Len(q))) = Len(q) - i
          /\ \A j \in 1 .. Len(q) - i :
                 SubSeq(q, i + 1, Len(q))[j] = q[(i + 1) + j - 1]
      BY <2>0, <1>0, SubSeqProperties
    <3>3. \A j \in 1 .. Len(q) - i : (i + 1) + j - 1 = j + i
      BY <2>0, <1>0
    <3> QED
      BY <3>2, <3>3
  <2> HIDE DEF a, b
  <2>3. /\ a \o b \in Seq(S) /\ Len(a \o b) = Len(a) + Len(b)
        /\ \A j \in 1 .. Len(a) + Len(b) :
               (a \o b)[j] = IF j <= Len(a) THEN a[j] ELSE b[j - Len(a)]
    BY SMTT(60), <2>1, <2>2
  <2>4. p = a \o b
    BY DEF a, b
  <2> HIDE DEF p
  <2>5. Len(p) = Len(q) - 1
    <3>1. Len(p) = Len(a) + Len(b)
      BY <2>3, <2>4, Zenon
    <3> QED
      BY <3>1, <2>0, <2>1, <2>2, <1>0
  <2>6. ASSUME NEW j \in 1 .. Len(q) - 1
        PROVE  p[j] = IF j < i THEN q[j] ELSE q[j + 1]
    <3>1. i \in 1 .. Len(q) /\ j \in 1 .. Len(a) + Len(b)
      BY <1>0, <2>1, <2>2
    <3>2. CASE j < i
      <4>1. j <= Len(a) /\ j \in 1 .. i - 1
        BY <3>1, <3>2, <2>1, <1>0
      <4> QED
        BY <4>1, <3>1, <3>2, <2>1, <2>3, <2>4
    <3>3. CASE ~(j < i)
      <4>1. /\ ~(j <= Len(a)) /\ j - Len(a) \in 1 .. Len(q) - i
            /\ (j - Len(a)) + i = j + 1
        BY <2>0, <3>1, <3>3, <2>1, <1>0
      <4>2. b[j - Len(a)] = q[(j - Len(a)) + i]
        BY <4>1, <2>2
      <4> QED
        BY <4>1, <4>2, <3>1, <3>3, <2>3, <2>4
    <3> QED
      BY <3>2, <3>3
  <2> QED
    BY <2>3, <2>4, <2>5, <2>6
<1> HIDE DEF p
<1>7. DOMAIN p = 1 .. Len(q) - 1
  BY <1>6
<1>8. \A j \in DOMAIN p :
          IF j < i THEN j \in DOMAIN q /\ j # i /\ p[j] = q[j]
          ELSE j + 1 \in DOMAIN q /\ j + 1 # i /\ p[j] = q[j + 1]
  BY <1>0, <1>6, <1>7
<1>9. \A j \in DOMAIN q : j # i =>
          IF j < i THEN j \in DOMAIN p /\ p[j] = q[j]
          ELSE j - 1 \in DOMAIN p /\ p[j - 1] = q[j]
  <2> TAKE j \in DOMAIN q
  <2> HAVE j # i
  <2>1. CASE j < i
    BY <2>1, <1>0, <1>6, <1>7
  <2>2. CASE ~(j < i)
    <3>1. j - 1 \in DOMAIN p /\ ~(j - 1 < i) /\ (j - 1) + 1 = j
      BY <2>2, <1>0, <1>7
    <3> QED
      BY <3>1, <2>2, <1>8
  <2> QED
    BY <2>1, <2>2
<1>10. Range(p) = Range(q) \ {n}
  <2>1. ASSUME NEW x \in Range(p) PROVE x \in Range(q) \ {n}
    <3>1. PICK j \in DOMAIN p : x = p[j]
      BY DEF Range
    <3>2. PICK k \in DOMAIN q : k # i /\ x = q[k]
      BY <3>1, <1>8
    <3> QED
      BY <3>2, <1>2 DEF Range
  <2>2. ASSUME NEW x \in Range(q), x # n PROVE x \in Range(p)
    <3>1. PICK j \in DOMAIN q : x = q[j]
      BY DEF Range
    <3>2. j # i
      BY <3>1, <2>2, <1>1
    <3> QED
      BY <3>1, <3>2, <1>9 DEF Range
  <2> QED
    BY <2>1, <2>2
<1>11. IsInjective(p)
  <2> SUFFICES ASSUME NEW a \in DOMAIN p, NEW b \in DOMAIN p, p[a] = p[b]
               PROVE  a = b
    BY DEF IsInjective
  <2> DEFINE At0(j) == IF j < i THEN j ELSE j + 1
  <2>1. /\ At0(a) \in DOMAIN q /\ p[a] = q[At0(a)]
        /\ At0(b) \in DOMAIN q /\ p[b] = q[At0(b)]
    BY <1>8
  <2>2. At0(a) = At0(b)
    BY <2>1 DEF IsInjective
  <2> QED
    BY <2>2, <1>0, <1>7
<1> QED
  BY <1>5, <1>6, <1>10, <1>11

(***************************************************************************)
(* Tables                                                                  *)
(***************************************************************************)
LEMMA Remainder ==
    ASSUME NEW h \in Nat, NEW l \in Nat, l # 0
    PROVE  (h % l) + 1 \in 1 .. l
OBVIOUS

LEMMA Shape ==
    ASSUME NEW T \in Tables
    PROVE  /\ Len(T) \in Nat /\ DOMAIN T = 1 .. Len(T)
           /\ T # NoTable <=> Len(T) # 0
           /\ \A b \in DOMAIN T : T[b] \in Seq(Nodes)
           /\ \A b \in DOMAIN T : DOMAIN T[b] = 1 .. Len(T[b])
           /\ \A b \in DOMAIN T : Range(T[b]) \subseteq Nodes
           /\ InTable(T) \subseteq Nodes
<1>1. /\ Len(T) \in Nat /\ DOMAIN T = 1 .. Len(T)
      /\ \A b \in DOMAIN T : T[b] \in Seq(Nodes)
  BY DEF Tables
<1>2. T # NoTable <=> Len(T) # 0
  BY EmptySeq DEF Tables, NoTable
<1>3. \A b \in DOMAIN T : DOMAIN T[b] = 1 .. Len(T[b])
  BY <1>1
<1>4. \A b \in DOMAIN T : Range(T[b]) \subseteq Nodes
  <2> TAKE b \in DOMAIN T
  <2>1. \A i \in DOMAIN T[b] : T[b][i] \in Nodes
    BY <1>1
  <2> QED
    BY <2>1 DEF Range
<1> QED
  BY <1>1, <1>2, <1>3, <1>4 DEF InTable

(* Where the set is.                                                       *)
LEMMA Member ==
    ASSUME NEW T, NEW n
    PROVE  n \in InTable(T) <=> \E b \in DOMAIN T : n \in Range(T[b])
BY DEF InTable

LEMMA HousedAt ==
    ASSUME NEW T \in Tables, NEW g, Housed(T, g),
           NEW b \in DOMAIN T, NEW n \in Range(T[b])
    PROVE  b = (Hash[g[n]] % Len(T)) + 1
BY DEF Housed, Range

LEMMA Replaced ==
    ASSUME NEW T \in Tables, NEW b \in DOMAIN T, NEW q \in Seq(Nodes)
    PROVE  LET U == [T EXCEPT ![b] = q]
           IN  /\ U \in Tables
               /\ Len(U) = Len(T) /\ DOMAIN U = DOMAIN T
               /\ U[b] = q
               /\ \A c \in DOMAIN T : c # b => U[c] = T[c]
BY DEF Tables

(* One chain has lost or gained a set.                                     *)
Put(T, b, q) == [T EXCEPT ![b] = q]
Fits(T, b, q, g) ==
    \A n \in Range(q) : n \in Range(T[b])
                        \/ b = (Hash[g[n]] % Len(T)) + 1
LEMMA Rehoused ==
    ASSUME NEW T \in Tables, NEW g, Housed(T, g),
           NEW b \in DOMAIN T, NEW q \in Seq(Nodes), IsInjective(q),
           Fits(T, b, q, g)
    PROVE  /\ Put(T, b, q) \in Tables
           /\ Len(Put(T, b, q)) = Len(T) /\ DOMAIN Put(T, b, q) = DOMAIN T
           /\ \A c \in DOMAIN T : c # b => Put(T, b, q)[c] = T[c]
           /\ Housed(Put(T, b, q), g)
           /\ InTable(Put(T, b, q)) = (InTable(T) \ Range(T[b])) \cup Range(q)
<1> DEFINE U == Put(T, b, q)
<1>1. /\ U \in Tables
      /\ Len(U) = Len(T) /\ DOMAIN U = DOMAIN T
      /\ U[b] = q
      /\ \A c \in DOMAIN T : c # b => U[c] = T[c]
  BY Replaced DEF Put
<1> HIDE DEF U
<1>2. Housed(U, g)
  <2> SUFFICES ASSUME NEW c \in DOMAIN U
               PROVE  /\ IsInjective(U[c])
                      /\ \A i \in DOMAIN U[c] :
                             (Hash[g[U[c][i]]] % Len(U)) + 1 = c
    BY DEF Housed
  <2>1. CASE c = b
    <3> SUFFICES ASSUME NEW i \in DOMAIN q
                 PROVE  (Hash[g[q[i]]] % Len(T)) + 1 = b
      BY <1>1, <2>1
    <3>1. q[i] \in Range(q)
      BY DEF Range
    <3> QED
      BY <3>1, HousedAt DEF Fits
  <2>2. CASE c # b
    BY <2>2, <1>1 DEF Housed
  <2> QED
    BY <2>1, <2>2
<1>3. ASSUME NEW n \in InTable(U)
      PROVE  n \in (InTable(T) \ Range(T[b])) \cup Range(q)
  <2>1. PICK c \in DOMAIN U : n \in Range(U[c])
    BY <1>3, Member
  <2>2. CASE c = b
    BY <2>1, <2>2, <1>1
  <2>3. CASE c # b
    <3>1. n \in Range(T[c])
      BY <2>1, <2>3, <1>1
    <3>2. n \notin Range(T[b])
      <4> SUFFICES ASSUME n \in Range(T[b]) PROVE FALSE
        OBVIOUS
      <4> QED
        BY <3>1, <2>3, <1>1, HousedAt
    <3> QED
      BY <3>1, <3>2, <1>1, Member
  <2> QED
    BY <2>2, <2>3
<1>4. ASSUME NEW n \in (InTable(T) \ Range(T[b])) \cup Range(q)
      PROVE  n \in InTable(U)
  <2>1. CASE n \in Range(q)
    BY <2>1, <1>1, Member
  <2>2. CASE n \notin Range(q)
    <3>1. PICK c \in DOMAIN T : n \in Range(T[c])
      BY <2>2, <1>4, Member
    <3>2. c # b
      BY <3>1, <2>2, <1>4
    <3> QED
      BY <3>1, <3>2, <1>1, Member
  <2> QED
    BY <2>1, <2>2
<1> QED
  BY <1>1, <1>2, <1>3, <1>4 DEF U

LEMMA Pushed ==
    ASSUME NEW T \in Tables, T # NoTable, Housed(T, tags),
           NEW n \in Nodes, n \notin InTable(T), tags[n] \in TagSets
    PROVE  /\ Push(T, n) \in Tables
           /\ Len(Push(T, n)) = Len(T)
           /\ Housed(Push(T, n), tags)
           /\ InTable(Push(T, n)) = InTable(T) \cup {n}
<1> DEFINE b == BucketFor(T, n)
           q == <<n>> \o T[b]
<1>1. b \in DOMAIN T /\ b = (Hash[tags[n]] % Len(T)) + 1
  BY Shape, Remainder, HashNat DEF BucketFor
<1>2. Push(T, n) = Put(T, b, q)
  BY DEF Push, Put
<1> HIDE DEF b
<1>3. T[b] \in Seq(Nodes) /\ IsInjective(T[b]) /\ n \notin Range(T[b])
  BY <1>1, Shape, Member DEF Housed
<1>4. q \in Seq(Nodes) /\ Range(q) = {n} \cup Range(T[b]) /\ IsInjective(q)
  BY <1>3, ConsChain
<1> HIDE DEF q
<1>5. Fits(T, b, q, tags)
  BY <1>4, <1>1 DEF Fits
<1>6. /\ Push(T, n) \in Tables
      /\ Len(Push(T, n)) = Len(T)
      /\ Housed(Push(T, n), tags)
      /\ InTable(Push(T, n)) = (InTable(T) \ Range(T[b])) \cup Range(q)
  BY <1>1, <1>2, <1>4, <1>5, Rehoused
<1>7. Range(T[b]) \subseteq InTable(T)
  BY <1>1, Member
<1> QED
  BY <1>4, <1>6, <1>7

LEMMA Popped ==
    ASSUME NEW T \in Tables, Housed(T, tags),
           NEW b \in DOMAIN T, T[b] # <<>>
    PROVE  LET U == [T EXCEPT ![b] = Tail(T[b])]
           IN  /\ Head(T[b]) \in InTable(T)
               /\ U \in Tables
               /\ Len(U) = Len(T) /\ DOMAIN U = DOMAIN T
               /\ \A c \in DOMAIN T : c # b => U[c] = T[c]
               /\ Housed(U, tags)
               /\ InTable(U) = InTable(T) \ {Head(T[b])}
<1>1. T[b] \in Seq(Nodes) /\ IsInjective(T[b])
  BY Shape DEF Housed
<1> DEFINE q == Tail(T[b])
<1>2. /\ Head(T[b]) \in Range(T[b])
      /\ q \in Seq(Nodes) /\ Range(q) = Range(T[b]) \ {Head(T[b])}
      /\ IsInjective(q)
  BY <1>1, TailChain
<1> HIDE DEF q
<1>0. Fits(T, b, q, tags)
  BY <1>2 DEF Fits
<1> DEFINE U == Put(T, b, q)
<1>3. /\ U \in Tables
      /\ Len(U) = Len(T) /\ DOMAIN U = DOMAIN T
      /\ \A c \in DOMAIN T : c # b => U[c] = T[c]
      /\ Housed(U, tags)
      /\ InTable(U) = (InTable(T) \ Range(T[b])) \cup Range(q)
  BY <1>0, <1>1, <1>2, Rehoused
<1> HIDE DEF U
<1>4. Range(T[b]) \subseteq InTable(T)
  BY Member
<1>5. Head(T[b]) \in InTable(T) /\ InTable(U) = InTable(T) \ {Head(T[b])}
  BY <1>2, <1>3, <1>4
<1> QED
  BY <1>3, <1>5 DEF U, q, Put

LEMMA WithoutIt ==
    ASSUME NEW T \in Tables, Housed(T, tags), NEW n \in InTable(T)
    PROVE  /\ Without(T, n) \in Tables
           /\ Len(Without(T, n)) = Len(T)
           /\ DOMAIN Without(T, n) = DOMAIN T
           /\ \A c \in DOMAIN T : Without(T, n)[c] = T[c] \/ T[c] # <<>>
           /\ Housed(Without(T, n), tags)
           /\ InTable(Without(T, n)) = InTable(T) \ {n}
<1>1. PICK b \in DOMAIN T : n \in Range(T[b])
  BY Member
<1>2. b = BucketFor(T, n)
  BY <1>1, HousedAt DEF BucketFor
<1>3. T[b] \in Seq(Nodes) /\ IsInjective(T[b])
  BY Shape DEF Housed
<1> DEFINE q == Unchain(T[b], n)
<1>4. /\ q \in Seq(Nodes) /\ Range(q) = Range(T[b]) \ {n}
      /\ IsInjective(q)
  BY <1>1, <1>3, UnchainChain
<1>5. Without(T, n) = Put(T, b, q)
  BY <1>2 DEF Without, Put
<1> HIDE DEF q
<1>0. Fits(T, b, q, tags)
  BY <1>4 DEF Fits
<1>6. /\ Without(T, n) \in Tables
      /\ Len(Without(T, n)) = Len(T) /\ DOMAIN Without(T, n) = DOMAIN T
      /\ \A c \in DOMAIN T : c # b => Without(T, n)[c] = T[c]
      /\ Housed(Without(T, n), tags)
      /\ InTable(Without(T, n)) = (InTable(T) \ Range(T[b])) \cup Range(q)
  BY <1>0, <1>4, <1>5, Rehoused
<1>7. Range(T[b]) \subseteq InTable(T)
  BY Member
<1>8. T[b] # <<>>
  BY <1>1 DEF Range
<1> QED
  BY <1>1, <1>4, <1>6, <1>7, <1>8

(***************************************************************************)
(* Migration                                                               *)
(***************************************************************************)
(* The order of the naturals, as a relation.                               *)
Below == {p \in Nat \X Nat : p[1] < p[2]}

LEMMA BelowWellFounded == IsWellFoundedOn(Below, Nat)
BY NatLessThanWellFounded, Zenon DEF OpToRel, Below

(* Every non-empty set of naturals has a smallest element.                 *)
LEMMA Smallest ==
    ASSUME NEW S \in SUBSET Nat, S # {}
    PROVE  \E v \in S : \A w \in S : v <= w
<1>1. PICK v \in S : \A w \in S : <<w, v>> \notin Below
  BY BelowWellFounded, WFMin
<1>2. \A w \in S : w \in Nat /\ v \in Nat /\ ~(w < v)
  BY <1>1 DEF Below
<1> QED
  BY <1>2

(* What a migration leaves as it was.                                      *)
Same(R, Q) ==
    /\ Good(Q, tags)
    /\ In(Q) = In(R)
    /\ Q.sets = R.sets /\ Q.generation = R.generation
    /\ Len(Q.primary) = Len(R.primary)
    /\ Migrating(Q) => Migrating(R)

LEMMA GoodParts ==
    ASSUME NEW R, NEW g, Good(R, g)
    PROVE  /\ R \in Registries
           /\ R.primary \in Tables /\ R.old \in Tables
           /\ R.cursor \in Nat /\ R.sets \in Nat /\ R.generation \in Nat
           /\ Housed(R.primary, g) /\ Housed(R.old, g)
           /\ CursorOK(R) /\ SetsOK(R, g)
           /\ In(R) \subseteq Nodes
<1>1. /\ R \in Registries
      /\ R.primary \in Tables /\ R.old \in Tables
      /\ R.cursor \in Nat /\ R.sets \in Nat /\ R.generation \in Nat
  BY DEF Good, Registries
<1>2. In(R) \subseteq Nodes
  BY <1>1, Shape DEF In
<1> QED
  BY <1>1, <1>2 DEF Good

LEMMA SameTwice ==
    ASSUME NEW R, NEW Q, NEW P, Same(R, Q), Same(Q, P)
    PROVE  Same(R, P)
BY DEF Same

LEMMA EmptyTable ==
    /\ NoTable \in Tables /\ InTable(NoTable) = {}
    /\ Len(NoTable) = 0 /\ DOMAIN NoTable = {}
    /\ \A g : Housed(NoTable, g)
<1>1. NoTable \in Tables /\ Len(NoTable) = 0
  BY DEF NoTable, Tables
<1>2. DOMAIN NoTable = {}
  BY <1>1, Shape
<1> QED
  BY <1>1, <1>2 DEF InTable, Housed

(* An old table that is passed by the cursor is empty.                     *)
LEMMA PassedBy ==
    ASSUME NEW R, Good(R, tags), R.cursor > Len(R.old)
    PROVE  InTable(R.old) = {}
<1>1. R.old \in Tables /\ R.cursor \in Nat /\ CursorOK(R)
  BY GoodParts
<1>2. \A b \in DOMAIN R.old : b < R.cursor
  BY <1>1, Shape
<1>3. \A b \in DOMAIN R.old : R.old[b] = <<>>
  BY <1>1, <1>2 DEF CursorOK
<1>4. \A b \in DOMAIN R.old : Range(R.old[b]) = {}
  BY <1>3 DEF Range
<1> QED
  BY <1>4 DEF InTable

LEMMA FinishSame ==
    ASSUME NEW R, Good(R, tags)
    PROVE  /\ Same(R, Finish(R))
           /\ Migrating(Finish(R))
                => Finish(R).cursor <= Len(Finish(R).old)
<1>0. /\ R \in Registries /\ R.old \in Tables /\ R.cursor \in Nat
      /\ R.primary \in Tables
      /\ CursorOK(R) /\ SetsOK(R, tags) /\ Len(R.old) \in Nat
  BY GoodParts, Shape
<1>1. CASE ~(Migrating(R) /\ R.cursor > Len(R.old))
  <2>1. Finish(R) = R
    BY <1>1 DEF Finish
  <2> QED
    BY <2>1, <1>0, <1>1 DEF Same
<1>2. CASE Migrating(R) /\ R.cursor > Len(R.old)
  <2> DEFINE Q == Finish(R)
  <2>1. /\ Q \in Registries
        /\ Q.primary = R.primary /\ Q.old = NoTable /\ Q.cursor = 1
        /\ Q.sets = R.sets /\ Q.generation = R.generation
    BY <1>0, <1>2, EmptyTable DEF Finish, Registries
  <2> HIDE DEF Q
  <2>2. In(Q) = In(R) /\ InTable(Q.old) = {}
    BY <2>1, <1>2, PassedBy, EmptyTable DEF In
  <2>3. Housed(Q.primary, tags) /\ Housed(Q.old, tags)
    BY <2>1, EmptyTable DEF Good
  <2>4. CursorOK(Q)
    BY <2>1, EmptyTable DEF CursorOK
  <2>5. SetsOK(Q, tags)
    BY <2>2, <1>0 DEF SetsOK
  <2>6. ~Migrating(Q)
    BY <2>1 DEF Migrating
  <2> QED
    BY <2>1, <2>2, <2>3, <2>4, <2>5, <2>6, <1>2 DEF Q, Same, Good
<1> QED
  BY <1>1, <1>2

(* The set moves from the one table to the other.                          *)
LEMMA MoveSame ==
    ASSUME NEW R, Good(R, tags), Migrating(R), R.cursor <= Len(R.old),
           R.old[R.cursor] # <<>>
    PROVE  Same(R, [R EXCEPT !.primary = Push(@, Head(R.old[R.cursor])),
                             !.old[R.cursor] = Tail(@)])
<1> DEFINE n == Head(R.old[R.cursor])
           U == [R.old EXCEPT ![R.cursor] = Tail(R.old[R.cursor])]
           P == Push(R.primary, n)
           Q == [R EXCEPT !.primary = P, !.old = U]
<1>0. /\ R \in Registries /\ R.old \in Tables /\ R.cursor \in Nat
      /\ R.primary \in Tables /\ Housed(R.primary, tags)
      /\ Housed(R.old, tags)
      /\ CursorOK(R) /\ SetsOK(R, tags)
      /\ Len(R.old) \in Nat /\ DOMAIN R.old = 1 .. Len(R.old)
      /\ In(R) \subseteq Nodes
  BY GoodParts, Shape
<1>1. R.primary # NoTable /\ R.cursor \in DOMAIN R.old
  BY <1>0 DEF CursorOK, Migrating
<1>2. /\ n \in InTable(R.old)
      /\ U \in Tables
      /\ Len(U) = Len(R.old) /\ DOMAIN U = DOMAIN R.old
      /\ \A c \in DOMAIN R.old : c # R.cursor => U[c] = R.old[c]
      /\ Housed(U, tags)
      /\ InTable(U) = InTable(R.old) \ {n}
  BY <1>0, <1>1, Popped
<1> HIDE DEF U, n
<1>3. n \in Nodes /\ n \notin InTable(R.primary) /\ tags[n] \in TagSets
  BY <1>0, <1>2 DEF SetsOK, In
<1>4. /\ P \in Tables /\ Len(P) = Len(R.primary)
      /\ Housed(P, tags)
      /\ InTable(P) = InTable(R.primary) \cup {n}
  BY <1>0, <1>1, <1>3, Pushed
<1> HIDE DEF P
<1>5. /\ Q \in Registries
      /\ Q.primary = P /\ Q.old = U /\ Q.cursor = R.cursor
      /\ Q.sets = R.sets /\ Q.generation = R.generation
  BY <1>0, <1>2, <1>4 DEF Registries
<1>6. Q = [R EXCEPT !.primary = Push(@, Head(R.old[R.cursor])),
                    !.old[R.cursor] = Tail(@)]
  BY <1>0 DEF P, U, n, Registries
<1> HIDE DEF Q
<1>7. In(Q) = In(R)
  BY <1>2, <1>4, <1>5 DEF In
<1>8. SetsOK(Q, tags)
  BY <1>0, <1>2, <1>4, <1>5, <1>7, <1>3 DEF SetsOK
<1>9. CursorOK(Q)
  <2>1. Q.primary # NoTable
    BY <1>1, <1>0, <1>4, <1>5, Shape
  <2>2. \A b \in DOMAIN Q.old : b < Q.cursor => Q.old[b] = <<>>
    BY <1>0, <1>2, <1>5 DEF CursorOK
  <2> QED
    BY <2>1, <2>2, <1>0, <1>2, <1>5 DEF CursorOK
<1>10. Good(Q, tags)
  BY <1>2, <1>4, <1>5, <1>8, <1>9 DEF Good
<1> QED
  BY <1>4, <1>5, <1>6, <1>7, <1>10 DEF Same

LEMMA StepSame ==
    ASSUME NEW R, Good(R, tags)
    PROVE  Same(R, MigrateStep(R))
<1>0. /\ R \in Registries /\ R.old \in Tables /\ R.cursor \in Nat
      /\ R.primary \in Tables /\ Housed(R.primary, tags)
      /\ Housed(R.old, tags)
      /\ CursorOK(R) /\ SetsOK(R, tags)
      /\ Len(R.old) \in Nat /\ DOMAIN R.old = 1 .. Len(R.old)
  BY GoodParts, Shape
<1>1. CASE ~Migrating(R) \/ R.cursor > Len(R.old)
  BY <1>1, FinishSame DEF MigrateStep
<1>2. CASE Migrating(R) /\ R.cursor <= Len(R.old) /\ R.old[R.cursor] = <<>>
  <2> DEFINE Q == [R EXCEPT !.cursor = @ + 1]
  <2>1. MigrateStep(R) = Q
    BY <1>2, <1>0 DEF MigrateStep
  <2>2. /\ Q \in Registries
        /\ Q.primary = R.primary /\ Q.old = R.old
        /\ Q.cursor = R.cursor + 1
        /\ Q.sets = R.sets /\ Q.generation = R.generation
    BY <1>0 DEF Registries
  <2> HIDE DEF Q
  <2>3. In(Q) = In(R) /\ SetsOK(Q, tags) /\ (Migrating(Q) <=> Migrating(R))
    BY <2>2, <1>0 DEF In, SetsOK, Migrating
  <2>4. \A b \in DOMAIN R.old : b < R.cursor + 1 =>
            b < R.cursor \/ b = R.cursor
    BY <1>0
  <2>5. CursorOK(Q)
    <3>1. \A b \in DOMAIN Q.old : b < Q.cursor => Q.old[b] = <<>>
      BY <2>2, <2>4, <1>0, <1>2 DEF CursorOK
    <3>2. Q.cursor \in 1 .. Len(Q.old) + 1
      BY <2>2, <1>0, <1>2
    <3>3. Q.old # NoTable => Q.primary # NoTable
      BY <2>2, <1>0 DEF CursorOK
    <3> QED
      BY <3>1, <3>2, <3>3 DEF CursorOK
  <2> QED
    BY <2>1, <2>2, <2>3, <2>5, <1>0 DEF Same, Good
<1>3. CASE Migrating(R) /\ R.cursor <= Len(R.old) /\ R.old[R.cursor] # <<>>
  <2>1. MigrateStep(R) =
            [R EXCEPT !.primary = Push(@, Head(R.old[R.cursor])),
                      !.old[R.cursor] = Tail(@)]
    BY <1>3, <1>0 DEF MigrateStep
  <2> QED
    BY <2>1, <1>3, MoveSame
<1> QED
  BY <1>0, <1>1, <1>2, <1>3

Steps(R, r, k) ==
    r = [i \in 0 .. k |-> IF i = 0 THEN R ELSE MigrateStep(r[i - 1])]

LEMMA StepsExist ==
    ASSUME NEW R, NEW k \in Nat
    PROVE  \E r : Steps(R, r, k)
<1> DEFINE Bad == {n \in Nat : ~ \E r : Steps(R, r, n)}
<1> SUFFICES ASSUME Bad # {} PROVE FALSE
  OBVIOUS
<1>1. PICK n \in Bad : \A m \in Bad : n <= m
  BY Smallest
<1>2. n \in Nat /\ (n # 0 => n - 1 \in Nat \ Bad)
  BY <1>1
<1>3. CASE n = 0
  <2>1. Steps(R, [i \in 0 .. 0 |-> R], 0)
    BY DEF Steps
  <2> QED
    BY <2>1, <1>1, <1>3
<1>4. CASE n # 0
  <2>1. PICK h : Steps(R, h, n - 1)
    BY <1>2, <1>4
  <2> DEFINE r == [i \in 0 .. n |->
                       IF i = n THEN MigrateStep(h[n - 1]) ELSE h[i]]
  <2>2. \A i \in 0 .. n - 1 :
            h[i] = IF i = 0 THEN R ELSE MigrateStep(h[i - 1])
    BY <2>1 DEF Steps
  <2>3. ASSUME NEW i \in 0 .. n
        PROVE  r[i] = IF i = 0 THEN R ELSE MigrateStep(r[i - 1])
    <3>1. CASE i = n
      <4>1. n - 1 \in 0 .. n /\ n - 1 # n
        BY <1>2, <1>4
      <4>2. r[n - 1] = h[n - 1] /\ r[n] = MigrateStep(h[n - 1])
        BY <4>1, <1>2
      <4> QED
        BY <3>1, <4>2, <1>4
    <3>2. CASE i # n
      <4>1. i \in 0 .. n - 1 /\ (i # 0 => i - 1 \in 0 .. n /\ i - 1 # n)
        BY <3>2, <1>2
      <4>2. r[i] = h[i] /\ (i # 0 => r[i - 1] = h[i - 1])
        BY <4>1, <3>2
      <4> QED
        BY <4>1, <4>2, <2>2
    <3> QED
      BY <3>1, <3>2
  <2>4. r = [i \in 0 .. n |-> r[i]]
    OBVIOUS
  <2> HIDE DEF r
  <2>5. Steps(R, r, n)
    BY <2>3, <2>4 DEF Steps
  <2> QED
    BY <2>5, <1>1
<1> QED
  BY <1>3, <1>4

LEMMA Migrated ==
    ASSUME NEW R, NEW k \in Nat, Good(R, tags)
    PROVE  /\ Same(R, Migrate(R, k))
           /\ Migrating(Migrate(R, k))
                => Migrate(R, k).cursor <= Len(Migrate(R, k).old)
<1> DEFINE r == CHOOSE f : Steps(R, f, k)
<1>1. Migrate(R, k) = Finish(r[k])
  BY DEF Migrate, Steps
<1>2. Steps(R, r, k)
  BY StepsExist
<1> HIDE DEF r
<1>3. \A i \in 0 .. k : r[i] = IF i = 0 THEN R ELSE MigrateStep(r[i - 1])
  BY <1>2 DEF Steps
<1> DEFINE Bad == {i \in 0 .. k : ~Same(R, r[i])}
<1>4. Bad = {}
  <2> SUFFICES ASSUME Bad # {} PROVE FALSE
    OBVIOUS
  <2>1. PICK i \in Bad : \A j \in Bad : i <= j
    <3>1. Bad \in SUBSET Nat
      OBVIOUS
    <3> HIDE DEF Bad
    <3> QED
      BY <3>1, Smallest
  <2>2. CASE i = 0
    <3>1. r[0] = R
      BY <1>3, <2>1, <2>2
    <3> QED
      BY <3>1, <2>1, <2>2 DEF Same
  <2>3. CASE i # 0
    <3>1. i - 1 \in 0 .. k /\ i \in 0 .. k /\ ~(i <= i - 1)
      BY <2>1, <2>3
    <3>2. Same(R, r[i - 1])
      BY <2>1, <3>1
    <3>3. r[i] = MigrateStep(r[i - 1])
      BY <1>3, <2>3, <3>1
    <3>4. Same(r[i - 1], r[i])
      BY <3>2, <3>3, StepSame DEF Same
    <3> QED
      BY <3>2, <3>4, <2>1, SameTwice
  <2> QED
    BY <2>2, <2>3
<1>5. Same(R, r[k])
  BY <1>4
<1>6. Good(r[k], tags)
  BY <1>5 DEF Same
<1> QED
  BY <1>1, <1>5, <1>6, FinishSame, SameTwice

(***************************************************************************)
(* Entering and leaving the registry                                       *)
(***************************************************************************)
LEMMA InBucketIs ==
    ASSUME NEW T \in Tables, Housed(T, tags), NEW s \in TagSets
    PROVE  InBucket(T, s) = {n \in Allocated : n \in InTable(T) /\ tags[n] = s}
<1>1. ASSUME NEW n \in InBucket(T, s)
      PROVE  n \in Allocated /\ n \in InTable(T) /\ tags[n] = s
  <2>1. /\ n \in Allocated /\ T # NoTable /\ tags[n] = s
        /\ n \in Range(T[(Hash[s] % Len(T)) + 1])
    BY <1>1 DEF InBucket
  <2>2. (Hash[s] % Len(T)) + 1 \in DOMAIN T
    BY <2>1, Shape, Remainder, HashNat
  <2> QED
    BY <2>1, <2>2, Member
<1>2. ASSUME NEW n \in Allocated, n \in InTable(T), tags[n] = s
      PROVE  n \in InBucket(T, s)
  <2>1. PICK b \in DOMAIN T : n \in Range(T[b])
    BY <1>2, Member
  <2>2. b = (Hash[s] % Len(T)) + 1
    BY <2>1, <1>2, HousedAt
  <2>3. T # NoTable
    BY <2>1, EmptyTable
  <2> QED
    BY <1>2, <2>1, <2>2, <2>3 DEF InBucket
<1> QED
  BY <1>1, <1>2 DEF InBucket

(* Every set of the registry that a lookup of its tags looks for is found. *)
LEMMA Found ==
    ASSUME NEW R, Good(R, tags), NEW s \in TagSets
    PROVE  Lookup(R, s) # {} \/ \A n \in In(R) : tags[n] # s
<1>1. /\ R.primary \in Tables /\ R.old \in Tables
      /\ Housed(R.primary, tags) /\ Housed(R.old, tags)
      /\ SetsOK(R, tags) /\ In(R) \subseteq Nodes
  BY GoodParts
<1> SUFFICES ASSUME NEW n \in In(R), tags[n] = s
             PROVE  Lookup(R, s) # {}
  OBVIOUS
<1>2. n \in Allocated
  BY <1>1, LargeSets DEF Allocated
<1>3. n \in InBucket(R.primary, s) \/ n \in InBucket(R.old, s)
  BY <1>1, <1>2, InBucketIs DEF In
<1> QED
  BY <1>3 DEF Lookup

LEMMA FoundIs ==
    ASSUME NEW R, Good(R, tags), NEW s \in TagSets, NEW n \in Lookup(R, s)
    PROVE  n \in In(R) /\ tags[n] = s
<1>1. /\ R.primary \in Tables /\ R.old \in Tables
      /\ Housed(R.primary, tags) /\ Housed(R.old, tags)
  BY GoodParts
<1>2. n \in InBucket(R.primary, s) \/ n \in InBucket(R.old, s)
  BY DEF Lookup
<1> QED
  BY <1>1, <1>2, InBucketIs DEF In

(* What the removal of the sets X leaves as it was.                        *)
Less(R, Q, X) ==
    /\ Good(Q, tags)
    /\ In(Q) = In(R) \ X
    /\ Q.generation = R.generation /\ Q.cursor = R.cursor
    /\ Len(Q.primary) = Len(R.primary) /\ Len(Q.old) = Len(R.old)

LEMMA Unlinked ==
    ASSUME NEW R, Good(R, tags), NEW n \in In(R), R.sets # 0
    PROVE  Less(R, Unlink(R, n), {n}) /\ Unlink(R, n).sets = R.sets - 1
<1>0. /\ R \in Registries /\ R.old \in Tables /\ R.cursor \in Nat
      /\ R.primary \in Tables /\ Housed(R.primary, tags)
      /\ Housed(R.old, tags) /\ R.sets - 1 \in Nat
      /\ CursorOK(R) /\ SetsOK(R, tags) /\ In(R) \subseteq Nodes
      /\ Len(R.old) \in Nat /\ DOMAIN R.old = 1 .. Len(R.old)
  BY GoodParts, Shape
<1>1. n \in Allocated /\ tags[n] \in TagSets
  BY <1>0, LargeSets DEF Allocated, SetsOK
<1>2. n \in InBucket(R.primary, tags[n]) <=> n \in InTable(R.primary)
  BY <1>0, <1>1, InBucketIs
<1> DEFINE Q == Unlink(R, n)
<1>3. CASE n \in InTable(R.primary)
  <2> DEFINE P == Without(R.primary, n)
  <2>1. /\ P \in Tables /\ Len(P) = Len(R.primary)
        /\ Housed(P, tags) /\ InTable(P) = InTable(R.primary) \ {n}
    BY <1>0, <1>3, WithoutIt
  <2>2. Q = [R EXCEPT !.primary = P, !.sets = @ - 1]
    BY <1>2, <1>3 DEF Unlink
  <2> HIDE DEF P
  <2>3. /\ Q \in Registries
        /\ Q.primary = P /\ Q.old = R.old /\ Q.cursor = R.cursor
        /\ Q.sets = R.sets - 1 /\ Q.generation = R.generation
    BY <1>0, <2>1, <2>2 DEF Registries
  <2> HIDE DEF Q
  <2>4. In(Q) = In(R) \ {n}
    BY <1>0, <1>3, <2>1, <2>3 DEF In, SetsOK
  <2>5. SetsOK(Q, tags)
    BY <1>0, <2>1, <2>3, <2>4 DEF SetsOK
  <2>6. Q.old # NoTable => Q.primary # NoTable
    BY <1>0, <2>1, <2>3, Shape DEF CursorOK
  <2>7. CursorOK(Q)
    BY <1>0, <2>3, <2>6 DEF CursorOK
  <2> QED
    BY <1>0, <2>1, <2>3, <2>4, <2>5, <2>7 DEF Less, Good, Q
<1>4. CASE n \notin InTable(R.primary)
  <2> DEFINE P == Without(R.old, n)
  <2>0. n \in InTable(R.old)
    BY <1>4 DEF In
  <2>1. /\ P \in Tables /\ Len(P) = Len(R.old) /\ DOMAIN P = DOMAIN R.old
        /\ \A c \in DOMAIN R.old : P[c] = R.old[c] \/ R.old[c] # <<>>
        /\ Housed(P, tags) /\ InTable(P) = InTable(R.old) \ {n}
    BY <1>0, <2>0, WithoutIt
  <2>2. Q = [R EXCEPT !.old = P, !.sets = @ - 1]
    BY <1>2, <1>4 DEF Unlink
  <2> HIDE DEF P
  <2>3. /\ Q \in Registries
        /\ Q.primary = R.primary /\ Q.old = P /\ Q.cursor = R.cursor
        /\ Q.sets = R.sets - 1 /\ Q.generation = R.generation
    BY <1>0, <2>1, <2>2 DEF Registries
  <2> HIDE DEF Q
  <2>4. In(Q) = In(R) \ {n}
    BY <1>4, <2>1, <2>3 DEF In
  <2>5. SetsOK(Q, tags)
    BY <1>0, <2>1, <2>3, <2>4 DEF SetsOK
  <2>6. Q.old # NoTable => Q.primary # NoTable
    BY <1>0, <2>0, <2>3, EmptyTable DEF CursorOK
  <2>7. \A b \in DOMAIN Q.old : b < Q.cursor => Q.old[b] = <<>>
    BY <1>0, <2>1, <2>3 DEF CursorOK
  <2>8. CursorOK(Q)
    BY <1>0, <2>1, <2>3, <2>6, <2>7 DEF CursorOK
  <2> QED
    BY <1>0, <2>1, <2>3, <2>4, <2>5, <2>8 DEF Less, Good, Q
<1> QED
  BY <1>3, <1>4

LEMMA LessTwice ==
    ASSUME NEW R, NEW Q, NEW P, NEW X, NEW Y, NEW Z,
           Less(R, Q, X), Less(Q, P, Y), Z = X \cup Y
    PROVE  Less(R, P, Z)
BY DEF Less

Unlinks(R, q, r, k) ==
    r = [i \in 0 .. k |-> IF i = 0 THEN R ELSE Unlink(r[i - 1], q[i])]

LEMMA UnlinksExist ==
    ASSUME NEW R, NEW q, NEW k \in Nat
    PROVE  \E r : Unlinks(R, q, r, k)
<1> DEFINE Bad == {n \in Nat : ~ \E r : Unlinks(R, q, r, n)}
<1> SUFFICES ASSUME Bad # {} PROVE FALSE
  OBVIOUS
<1>1. PICK n \in Bad : \A m \in Bad : n <= m
  BY Smallest
<1>2. n \in Nat /\ (n # 0 => n - 1 \in Nat \ Bad)
  BY <1>1
<1>3. CASE n = 0
  <2>1. Unlinks(R, q, [i \in 0 .. 0 |-> R], 0)
    BY DEF Unlinks
  <2> QED
    BY <2>1, <1>1, <1>3
<1>4. CASE n # 0
  <2>1. PICK h : Unlinks(R, q, h, n - 1)
    BY <1>2, <1>4
  <2> DEFINE r == [i \in 0 .. n |->
                       IF i = n THEN Unlink(h[n - 1], q[n]) ELSE h[i]]
  <2>2. \A i \in 0 .. n - 1 :
            h[i] = IF i = 0 THEN R ELSE Unlink(h[i - 1], q[i])
    BY <2>1 DEF Unlinks
  <2>3. ASSUME NEW i \in 0 .. n
        PROVE  r[i] = IF i = 0 THEN R ELSE Unlink(r[i - 1], q[i])
    <3>1. CASE i = n
      <4>1. n - 1 \in 0 .. n /\ n - 1 # n
        BY <1>2, <1>4
      <4>2. r[n - 1] = h[n - 1] /\ r[n] = Unlink(h[n - 1], q[n])
        BY <4>1, <1>2
      <4> QED
        BY <3>1, <4>2, <1>4
    <3>2. CASE i # n
      <4>1. i \in 0 .. n - 1 /\ (i # 0 => i - 1 \in 0 .. n /\ i - 1 # n)
        BY <3>2, <1>2
      <4>2. r[i] = h[i] /\ (i # 0 => r[i - 1] = h[i - 1])
        BY <4>1, <3>2
      <4> QED
        BY <4>1, <4>2, <2>2
    <3> QED
      BY <3>1, <3>2
  <2>4. r = [i \in 0 .. n |-> r[i]]
    OBVIOUS
  <2> HIDE DEF r
  <2>5. Unlinks(R, q, r, n)
    BY <2>3, <2>4 DEF Unlinks
  <2> QED
    BY <2>5, <1>1
<1> QED
  BY <1>3, <1>4

(* All the sets of a sequence, each once.                                  *)
LEMMA UnlinkedAll ==
    ASSUME NEW R, Good(R, tags), IsFiniteSet(In(R)),
           R.sets = Cardinality(In(R)),
           NEW q \in Seq(In(R)), IsInjective(q)
    PROVE  /\ Less(R, UnlinkAll(R, q), Range(q))
           /\ UnlinkAll(R, q).sets = Cardinality(In(UnlinkAll(R, q)))
<1> DEFINE r == CHOOSE f : Unlinks(R, q, f, Len(q))
           k == Len(q)
           First(i) == {q[j] : j \in 1 .. i}
           OK(i) == /\ Less(R, r[i], First(i))
                    /\ r[i].sets = Cardinality(In(r[i]))
<1>0. k \in Nat /\ DOMAIN q = 1 .. k /\ \A i \in 1 .. k : q[i] \in In(R)
  BY ElementOfSeq, LenProperties
<1>1. UnlinkAll(R, q) = r[k]
  BY DEF UnlinkAll, Unlinks
<1>2. Unlinks(R, q, r, Len(q))
  BY <1>0, UnlinksExist
<1> HIDE DEF r
<1>3. \A i \in 0 .. k :
          r[i] = IF i = 0 THEN R ELSE Unlink(r[i - 1], q[i])
  BY <1>2 DEF Unlinks
<1>4. OK(0)
  <2>1. r[0] = R /\ First(0) = {}
    BY <1>0, <1>3
  <2> QED
    BY <2>1 DEF Less
<1>5. ASSUME NEW i \in 1 .. k, OK(i - 1)
      PROVE  OK(i)
  <2>1. i - 1 \in 0 .. k /\ i \in 0 .. k /\ i # 0
    BY <1>0
  <2>2. r[i] = Unlink(r[i - 1], q[i])
    BY <1>3, <2>1
  <2>3. q[i] \in In(r[i - 1])
    <3>1. \A j \in 1 .. i - 1 : j \in 1 .. k /\ j # i
      BY <1>0
    <3>2. q[i] \notin First(i - 1)
      BY <3>1, <1>0 DEF IsInjective
    <3> QED
      BY <3>2, <1>0, <1>5 DEF Less
  <2>4. /\ IsFiniteSet(In(r[i - 1]))
        /\ Cardinality(In(r[i - 1]) \ {q[i]})
               = Cardinality(In(r[i - 1])) - 1
        /\ Cardinality(In(r[i - 1])) # 0
    <3>1. IsFiniteSet(In(r[i - 1]))
      BY <1>5, FS_Subset DEF Less
    <3> QED
      BY <3>1, <2>3, FS_RemoveElement, FS_EmptySet
  <2>5. Good(r[i - 1], tags) /\ r[i - 1].sets # 0
    BY <2>4, <1>5 DEF Less
  <2>6. /\ Less(r[i - 1], r[i], {q[i]})
        /\ r[i].sets = r[i - 1].sets - 1
    BY <2>2, <2>3, <2>5, Unlinked
  <2>7. First(i) = First(i - 1) \cup {q[i]}
    <3>1. \A j \in 1 .. i : j \in 1 .. i - 1 \/ j = i
      BY <1>0
    <3>2. \A j \in 1 .. i - 1 : j \in 1 .. i
      BY <1>0
    <3> QED
      BY <3>1, <3>2, <1>0
  <2> HIDE DEF First
  <2>8. Less(R, r[i], First(i))
    BY <2>6, <2>7, <1>5, LessTwice
  <2> QED
    BY <2>4, <2>6, <2>8, <1>5 DEF Less
<1>6. OK(k)
  <2> HIDE DEF OK
  <2> DEFINE Bad == {i \in 0 .. k : ~OK(i)}
  <2> SUFFICES ASSUME Bad # {} PROVE FALSE
    BY <1>0
  <2>1. PICK i \in Bad : \A j \in Bad : i <= j
    <3>1. Bad \in SUBSET Nat
      OBVIOUS
    <3> HIDE DEF Bad
    <3> QED
      BY <3>1, Smallest
  <2>2. i \in 0 .. k /\ ~OK(i) /\ \A j \in 0 .. k : ~OK(j) => i <= j
    BY <2>1
  <2> HIDE DEF Bad
  <2>3. i # 0
    BY <2>2, <1>4
  <2>4. i \in 1 .. k /\ i - 1 \in 0 .. k /\ ~(i <= i - 1)
    BY <2>2, <2>3, <1>0
  <2> QED
    BY <2>2, <2>4, <1>5
<1>7. First(k) = Range(q)
  BY <1>0 DEF Range
<1> QED
  BY <1>1, <1>6, <1>7

(* A table is published, or a set.                                         *)
LEMMA TablePublished ==
    ASSUME NEW R, Good(R, tags), ~Migrating(R), NEW size \in Nat \ {0}
    PROVE  LET Q == PublishTable(R, size)
           IN  /\ Good(Q, tags)
               /\ In(Q) = In(R) /\ Q.sets = R.sets
               /\ Q.primary # NoTable /\ Q.old = R.primary
               /\ Q.cursor = 1
<1> DEFINE Q == PublishTable(R, size)
           P == NewTable(size)
<1>0. /\ R \in Registries /\ R.primary \in Tables /\ R.generation \in Nat
      /\ Housed(R.primary, tags) /\ SetsOK(R, tags)
      /\ R.old = NoTable
      /\ Len(R.primary) \in Nat /\ DOMAIN R.primary = 1 .. Len(R.primary)
  BY GoodParts, Shape DEF Migrating
<1>1. /\ P \in Tables /\ DOMAIN P = 1 .. size /\ Len(P) = size
      /\ \A b \in DOMAIN P : P[b] = <<>>
  <2>1. <<>> \in Seq(Nodes)
    OBVIOUS
  <2>2. P = [b \in 1 .. size |-> <<>>]
    BY DEF NewTable
  <2>3. P \in [1 .. size -> Seq(Nodes)]
    BY <2>1, <2>2
  <2> QED
    BY <2>2, <2>3 DEF Tables
<1> HIDE DEF P
<1>2. P # NoTable /\ InTable(P) = {} /\ Housed(P, tags)
  <2>1. \A b \in DOMAIN P : Range(P[b]) = {} /\ IsInjective(P[b])
    BY <1>1 DEF Range, IsInjective
  <2>2. InTable(P) = {}
    BY <2>1 DEF InTable
  <2>3. Housed(P, tags)
    BY <2>1, <1>1 DEF Housed
  <2> QED
    BY <2>2, <2>3, <1>1, Shape
<1>3. Q = [R EXCEPT !.old = R.primary, !.primary = P, !.cursor = 1,
                    !.generation = @ + 1]
  BY DEF PublishTable, P
<1>4. Q = [primary |-> P, old |-> R.primary, cursor |-> 1,
           sets |-> R.sets, generation |-> R.generation + 1]
  BY <1>0, <1>3 DEF Registries
<1>5. R.sets \in Nat /\ R.generation + 1 \in Nat
  BY <1>0 DEF Registries
<1>6. /\ Q \in Registries
      /\ Q.primary = P /\ Q.old = R.primary /\ Q.cursor = 1
      /\ Q.sets = R.sets
  BY <1>0, <1>1, <1>4, <1>5 DEF Registries
<1> HIDE DEF Q
<1>7. In(Q) = In(R)
  BY <1>0, <1>2, <1>6, EmptyTable DEF In
<1>8. SetsOK(Q, tags)
  BY <1>0, <1>2, <1>6, <1>7 DEF SetsOK
<1>9. CursorOK(Q)
  BY <1>0, <1>2, <1>6 DEF CursorOK
<1>10. Good(Q, tags)
  BY <1>0, <1>2, <1>6, <1>8, <1>9 DEF Good
<1> QED
  BY <1>2, <1>6, <1>7, <1>10 DEF Q

LEMMA SetPublished ==
    ASSUME NEW R, Good(R, tags), R.primary # NoTable,
           NEW n \in Nodes, n \notin In(R), tags[n] \in TagSets,
           \A m \in In(R) : tags[m] # tags[n]
    PROVE  LET Q == Publish(R, n)
           IN  /\ Good(Q, tags)
               /\ In(Q) = In(R) \cup {n} /\ Q.sets = R.sets + 1
               /\ Q.generation = R.generation
               /\ Q.primary # NoTable /\ Q.old = R.old
               /\ Q.cursor = R.cursor
<1> DEFINE Q == Publish(R, n)
           P == Push(R.primary, n)
<1>0. /\ R \in Registries /\ R.primary \in Tables /\ R.sets \in Nat
      /\ Housed(R.primary, tags) /\ Housed(R.old, tags)
      /\ SetsOK(R, tags) /\ CursorOK(R)
      /\ n \notin InTable(R.primary) /\ n \notin InTable(R.old)
  BY GoodParts DEF In
<1>1. /\ P \in Tables /\ Len(P) = Len(R.primary)
      /\ Housed(P, tags)
      /\ InTable(P) = InTable(R.primary) \cup {n}
  BY <1>0, Pushed
<1>2. Q = [R EXCEPT !.primary = P, !.sets = @ + 1]
  BY DEF Publish
<1> HIDE DEF P
<1>3. Q = [primary |-> P, old |-> R.old, cursor |-> R.cursor,
           sets |-> R.sets + 1, generation |-> R.generation]
  BY <1>0, <1>2 DEF Registries
<1>4. /\ Q \in Registries
      /\ Q.primary = P /\ Q.old = R.old /\ Q.cursor = R.cursor
      /\ Q.sets = R.sets + 1 /\ Q.generation = R.generation
  BY <1>0, <1>1, <1>3 DEF Registries
<1> HIDE DEF Q
<1>5. In(Q) = In(R) \cup {n}
  BY <1>1, <1>4 DEF In
<1>6. SetsOK(Q, tags)
  BY <1>0, <1>1, <1>4, <1>5 DEF SetsOK
<1>7. Q.primary # NoTable
  BY <1>0, <1>1, <1>4, Shape
<1>8. CursorOK(Q)
  BY <1>0, <1>4, <1>7 DEF CursorOK
<1>9. Good(Q, tags)
  BY <1>0, <1>1, <1>4, <1>6, <1>8 DEF Good
<1> QED
  BY <1>4, <1>5, <1>7, <1>9 DEF Q

(***************************************************************************)
(* Counting                                                                *)
(***************************************************************************)
NumTables(R) == Cardinality({T \in {"primary", "old"} : R[T] # NoTable})

LEMMA TablesCounted ==
    ASSUME NEW R \in Registries
    PROVE  NumTables(R) = (IF R.primary # NoTable THEN 1 ELSE 0)
                              + (IF R.old # NoTable THEN 1 ELSE 0)
<1> DEFINE S == {T \in {"primary", "old"} : R[T] # NoTable}
<1>1. CASE R.primary # NoTable /\ R.old # NoTable
  <2>1. S = {"primary"} \cup {"old"}
    BY <1>1
  <2>2. "old" \notin {"primary"}
    OBVIOUS
  <2>3. IsFiniteSet({"primary"}) /\ Cardinality({"primary"}) = 1
    BY FS_Singleton
  <2>4. Cardinality({"primary"} \cup {"old"}) = 2
    BY <2>2, <2>3, FS_AddElement
  <2> QED
    BY <1>1, <2>1, <2>4 DEF NumTables
<1>2. CASE R.primary # NoTable /\ R.old = NoTable
  <2>1. S = {"primary"}
    BY <1>2
  <2> QED
    BY <1>2, <2>1, FS_Singleton DEF NumTables
<1>3. CASE R.primary = NoTable /\ R.old # NoTable
  <2>1. S = {"old"}
    BY <1>3
  <2> QED
    BY <1>3, <2>1, FS_Singleton DEF NumTables
<1>4. CASE R.primary = NoTable /\ R.old = NoTable
  <2>1. S = {}
    BY <1>4
  <2> QED
    BY <1>4, <2>1, FS_EmptySet DEF NumTables
<1> QED
  BY <1>1, <1>2, <1>3, <1>4

(* The tables in the threads' hands, each with its holder.                 *)
Held(f) == UNION {{t} \X (1 .. f[t].tables) : t \in Threads}

LEMMA HeldIs ==
    ASSUME NEW f \in [Threads -> ThreadStates]
    PROVE  /\ Held(f) = {t \in Threads : f[t].tables = 1} \X {1}
           /\ IsFiniteSet(Held(f))
<1>1. \A t \in Threads : f[t].tables \in {0, 1}
  BY DEF ThreadStates
<1> DEFINE A == {t \in Threads : f[t].tables = 1}
<1>2. 1 .. 1 = {1} /\ 1 .. 0 = {}
  OBVIOUS
<1>3. Held(f) = A \X {1}
  <2>1. ASSUME NEW x \in Held(f) PROVE x \in A \X {1}
    <3>1. PICK t \in Threads : x \in {t} \X (1 .. f[t].tables)
      BY DEF Held
    <3>2. f[t].tables = 1
      BY <3>1, <1>1, <1>2
    <3> QED
      BY <3>1, <3>2, <1>2
  <2>2. ASSUME NEW x \in A \X {1} PROVE x \in Held(f)
    <3>1. PICK t \in A : x = <<t, 1>>
      OBVIOUS
    <3>2. x \in {t} \X (1 .. f[t].tables)
      BY <3>1, <1>2
    <3> QED
      BY <3>2 DEF Held
  <2> QED
    BY <2>1, <2>2
<1>4. IsFiniteSet(A)
  BY Finite, FS_Subset
<1>5. IsFiniteSet(A \X {1})
  <2> HIDE DEF A
  <2> QED
    BY <1>4, FS_Singleton, FS_Product
<1> QED
  BY <1>3, <1>5

LEMMA HandsChange ==
    ASSUME NEW f \in [Threads -> ThreadStates], NEW t \in Threads,
           NEW w \in ThreadStates
    PROVE  Cardinality(Held([f EXCEPT ![t] = w]))
               = Cardinality(Held(f)) + w.tables - f[t].tables
<1> DEFINE h == [f EXCEPT ![t] = w]
           c == Cardinality(Held(f))
<1>1. h \in [Threads -> ThreadStates]
  OBVIOUS
<1>2. h[t] = w /\ \A u \in Threads : u # t => h[u] = f[u]
  OBVIOUS
<1> HIDE DEF h
<1>3. /\ Held(f) = {u \in Threads : f[u].tables = 1} \X {1}
      /\ Held(h) = {u \in Threads : h[u].tables = 1} \X {1}
      /\ IsFiniteSet(Held(f)) /\ c \in Nat
  BY <1>1, HeldIs, FS_CardinalityType
<1>4. w.tables \in {0, 1} /\ f[t].tables \in {0, 1}
  BY DEF ThreadStates
<1> SUFFICES Cardinality(Held(h)) = c + w.tables - f[t].tables
  BY DEF h
<1>5. CASE w.tables = f[t].tables
  <2>1. Held(h) = Held(f)
    BY <1>2, <1>3, <1>5
  <2> QED
    BY <2>1, <1>3, <1>4, <1>5
<1>6. CASE w.tables = 1 /\ f[t].tables = 0
  <2>1. Held(h) = Held(f) \cup {<<t, 1>>} /\ <<t, 1>> \notin Held(f)
    BY <1>2, <1>3, <1>6
  <2>2. Cardinality(Held(f) \cup {<<t, 1>>}) = c + 1
    BY <2>1, <1>3, FS_AddElement
  <2> QED
    BY <2>1, <2>2, <1>3, <1>6
<1>7. CASE w.tables = 0 /\ f[t].tables = 1
  <2>1. Held(h) = Held(f) \ {<<t, 1>>} /\ <<t, 1>> \in Held(f)
    BY <1>2, <1>3, <1>7
  <2>2. Cardinality(Held(f) \ {<<t, 1>>}) = c - 1
    BY <2>1, <1>3, FS_RemoveElement
  <2> QED
    BY <2>1, <2>2, <1>3, <1>7
<1> QED
  BY <1>4, <1>5, <1>6, <1>7

LEMMA HandsIs == InHands = Cardinality(Held(thr))
BY DEF InHands, Held

LEMMA HandsIsNext == InHands' = Cardinality(Held(thr'))
BY DEF InHands, Held

(* The threads that are idle hold nothing.                                 *)
LEMMA NoHands ==
    ASSUME NEW f \in [Threads -> ThreadStates],
           \A t \in Threads : f[t].tables = 0
    PROVE  Cardinality(Held(f)) = 0
<1>1. Held(f) = {}
  BY HeldIs
<1> QED
  BY <1>1, FS_EmptySet

(***************************************************************************)
(* One step of the invariant                                               *)
(***************************************************************************)
LEMMA GoodUnder ==
    ASSUME NEW R, NEW g, NEW h, Good(R, g), \A n \in In(R) : g[n] = h[n]
    PROVE  Good(R, h)
<1>1. /\ R \in Registries /\ R.primary \in Tables /\ R.old \in Tables
      /\ Housed(R.primary, g) /\ Housed(R.old, g)
      /\ CursorOK(R) /\ SetsOK(R, g)
  BY GoodParts
<1>2. ASSUME NEW T \in Tables, Housed(T, g), InTable(T) \subseteq In(R)
      PROVE  Housed(T, h)
  <2>1. ASSUME NEW b \in DOMAIN T, NEW i \in DOMAIN T[b]
        PROVE  (Hash[h[T[b][i]]] % Len(T)) + 1 = b
    <3>1. T[b][i] \in Range(T[b])
      BY DEF Range
    <3>2. T[b][i] \in In(R)
      BY <3>1, <1>2, Member
    <3> QED
      BY <3>2, <1>2 DEF Housed
  <2> QED
    BY <2>1, <1>2 DEF Housed
<1>3. InTable(R.primary) \subseteq In(R) /\ InTable(R.old) \subseteq In(R)
  BY DEF In
<1>4. Housed(R.primary, h) /\ Housed(R.old, h)
  BY <1>1, <1>2, <1>3
<1>5. SetsOK(R, h)
  BY <1>1 DEF SetsOK
<1> QED
  BY <1>1, <1>4, <1>5 DEF Good

LEMMA Current ==
    ASSUME IInv
    PROVE  /\ Good(reg, tags) /\ In(reg) = Published
           /\ reg.sets = Cardinality(Published)
           /\ IsFiniteSet(Published) /\ Published \subseteq Nodes
           /\ Published = {n \in Nodes : refs[n] > 0}
           /\ Allocated = Published \cup Candidates
           /\ Published \cap Candidates = {}
           /\ Migrating(reg) => reg.cursor <= Len(reg.old)
           /\ tables = NumTables(reg) + Cardinality(Held(thr))
           /\ tables \in Nat
<1>1. In(reg) = Published
  BY DEF In, Published
<1>2. Good(reg, tags) /\ (Migrating(reg) => reg.cursor <= Len(reg.old))
  BY DEF IInv, RegInv
<1>3. Published \subseteq Nodes
  BY <1>1, <1>2, GoodParts
<1>4. IsFiniteSet(Published)
  BY <1>3, Finite, FS_Subset
<1>5. tables = NumTables(reg) + Cardinality(Held(thr)) /\ tables \in Nat
  BY HandsIs DEF IInv, TablesInv, TypeInv, NumTables
<1>6. /\ Published = {n \in Nodes : refs[n] > 0}
      /\ reg.sets = Cardinality(Published)
  BY DEF IInv, RefsExact
<1> QED
  BY <1>1, <1>2, <1>3, <1>4, <1>5, <1>6 DEF IInv, CandInv

(* The registry is another one with the same sets.                         *)
Renewed(R) ==
    /\ Good(R, tags)
    /\ Migrating(R) => R.cursor <= Len(R.old)
    /\ In(R) = Published
    /\ R.sets = reg.sets

LEMMA Holders ==
    ASSUME NEW n, NEW lost, lost \subseteq Objects
    PROVE  /\ IsFiniteSet(HoldersOf(n, lost))
           /\ Cardinality(HoldersOf(n, lost)) \in Nat
           /\ Cardinality(HoldersOf(n, lost)) = 0 <=> HoldersOf(n, lost) = {}
<1>1. HoldersOf(n, lost) \subseteq Objects
  BY DEF HoldersOf
<1> QED
  BY <1>1, Finite, FS_Subset, FS_CardinalityType, FS_EmptySet

(* The set of an object is in the registry.                                *)
LEMMA HolderPublished ==
    ASSUME IInv, NEW o \in Tracked
    PROVE  set[o] \in Published /\ set[o] \in Nodes /\ o \in Objects
<1>1. set[o] \in Nodes /\ o \in Objects
  BY DEF IInv, TypeInv, Tracked
<1>2. o \in HoldersOf(set[o], Tracked) /\ Tracked \subseteq Objects
  BY DEF HoldersOf, Tracked
<1>3. /\ Cardinality(HoldersOf(set[o], Tracked)) \in Nat
      /\ Cardinality(HoldersOf(set[o], Tracked)) # 0
  BY <1>2, Holders
<1>4. refs[set[o]] = Cardinality(HoldersOf(set[o], Tracked))
  BY <1>1 DEF IInv, RefsExact
<1>5. refs[set[o]] > 0
  BY <1>3, <1>4
<1> QED
  BY <1>1, <1>5, Current

(* What thread t does, ending in state w, leaves the sets of the registry  *)
(* and the other threads' candidates alone; its own is accounted for.      *)
Others(t) == {thr[u].cand : u \in Threads \ {t}}
Keeps(t, w) ==
    /\ tags' \in [Nodes -> TagSets \cup {NoTags}]
    /\ \A n \in Published : tags'[n] = tags[n]
    /\ \A n \in Others(t) \ {NoNode} : tags'[n] = tags[n]
    /\ Allocated' = Published \cup ((Others(t) \cup {w.cand}) \ {NoNode})
    /\ w.cand \notin Published
    /\ w.cand \in Others(t) => w.cand = NoNode
    /\ w.cand # NoNode /\ w.pc \in Attaching => tags'[w.cand] = w.tags

(* The object that it attaches is its own.                                 *)
Own(t, w) ==
    w.obj \in Objects => /\ set[w.obj] = NoNode
                         /\ \A u \in Threads \ {t} : thr[u].obj # w.obj

(* The rest of the program's state has its type.                           *)
OthersTyped ==
    worker' \in {"asleep", "busy"} /\ wakeup' \in BOOLEAN
        /\ retired' \in BOOLEAN

(* No table is lost, or freed twice.                                       *)
TablesKept(R, d) ==
    tables' = (tables + NumTables(R) - NumTables(reg)) + d

LEMMA CountTables ==
    ASSUME IInv, NEW R, Good(R, tags), reg' = R,
           NEW t \in Threads, NEW w \in ThreadStates,
           thr' = [thr EXCEPT ![t] = w],
           TablesKept(R, w.tables - thr[t].tables)
    PROVE  TablesInv' /\ tables' \in Nat
<1>1. thr \in [Threads -> ThreadStates]
  BY DEF IInv, TypeInv
<1>2. Cardinality(Held(thr'))
          = Cardinality(Held(thr)) + w.tables - thr[t].tables
  BY <1>1, HandsChange
<1>3. tables = NumTables(reg) + Cardinality(Held(thr))
  BY Current
<1>4. R \in Registries /\ reg \in Registries
  BY Current, GoodParts
<1>5. NumTables(R) \in Nat /\ NumTables(reg) \in Nat
  BY <1>4, TablesCounted
<1>6. w.tables \in {0, 1} /\ thr[t].tables \in {0, 1}
  BY <1>1 DEF ThreadStates
<1>7. thr' \in [Threads -> ThreadStates]
  BY <1>1
<1>8. Cardinality(Held(thr)) \in Nat /\ Cardinality(Held(thr')) \in Nat
  BY <1>1, <1>7, HeldIs, FS_CardinalityType
<1>9. tables' = NumTables(R) + Cardinality(Held(thr'))
  BY <1>2, <1>3, <1>5, <1>6, <1>8 DEF TablesKept
<1>10. tables' \in Nat
  BY <1>5, <1>8, <1>9
<1> QED
  BY <1>9, <1>10, HandsIsNext DEF TablesInv, NumTables

LEMMA ThreadStep ==
    ASSUME IInv, NEW t \in Threads, NEW w \in ThreadStates,
           thr' = [thr EXCEPT ![t] = w],
           NEW R, reg' = R, Renewed(R),
           reg.primary # NoTable => R.primary # NoTable,
           UNCHANGED <<refs, set, asked>>,
           OthersTyped,
           Keeps(t, w), Attacher(w), Own(t, w),
           w.failed => R.primary # NoTable,
           TablesKept(R, w.tables - thr[t].tables),
           MigrationHasWorker'
    PROVE  IInv'
<1>1. /\ refs' = refs /\ set' = set /\ asked' = asked
      /\ Good(R, tags) /\ In(R) = Published /\ R.sets = reg.sets
      /\ Migrating(R) => R.cursor <= Len(R.old)
  BY DEF Renewed
<1>2. /\ thr \in [Threads -> ThreadStates]
      /\ thr' \in [Threads -> ThreadStates]
      /\ thr'[t] = w /\ \A u \in Threads \ {t} : thr'[u] = thr[u]
  BY DEF IInv, TypeInv
<1>3. Published' = Published /\ Tracked' = Tracked
  BY <1>1 DEF Published, In, Tracked
<1>4. \A n, lost : HoldersOf(n, lost)' = HoldersOf(n, lost)
  BY <1>1 DEF HoldersOf
<1>5. Good(R, tags')
  BY <1>1, GoodUnder DEF Keeps
<1>6. TablesInv' /\ tables' \in Nat
  BY <1>1, CountTables
<1>7. TypeInv'
  <2>1. R \in Registries
    BY <1>1, GoodParts
  <2> QED
    BY <2>1, <1>1, <1>2, <1>6 DEF IInv, TypeInv, Keeps, OthersTyped
<1>8. RegInv'
  BY <1>1, <1>5 DEF RegInv, Migrating
<1>9. SetInv'
  <2>1. \A o \in Tracked : set[o] \in Published
    BY HolderPublished
  <2> QED
    BY <2>1, <1>1, <1>3 DEF IInv, SetInv, Keeps
<1>10. RefsExact'
  BY <1>1, <1>3, <1>4 DEF IInv, RefsExact
<1>11. AttachInv'
  <2>1. \A u \in Threads : Attacher(thr'[u])
    BY <1>2 DEF IInv, AttachInv
  <2>2. \A u \in Threads : thr'[u].obj \in Objects => set[thr'[u].obj] = NoNode
    BY <1>2 DEF IInv, AttachInv, Own
  <2>3. \A u, v \in Threads : thr'[u].obj = thr'[v].obj /\ u # v
                                => thr'[u].obj = NoNode
    <3> TAKE u, v \in Threads
    <3> HAVE thr'[u].obj = thr'[v].obj /\ u # v
    <3>1. thr'[u].obj \in Objects \cup {NoNode}
      BY <1>2 DEF ThreadStates
    <3> QED
      BY <3>1, <1>2 DEF IInv, AttachInv, Own
  <2>4. \A u \in Threads : thr'[u].failed => R.primary # NoTable
    BY <1>2 DEF IInv, AttachInv
  <2> QED
    BY <2>1, <2>2, <2>3, <2>4, <1>1 DEF AttachInv, Attacher
<1>12. CandInv'
  <2>1. {thr'[u].cand : u \in Threads} = Others(t) \cup {w.cand}
    BY <1>2 DEF Others
  <2>2. Candidates' = (Others(t) \cup {w.cand}) \ {NoNode}
    BY <2>1 DEF Candidates
  <2>3. Others(t) \ {NoNode} \subseteq Candidates
    BY DEF Others, Candidates
  <2>4. Published' \cap Candidates' = {}
    BY <2>2, <2>3, <1>3, Current DEF Keeps
  <2>5. \A u, v \in Threads : thr'[u].cand = thr'[v].cand /\ u # v
                                => thr'[u].cand = NoNode
    BY <1>2 DEF IInv, CandInv, Keeps, Others
  <2>6. ASSUME NEW u \in Threads, thr'[u].cand # NoNode,
               thr'[u].pc \in Attaching
        PROVE  tags'[thr'[u].cand] = thr'[u].tags
    <3>1. CASE u = t
      BY <3>1, <2>6, <1>2 DEF Keeps
    <3>2. CASE u # t
      <4>1. thr[u].cand \in Others(t) \ {NoNode}
        BY <3>2, <2>6, <1>2 DEF Others
      <4> QED
        BY <4>1, <3>2, <2>6, <1>2 DEF Keeps, IInv, CandInv
    <3> QED
      BY <3>1, <3>2
  <2>7. Allocated' = Published' \cup Candidates'
    BY <2>2, <1>3 DEF Keeps
  <2> QED
    BY <2>4, <2>5, <2>6, <2>7 DEF CandInv
<1> QED
  BY <1>6, <1>7, <1>8, <1>9, <1>10, <1>11, <1>12 DEF IInv

(* No thread but the worker, or nobody's object, is involved.              *)
LEMMA RegistryStep ==
    ASSUME IInv, NEW R, reg' = R, Renewed(R),
           reg.primary # NoTable => R.primary # NoTable,
           UNCHANGED <<tags, refs, set, asked, thr>>,
           OthersTyped, TablesKept(R, 0),
           MigrationHasWorker'
    PROVE  IInv'
<1>1. /\ refs' = refs /\ set' = set /\ asked' = asked /\ thr' = thr
      /\ tags' = tags
      /\ Good(R, tags) /\ In(R) = Published /\ R.sets = reg.sets
      /\ Migrating(R) => R.cursor <= Len(R.old)
  BY DEF Renewed
<1>2. Published' = Published /\ Tracked' = Tracked
  BY <1>1 DEF Published, In, Tracked
<1>3. \A n, lost : HoldersOf(n, lost)' = HoldersOf(n, lost)
  BY <1>1 DEF HoldersOf
<1>4. TablesInv' /\ tables' \in Nat
  <2>1. thr \in [Threads -> ThreadStates]
    BY DEF IInv, TypeInv
  <2>2. tables = NumTables(reg) + Cardinality(Held(thr))
    BY Current
  <2>3. R \in Registries /\ reg \in Registries
    BY <1>1, Current, GoodParts
  <2>4. NumTables(R) \in Nat /\ NumTables(reg) \in Nat
    BY <2>3, TablesCounted
  <2>5. Cardinality(Held(thr)) \in Nat
    BY <2>1, HeldIs, FS_CardinalityType
  <2>6. tables' = NumTables(R) + Cardinality(Held(thr))
    BY <2>2, <2>4, <2>5 DEF TablesKept
  <2>7. InHands' = Cardinality(Held(thr))
    BY <1>1, HandsIsNext
  <2> QED
    BY <2>4, <2>5, <2>6, <2>7 DEF TablesInv, NumTables
<1>5. TypeInv'
  <2>1. R \in Registries
    BY <1>1, GoodParts
  <2> QED
    BY <2>1, <1>1, <1>4 DEF IInv, TypeInv, OthersTyped
<1>6. RegInv'
  BY <1>1 DEF RegInv, Migrating
<1>7. SetInv'
  BY <1>1, <1>2 DEF IInv, SetInv
<1>8. RefsExact'
  BY <1>1, <1>2, <1>3 DEF IInv, RefsExact
<1>9. AttachInv'
  BY <1>1 DEF IInv, AttachInv, Attacher
<1>10. CandInv'
  <2>1. Candidates' = Candidates /\ Allocated' = Allocated
    BY <1>1 DEF Candidates, Allocated
  <2> QED
    BY <1>1, <1>2, <2>1 DEF IInv, CandInv
<1> QED
  BY <1>4, <1>5, <1>6, <1>7, <1>8, <1>9, <1>10 DEF IInv

(* An object enters with the set n, which may be new.                      *)
Entering(R, n) ==
    /\ Good(R, tags)
    /\ Migrating(R) => R.cursor <= Len(R.old)
    /\ R.primary # NoTable
    /\ In(R) = Published \cup {n}
    /\ R.sets = Cardinality(In(R))

LEMMA EnterStep ==
    ASSUME IInv, NEW t \in Threads, NEW w \in ThreadStates,
           thr' = [thr EXCEPT ![t] = w],
           w.pc = "entered", w.obj = NoNode, ~w.failed,
           NEW o \in Objects, thr[t].obj = o,
           NEW n \in Nodes, tags[n] \in TagSets,
           NEW R, reg' = R, Entering(R, n),
           \/ n \in Published /\ w.cand = thr[t].cand
           \/ n = thr[t].cand /\ w.cand = NoNode,
           tags' = tags,
           set' = [set EXCEPT ![o] = n],
           asked' = [asked EXCEPT ![o] = tags[n]],
           refs' = [refs EXCEPT ![n] = @ + 1],
           OthersTyped,
           TablesKept(R, w.tables - thr[t].tables),
           MigrationHasWorker'
    PROVE  IInv'
<1>1. /\ Good(R, tags) /\ In(R) = Published \cup {n}
      /\ R.sets = Cardinality(In(R)) /\ R.primary # NoTable
      /\ Migrating(R) => R.cursor <= Len(R.old)
  BY DEF Entering
<1>2. /\ thr \in [Threads -> ThreadStates]
      /\ thr' \in [Threads -> ThreadStates]
      /\ thr'[t] = w /\ \A u \in Threads \ {t} : thr'[u] = thr[u]
  BY DEF IInv, TypeInv
<1>3. /\ set \in [Objects -> Nodes \cup {NoNode}]
      /\ set[o] = NoNode
      /\ set' \in [Objects -> Nodes \cup {NoNode}]
      /\ set'[o] = n /\ \A p \in Objects : p # o => set'[p] = set[p]
  BY DEF IInv, TypeInv, AttachInv
<1>4. n # NoNode /\ NoNode \notin Objects
  BY Addresses
<1>5. Published' = Published \cup {n} /\ Tracked' = Tracked \cup {o}
      /\ o \notin Tracked
  <2>1. Published' = In(R)
    BY DEF Published, In
  <2> QED
    BY <2>1, <1>1, <1>3, <1>4 DEF Tracked
<1>6. refs \in [Nodes -> Nat] /\ refs' \in [Nodes -> Nat]
      /\ refs'[n] = refs[n] + 1
      /\ \A m \in Nodes : m # n => refs'[m] = refs[m]
  BY DEF IInv, TypeInv
<1>7. RefsExact'
  <2>1. ASSUME NEW m \in Nodes
        PROVE  refs'[m] = Cardinality(HoldersOf(m, Tracked)')
    <3>1. refs[m] = Cardinality(HoldersOf(m, Tracked))
      BY DEF IInv, RefsExact
    <3>2. CASE m = n
      <4>1. /\ HoldersOf(m, Tracked)' = HoldersOf(m, Tracked) \cup {o}
            /\ o \notin HoldersOf(m, Tracked)
        BY <3>2, <1>3, <1>5 DEF HoldersOf, Tracked
      <4>2. IsFiniteSet(HoldersOf(m, Tracked))
        BY Holders DEF Tracked
      <4>3. Cardinality(HoldersOf(m, Tracked) \cup {o})
                = Cardinality(HoldersOf(m, Tracked)) + 1
        BY <4>1, <4>2, FS_AddElement
      <4>4. refs'[m] = Cardinality(HoldersOf(m, Tracked) \cup {o})
        BY <3>1, <3>2, <4>3, <1>6
      <4> QED
        BY <4>1, <4>4
    <3>3. CASE m # n
      <4>1. HoldersOf(m, Tracked)' = HoldersOf(m, Tracked)
        BY <3>3, <1>3, <1>5 DEF HoldersOf, Tracked
      <4> QED
        BY <3>1, <3>3, <4>1, <1>6
    <3> QED
      BY <3>2, <3>3
  <2>2. Published' = {m \in Nodes : refs'[m] > 0}
    <3>1. Published = {m \in Nodes : refs[m] > 0}
      BY Current
    <3> QED
      BY <3>1, <1>5, <1>6
  <2>3. reg'.sets = Cardinality(Published')
    BY <1>1, <1>5
  <2> QED
    BY <2>1, <2>2, <2>3 DEF RefsExact
<1>8. TablesInv' /\ tables' \in Nat
  BY <1>1, CountTables
<1>9. TypeInv'
  <2>1. R \in Registries
    BY <1>1, GoodParts
  <2>2. asked' \in [Objects -> TagSets \cup {NoTags}]
    BY DEF IInv, TypeInv
  <2>3. tags' \in [Nodes -> TagSets \cup {NoTags}]
    BY DEF IInv, TypeInv
  <2> QED
    BY <2>1, <2>2, <2>3, <1>2, <1>3, <1>6, <1>8 DEF TypeInv, OthersTyped
<1>10. RegInv'
  BY <1>1 DEF RegInv, Migrating
<1>11. SetInv'
  <2> SUFFICES ASSUME NEW p \in Tracked' PROVE tags'[set'[p]] = asked'[p]
    BY DEF SetInv
  <2>1. asked \in [Objects -> TagSets \cup {NoTags}]
    BY DEF IInv, TypeInv
  <2>2. CASE p = o
    BY <2>1, <2>2, <1>3
  <2>3. CASE p # o
    <3>1. p \in Tracked /\ p \in Objects
      BY <2>3, <1>5 DEF Tracked
    <3> QED
      BY <2>1, <2>3, <3>1, <1>3 DEF IInv, SetInv
  <2> QED
    BY <2>2, <2>3
<1>12. AttachInv'
  <2>1. \A u \in Threads : Attacher(thr'[u])
    <3>1. Attacher(w)
      BY DEF Attacher, Attaching
    <3> QED
      BY <3>1, <1>2 DEF IInv, AttachInv
  <2>2. ASSUME NEW u \in Threads, thr'[u].obj \in Objects
        PROVE  set'[thr'[u].obj] = NoNode
    <3>1. u # t /\ thr'[u] = thr[u]
      BY <2>2, <1>2, <1>4
    <3>2. thr[u].obj # o
      BY <2>2, <3>1, <1>4 DEF IInv, AttachInv
    <3> QED
      BY <2>2, <3>1, <3>2, <1>3 DEF IInv, AttachInv
  <2>3. \A u, v \in Threads : thr'[u].obj = thr'[v].obj /\ u # v
                                => thr'[u].obj = NoNode
    BY <1>2 DEF IInv, AttachInv
  <2> QED
    BY <2>1, <2>2, <2>3, <1>1 DEF AttachInv, Attacher
<1>13. CandInv'
  <2>1. Allocated' = Allocated
    BY DEF Allocated
  <2>2. CASE n \in Published /\ w.cand = thr[t].cand
    <3>1. \A u \in Threads : thr'[u].cand = thr[u].cand
      BY <2>2, <1>2
    <3>2. Candidates' = Candidates /\ Published' = Published
      BY <2>2, <3>1, <1>5 DEF Candidates
    <3>3. \A u \in Threads : /\ thr'[u].pc \in Attaching
                                  => u # t /\ thr'[u] = thr[u]
      BY <1>2 DEF Attaching
    <3> QED
      BY <2>1, <3>1, <3>2, <3>3 DEF IInv, CandInv
  <2>3. CASE n = thr[t].cand /\ w.cand = NoNode
    <3>1. \A u \in Threads \ {t} : thr[u].cand # n
      BY <2>3, <1>4 DEF IInv, CandInv
    <3>2. Candidates' = Candidates \ {n} /\ n \in Candidates
      BY <2>3, <3>1, <1>2, <1>4 DEF Candidates
    <3>3. \A u \in Threads : thr'[u].cand # NoNode
              => u # t /\ thr'[u] = thr[u]
      BY <2>3, <1>2
    <3>4. /\ Allocated' = Published' \cup Candidates'
          /\ Published' \cap Candidates' = {}
      BY <2>1, <3>2, <1>5, Current
    <3> QED
      BY <3>3, <3>4 DEF IInv, CandInv
  <2> QED
    BY <2>2, <2>3
<1> QED
  BY <1>7, <1>8, <1>9, <1>10, <1>11, <1>12, <1>13 DEF IInv

(***************************************************************************)
(* Objects are lost                                                        *)
(***************************************************************************)
LEMMA HoldersLost ==
    ASSUME IInv, NEW lost, lost \subseteq Tracked, NEW n \in Nodes
    PROVE  LET kept == HoldersOf(n, Tracked) \ HoldersOf(n, lost)
           IN  /\ refs[n] - Cardinality(HoldersOf(n, lost))
                      = Cardinality(kept)
               /\ Cardinality(kept) \in Nat
               /\ Cardinality(kept) = 0 <=> kept = {}
<1> DEFINE A == HoldersOf(n, Tracked)
           B == HoldersOf(n, lost)
<1>1. Tracked \subseteq Objects
  BY DEF Tracked
<1>2. B \subseteq A /\ A \subseteq Objects
  BY <1>1 DEF HoldersOf
<1>3. IsFiniteSet(A) /\ IsFiniteSet(B) /\ A \cap B = B
  BY <1>2, Finite, FS_Subset
<1>4. refs[n] = Cardinality(A)
  BY DEF IInv, RefsExact
<1> HIDE DEF A, B
<1>5. Cardinality(A \ B) = Cardinality(A) - Cardinality(B)
  BY <1>3, FS_Difference
<1>6. IsFiniteSet(A \ B)
  BY <1>3, FS_Subset
<1>7. Cardinality(A \ B) \in Nat /\ (Cardinality(A \ B) = 0 <=> A \ B = {})
  BY <1>6, FS_CardinalityType, FS_EmptySet
<1> QED
  BY <1>4, <1>5, <1>7 DEF A, B

(* The sets that are freed are those that nobody holds any more.           *)
LEMMA FreedAre ==
    ASSUME IInv, NEW lost, lost \subseteq Tracked
    PROVE  /\ Freed(lost) \subseteq Published
           /\ \A n \in Published :
                  n \in Freed(lost)
                      <=> refs[n] - Cardinality(HoldersOf(n, lost)) = 0
<1>0. lost \subseteq Objects
  BY DEF Tracked
<1>1. ASSUME NEW n \in Freed(lost) PROVE n \in Published
  <2>1. n \in Nodes /\ HoldersOf(n, lost) # {}
    BY DEF Freed, Allocated
  <2>2. PICK o \in lost : set[o] = n
    BY <2>1 DEF HoldersOf
  <2> QED
    BY <2>2, HolderPublished
<1>2. ASSUME NEW n \in Published
      PROVE  n \in Freed(lost)
                 <=> refs[n] - Cardinality(HoldersOf(n, lost)) = 0
  <2>1. n \in Nodes /\ refs[n] > 0 /\ n \in Allocated /\ refs[n] \in Nat
    BY Current DEF IInv, TypeInv
  <2>2. /\ Cardinality(HoldersOf(n, lost)) \in Nat
        /\ Cardinality(HoldersOf(n, lost)) = 0 <=> HoldersOf(n, lost) = {}
    BY <1>0, Holders
  <2> QED
    BY <2>1, <2>2 DEF Freed
<1> QED
  BY <1>1, <1>2

(* The registry without the sets X.                                        *)
Leaving(R, X) ==
    /\ Good(R, tags)
    /\ Migrating(R) => R.cursor <= Len(R.old)
    /\ reg.primary # NoTable => R.primary # NoTable
    /\ In(R) = Published \ X
    /\ R.sets = Cardinality(In(R))

LEMMA LoseStep ==
    ASSUME IInv, NEW lost, lost \subseteq Tracked, Forget(lost),
           NEW R, reg' = R, Leaving(R, Freed(lost)),
           thr' = thr, OthersTyped, TablesKept(R, 0),
           MigrationHasWorker'
    PROVE  IInv'
<1>1. /\ Good(R, tags) /\ In(R) = Published \ Freed(lost)
      /\ R.sets = Cardinality(In(R))
      /\ Migrating(R) => R.cursor <= Len(R.old)
      /\ reg.primary # NoTable => R.primary # NoTable
  BY DEF Leaving
<1>2. /\ lost \subseteq Objects /\ NoNode \notin Nodes
      /\ set \in [Objects -> Nodes \cup {NoNode}]
      /\ set' = [o \in Objects |-> IF o \in lost THEN NoNode ELSE set[o]]
      /\ asked' = [o \in Objects |-> IF o \in lost THEN NoTags ELSE asked[o]]
      /\ refs' = [n \in Nodes |->
                      refs[n] - Cardinality(HoldersOf(n, lost))]
      /\ tags' = [n \in Nodes |-> IF n \in Freed(lost) THEN NoTags
                                                       ELSE tags[n]]
  BY Addresses DEF Forget, Tracked, IInv, TypeInv
<1>3. Published' = Published \ Freed(lost) /\ Tracked' = Tracked \ lost
  <2>1. Published' = In(R)
    BY DEF Published, In
  <2> QED
    BY <2>1, <1>1, <1>2 DEF Tracked
<1>4. /\ Freed(lost) \subseteq Published /\ Published \subseteq Nodes
      /\ \A n \in Published : n \in Freed(lost) <=> refs'[n] = 0
  BY <1>2, FreedAre, Current
<1>5. ASSUME NEW n \in Nodes
      PROVE  /\ HoldersOf(n, Tracked)'
                    = HoldersOf(n, Tracked) \ HoldersOf(n, lost)
             /\ refs'[n] = Cardinality(HoldersOf(n, Tracked)')
             /\ refs'[n] \in Nat
             /\ refs'[n] = 0 <=> HoldersOf(n, Tracked)' = {}
  <2>1. HoldersOf(n, Tracked)' = HoldersOf(n, Tracked) \ HoldersOf(n, lost)
    BY <1>2, <1>3 DEF HoldersOf, Tracked
  <2>2. refs'[n] = refs[n] - Cardinality(HoldersOf(n, lost))
    BY <1>2
  <2> QED
    BY <2>1, <2>2, HoldersLost
<1>6. RefsExact'
  <2>1. Published' = {n \in Nodes : refs'[n] > 0}
    <3>1. ASSUME NEW n \in Nodes PROVE n \in Published' <=> refs'[n] > 0
      <4>1. CASE n \in Published
        BY <4>1, <1>3, <1>4, <1>5
      <4>2. CASE n \notin Published
        <5>1. refs[n] = 0
          <6>1. ~(refs[n] > 0) /\ refs[n] \in Nat
            BY <4>2, Current DEF IInv, TypeInv
          <6> QED
            BY <6>1
        <5>2. Cardinality(HoldersOf(n, lost)) \in Nat
          BY <1>2, Holders
        <5>3. ~(refs'[n] > 0)
          BY <5>1, <5>2, <1>2
        <5> QED
          BY <5>3, <4>2, <1>3
      <4> QED
        BY <4>1, <4>2
    <3> QED
      BY <3>1, <1>3, <1>4
  <2>2. reg'.sets = Cardinality(Published')
    BY <1>1, <1>3
  <2> QED
    BY <2>1, <2>2, <1>5 DEF RefsExact
<1>7. TablesInv' /\ tables' \in Nat
  <2>1. thr \in [Threads -> ThreadStates]
    BY DEF IInv, TypeInv
  <2>2. tables = NumTables(reg) + Cardinality(Held(thr))
    BY Current
  <2>3. R \in Registries /\ reg \in Registries
    BY <1>1, Current, GoodParts
  <2>4. NumTables(R) \in Nat /\ NumTables(reg) \in Nat
    BY <2>3, TablesCounted
  <2>5. Cardinality(Held(thr)) \in Nat
    BY <2>1, HeldIs, FS_CardinalityType
  <2>6. tables' = NumTables(R) + Cardinality(Held(thr))
    BY <2>2, <2>4, <2>5 DEF TablesKept
  <2>7. InHands' = Cardinality(Held(thr))
    BY HandsIsNext
  <2> QED
    BY <2>4, <2>5, <2>6, <2>7 DEF TablesInv, NumTables
<1>8. TypeInv'
  <2>1. R \in Registries
    BY <1>1, GoodParts
  <2>2. refs' \in [Nodes -> Nat]
    BY <1>2, <1>5
  <2>3. /\ tags' \in [Nodes -> TagSets \cup {NoTags}]
        /\ asked' \in [Objects -> TagSets \cup {NoTags}]
        /\ set' \in [Objects -> Nodes \cup {NoNode}]
    BY <1>2 DEF IInv, TypeInv
  <2> QED
    BY <2>1, <2>2, <2>3, <1>7 DEF IInv, TypeInv, OthersTyped
<1>9. RegInv'
  <2>1. \A n \in In(R) : tags[n] = tags'[n]
    BY <1>1, <1>2, <1>4
  <2>2. Good(R, tags')
    BY <1>1, <2>1, GoodUnder
  <2> QED
    BY <2>2, <1>1 DEF RegInv, Migrating
<1>10. SetInv'
  <2> SUFFICES ASSUME NEW o \in Tracked' PROVE tags'[set'[o]] = asked'[o]
    BY DEF SetInv
  <2>1. o \in Tracked /\ o \notin lost /\ o \in Objects
    BY <1>3 DEF Tracked
  <2>2. set[o] \in Published /\ set[o] \in Nodes
    BY <2>1, HolderPublished
  <2>3. PICK n \in Nodes : n = set[o]
    BY <2>2
  <2>4. o \in HoldersOf(n, Tracked)'
    BY <2>1, <2>3, <1>2, <1>3 DEF HoldersOf
  <2>5. n \notin Freed(lost)
    BY <2>2, <2>3, <2>4, <1>4, <1>5
  <2> QED
    BY <2>1, <2>2, <2>3, <2>5, <1>2 DEF IInv, SetInv
<1>11. AttachInv'
  <2>1. \A u \in Threads : thr[u].obj \in Objects => set'[thr[u].obj] = NoNode
    BY <1>2 DEF IInv, AttachInv
  <2> QED
    BY <2>1, <1>1 DEF IInv, AttachInv, Attacher
<1>12. CandInv'
  <2>1. Candidates' = Candidates
    BY DEF Candidates
  <2>2. Candidates \cap Freed(lost) = {} /\ Candidates \subseteq Nodes
    BY <1>4, Current DEF Allocated
  <2>3. \A n \in Candidates : tags'[n] = tags[n]
    BY <2>2, <1>2
  <2>4. Allocated' = Allocated \ Freed(lost)
    BY <1>2 DEF Allocated
  <2>5. /\ Allocated' = Published' \cup Candidates'
        /\ Published' \cap Candidates' = {}
    BY <2>1, <2>2, <2>4, <1>3, Current
  <2>6. \A u \in Threads : thr[u].cand # NoNode => thr[u].cand \in Candidates
    BY DEF Candidates
  <2> QED
    BY <2>3, <2>5, <2>6 DEF IInv, CandInv
<1> QED
  BY <1>6, <1>7, <1>8, <1>9, <1>10, <1>11, <1>12 DEF IInv

(***************************************************************************)
(* Attaching                                                               *)
(***************************************************************************)
LEMMA MigrationKept ==
    ASSUME IInv, NEW t \in Threads, NEW w \in ThreadStates,
           thr' = [thr EXCEPT ![t] = w],
           UNCHANGED <<worker, wakeup>>,
           w.pc # "idle",
           w.pc = "entered" /\ Migrating(reg') => w.wake
    PROVE  MigrationHasWorker'
<1>1. thr' \in [Threads -> ThreadStates] /\ thr'[t] = w
  BY DEF IInv, TypeInv
<1>2. Migrating(reg') => WillWake(t)'
  BY <1>1 DEF WillWake
<1>3. Migrating(reg)' = Migrating(reg')
  BY DEF Migrating
<1> QED
  BY <1>2, <1>3 DEF MigrationHasWorker

LEMMA KeepsCand ==
    ASSUME IInv, NEW t \in Threads, NEW w \in ThreadStates, tags' = tags,
           w.cand = thr[t].cand,
           w.pc \in Attaching /\ w.cand # NoNode
               => thr[t].pc \in Attaching /\ w.tags = thr[t].tags
    PROVE  Keeps(t, w)
<1>1. thr \in [Threads -> ThreadStates]
  BY DEF IInv, TypeInv
<1>2. tags' \in [Nodes -> TagSets \cup {NoTags}]
  BY DEF IInv, TypeInv
<1>3. Candidates = (Others(t) \cup {w.cand}) \ {NoNode}
  BY DEF Candidates, Others
<1>4. Allocated' = Allocated
  BY DEF Allocated
<1>5. Allocated' = Published \cup ((Others(t) \cup {w.cand}) \ {NoNode})
  BY <1>3, <1>4, Current
<1>6. w.cand \notin Published
  <2>1. CASE w.cand = NoNode
    BY <2>1, Addresses, Current
  <2>2. CASE w.cand # NoNode
    BY <2>2, <1>3, Current
  <2> QED
    BY <2>1, <2>2
<1>7. w.cand \in Others(t) => w.cand = NoNode
  BY DEF Others, IInv, CandInv
<1>8. w.cand # NoNode /\ w.pc \in Attaching => tags'[w.cand] = w.tags
  BY DEF IInv, CandInv
<1> QED
  BY <1>2, <1>5, <1>6, <1>7, <1>8 DEF Keeps

(* The thread is at its critical section, with registry R and state w; no  *)
(* table has been lost since it began.                                     *)
Ready(t, R, w) ==
    /\ thr[t].pc \in Attaching
    /\ Renewed(R)
    /\ reg.primary # NoTable => R.primary # NoTable
    /\ w \in ThreadStates /\ w.pc = "try"
    /\ w.obj = thr[t].obj /\ w.obj \in Objects
    /\ w.tags = thr[t].tags /\ w.tags \in TagSets
    /\ w.cand = thr[t].cand
    /\ w.tables = 1 => w.spent
    /\ w.failed => R.primary # NoTable
    /\ TablesKept(R, w.tables - thr[t].tables)

LEMMA OwnObject ==
    ASSUME IInv, NEW t \in Threads, NEW w, w.obj = thr[t].obj
    PROVE  Own(t, w)
<1>1. NoNode \notin Objects
  BY Addresses
<1> QED
  BY <1>1 DEF Own, IInv, AttachInv

LEMMA IdleState ==
    /\ Idle \in ThreadStates
    /\ Idle.pc = "idle" /\ Idle.obj = NoNode /\ Idle.cand = NoNode
    /\ Idle.tables = 0 /\ ~Idle.failed /\ Attacher(Idle)
<1>1. Idle \in ThreadStates
  BY DEF Idle, ThreadStates, Pcs
<1>2. /\ Idle.pc = "idle" /\ Idle.obj = NoNode /\ Idle.cand = NoNode
      /\ Idle.tables = 0 /\ ~Idle.failed
  BY DEF Idle
<1>3. Attacher(Idle)
  BY <1>2 DEF Attacher, Attaching
<1> QED
  BY <1>1, <1>2, <1>3

LEMMA DoneState ==
    ASSUME NEW w \in ThreadStates, NEW pc \in {"leave", "entered"},
           NEW wake \in BOOLEAN
    PROVE  /\ Done(w, pc, wake) \in ThreadStates
           /\ Done(w, pc, wake).pc = pc
           /\ Done(w, pc, wake).obj = NoNode
           /\ Done(w, pc, wake).cand = w.cand
           /\ Done(w, pc, wake).tables = w.tables
           /\ Done(w, pc, wake).wake = wake
           /\ ~Done(w, pc, wake).failed
           /\ Attacher(Done(w, pc, wake))
<1> DEFINE d == Done(w, pc, wake)
<1>1. w.cand \in Nodes \cup {NoNode} /\ w.tables \in {0, 1} /\ pc \in Pcs
  BY DEF ThreadStates, Pcs
<1>2. d \in ThreadStates
  BY <1>1, IdleState DEF Done, ThreadStates
<1>3. /\ d.pc = pc /\ d.obj = NoNode /\ d.cand = w.cand
      /\ d.tables = w.tables /\ d.wake = wake /\ ~d.failed
  BY IdleState DEF Done, ThreadStates
<1> HIDE DEF d
<1>4. Attacher(d)
  BY <1>3 DEF Attacher, Attaching
<1> QED
  BY <1>2, <1>3, <1>4 DEF d

LEMMA RefusedStep ==
    ASSUME IInv, NEW t \in Threads, NEW R, NEW w, Ready(t, R, w),
           Refused(t, R, w), UNCHANGED <<worker, wakeup, retired>>
    PROVE  IInv'
<1> DEFINE d == Done(w, "leave", FALSE)
<1>1. w \in ThreadStates /\ w.cand = thr[t].cand
  BY DEF Ready
<1>2. /\ d \in ThreadStates /\ d.pc = "leave" /\ d.obj = NoNode
      /\ d.cand = w.cand /\ d.tables = w.tables /\ ~d.failed
      /\ Attacher(d)
  BY <1>1, DoneState
<1>3. reg' = R /\ thr' = [thr EXCEPT ![t] = d]
      /\ tags' = tags /\ refs' = refs /\ set' = set /\ asked' = asked
      /\ worker' = worker /\ wakeup' = wakeup /\ retired' = retired
  BY DEF Refused, Goes
<1> HIDE DEF d
<1>4. Keeps(t, d)
  BY <1>1, <1>2, <1>3, KeepsCand DEF Attaching
<1>5. Own(t, d)
  BY <1>2, Addresses DEF Own
<1>6. OthersTyped
  BY <1>3 DEF OthersTyped, IInv, TypeInv
<1>7. MigrationHasWorker'
  BY <1>2, <1>3, MigrationKept
<1>8. Renewed(R) /\ (reg.primary # NoTable => R.primary # NoTable)
  BY DEF Ready
<1>9. TablesKept(R, d.tables - thr[t].tables)
  BY <1>2 DEF Ready
<1> QED
  BY <1>2, <1>3, <1>4, <1>5, <1>6, <1>7, <1>8, <1>9, ThreadStep

(* The thread waits for a table, or for a structure.                       *)
LEMMA WaitStep ==
    ASSUME IInv, NEW t \in Threads, NEW R, NEW w, Ready(t, R, w),
           NEW d \in ThreadStates, d.pc \in {"table", "node"},
           d.obj = w.obj, d.tags = w.tags, d.cand = w.cand,
           d.failed = w.failed, d.spent = w.spent, d.tables = w.tables,
           d.pc = "node" => d.cand = NoNode,
           reg' = R, thr' = [thr EXCEPT ![t] = d],
           UNCHANGED <<tags, refs, set, asked, worker, wakeup, retired>>
    PROVE  IInv'
<1>1. /\ w \in ThreadStates /\ w.cand = thr[t].cand /\ w.tags = thr[t].tags
      /\ w.obj = thr[t].obj /\ w.obj \in Objects /\ w.tags \in TagSets
      /\ thr[t].pc \in Attaching /\ (w.tables = 1 => w.spent)
      /\ w.failed => R.primary # NoTable
  BY DEF Ready
<1>2. Attacher(d)
  BY <1>1 DEF Attacher, Attaching
<1>3. Keeps(t, d)
  BY <1>1, KeepsCand
<1>4. Own(t, d)
  BY <1>1, OwnObject
<1>5. OthersTyped
  BY DEF OthersTyped, IInv, TypeInv
<1>6. MigrationHasWorker'
  BY MigrationKept
<1>7. Renewed(R) /\ (reg.primary # NoTable => R.primary # NoTable)
  BY DEF Ready
<1>8. TablesKept(R, d.tables - thr[t].tables)
  BY DEF Ready
<1>9. refs' = refs /\ set' = set /\ asked' = asked
  OBVIOUS
<1> QED
  BY <1>1, <1>2, <1>3, <1>4, <1>5, <1>6, <1>7, <1>8, <1>9, ThreadStep

(* It enters its object with the set n.                                    *)
LEMMA DoneEnters ==
    ASSUME IInv, NEW t \in Threads, NEW w \in ThreadStates,
           w.obj = thr[t].obj, w.obj \in Objects,
           NEW n \in Nodes, tags[n] = w.tags, w.tags \in TagSets,
           NEW R, Entering(R, n), Enter(t, R, w, n),
           \/ n \in Published /\ w.cand = thr[t].cand
           \/ n = thr[t].cand /\ w.cand = NoNode,
           TablesKept(R, w.tables - thr[t].tables),
           UNCHANGED <<worker, wakeup, retired>>
    PROVE  IInv'
<1> DEFINE d == Done(w, "entered", Migrating(R))
<1>1. Migrating(R) \in BOOLEAN
  BY DEF Migrating
<1>2. /\ d \in ThreadStates /\ d.pc = "entered" /\ d.obj = NoNode
      /\ d.cand = w.cand /\ d.tables = w.tables /\ ~d.failed
      /\ d.wake = Migrating(R)
  BY <1>1, DoneState
<1>3. reg' = R /\ thr' = [thr EXCEPT ![t] = d] /\ tags' = tags
      /\ set' = [set EXCEPT ![w.obj] = n]
      /\ asked' = [asked EXCEPT ![w.obj] = tags[n]]
      /\ refs' = [refs EXCEPT ![n] = @ + 1]
      /\ worker' = worker /\ wakeup' = wakeup /\ retired' = retired
  BY DEF Enter, Goes
<1> HIDE DEF d
<1>4. OthersTyped
  BY <1>3 DEF OthersTyped, IInv, TypeInv
<1>5. MigrationHasWorker'
  BY <1>2, <1>3, MigrationKept
<1>6. TablesKept(R, d.tables - thr[t].tables)
  BY <1>2
<1>7. tags[n] \in TagSets /\ thr[t].obj = w.obj
  OBVIOUS
<1>8. \/ n \in Published /\ d.cand = thr[t].cand
      \/ n = thr[t].cand /\ d.cand = NoNode
  BY <1>2
<1> QED
  BY <1>2, <1>3, <1>4, <1>5, <1>6, <1>7, <1>8, EnterStep

LEMMA StepsNat ==
    /\ MigrateSteps \in Nat /\ BatchSteps \in Nat
    /\ InitialBuckets \in Nat \ {0}
BY Sizes

(* The old table is dropped when the last set has left it.                 *)
LEMMA DroppedIs ==
    ASSUME NEW R, Good(R, tags), NEW k \in Nat
    PROVE  /\ NumTables(Migrate(R, k)) = NumTables(R) - Dropped(R, k)
           /\ Dropped(R, k) \in {0, 1}
           /\ Dropped(R, k) = 1 => Migrating(R)
           /\ R.primary # NoTable => Migrate(R, k).primary # NoTable
           /\ NumTables(R) \in Nat
<1> DEFINE Q == Migrate(R, k)
<1>1. Same(R, Q)
  BY Migrated
<1>2. Q \in Registries /\ R \in Registries
      /\ Q.primary \in Tables /\ R.primary \in Tables
  BY <1>1, GoodParts DEF Same
<1> HIDE DEF Q
<1>3. R.primary # NoTable <=> Q.primary # NoTable
  BY <1>1, <1>2, Shape DEF Same
<1>4. Migrating(Q) => Migrating(R)
  BY <1>1 DEF Same
<1>5. Dropped(R, k) = IF Migrating(R) /\ ~Migrating(Q) THEN 1 ELSE 0
  BY DEF Dropped, Q
<1>6. /\ NumTables(R) = (IF R.primary # NoTable THEN 1 ELSE 0)
                            + (IF Migrating(R) THEN 1 ELSE 0)
      /\ NumTables(Q) = (IF Q.primary # NoTable THEN 1 ELSE 0)
                            + (IF Migrating(Q) THEN 1 ELSE 0)
  BY <1>2, TablesCounted DEF Migrating
<1>7. NumTables(Q) = NumTables(R) - Dropped(R, k)
  BY <1>3, <1>4, <1>5, <1>6
<1>8. NumTables(R) \in Nat
  BY <1>6
<1> QED
  BY <1>3, <1>5, <1>7, <1>8 DEF Q

LEMMA RenewedMigrate ==
    ASSUME IInv, NEW R, Renewed(R), NEW k \in Nat
    PROVE  Renewed(Migrate(R, k))
BY Migrated DEF Renewed, Same

LEMMA ShareReady ==
    ASSUME IInv, NEW t \in Threads, NEW R, NEW w, Ready(t, R, w)
    PROVE  Ready(t, Share(R, w), AfterShare(R, w))
<1> DEFINE k == MigrateSteps
           x == AfterShare(R, w)
           n == w.tables + IF w.spent THEN 0 ELSE Dropped(R, k)
<1>1. /\ w \in ThreadStates /\ Renewed(R) /\ Good(R, tags)
      /\ w.tables \in {0, 1} /\ w.spent \in BOOLEAN
      /\ w.tables = 1 => w.spent
      /\ thr \in [Threads -> ThreadStates]
  BY DEF Ready, Renewed, ThreadStates, IInv, TypeInv
<1>2. /\ NumTables(Migrate(R, k)) = NumTables(R) - Dropped(R, k)
      /\ Dropped(R, k) \in {0, 1}
      /\ Dropped(R, k) = 1 => Migrating(R)
      /\ R.primary # NoTable => Migrate(R, k).primary # NoTable
      /\ NumTables(R) \in Nat
      /\ Renewed(Migrate(R, k))
  BY <1>1, StepsNat, DroppedIs, RenewedMigrate
<1>3. n \in {0, 1}
  BY <1>1, <1>2
<1>4. Migrating(R) \in BOOLEAN
  BY DEF Migrating
<1> DEFINE b == w.spent \/ Migrating(R)
<1>5. x = [w EXCEPT !.spent = b, !.tables = n] /\ b \in BOOLEAN
  BY <1>1, <1>4 DEF AfterShare, ThreadStates
<1> HIDE DEF x, n, b
<1>6. x \in ThreadStates
  BY <1>1, <1>3, <1>4, <1>5 DEF ThreadStates
<1>7. /\ x.pc = w.pc /\ x.obj = w.obj /\ x.tags = w.tags /\ x.cand = w.cand
      /\ x.failed = w.failed /\ x.tables = n
      /\ x.spent = b
  BY <1>1, <1>5 DEF ThreadStates
<1>8. x.tables = 1 => x.spent
  <2>1. n = 1 => b
    BY <1>1, <1>2 DEF n, b
  <2> QED
    BY <2>1, <1>5, <1>7
<1>9. thr[t].tables \in {0, 1} /\ tables \in Nat /\ NumTables(reg) \in Nat
  <2>1. reg \in Registries
    BY Current, GoodParts
  <2> QED
    BY <2>1, <1>1, TablesCounted, Current DEF ThreadStates
<1>10. CASE w.spent
  <2>1. Share(R, w) = R /\ n = w.tables
    BY <1>1, <1>10 DEF Share, n
  <2> QED
    BY <2>1, <1>6, <1>7, <1>8 DEF Ready, x
<1>11. CASE ~w.spent
  <2>1. Share(R, w) = Migrate(R, k) /\ n = w.tables + Dropped(R, k)
    BY <1>11 DEF Share, n
  <2>2. TablesKept(R, w.tables - thr[t].tables)
    BY DEF Ready
  <2>3. TablesKept(Migrate(R, k), n - thr[t].tables)
    BY <2>1, <2>2, <1>1, <1>2, <1>9 DEF TablesKept
  <2> QED
    BY <2>1, <2>3, <1>2, <1>6, <1>7, <1>8 DEF Ready, x
<1> QED
  BY <1>1, <1>10, <1>11

LEMMA InternStep ==
    ASSUME IInv, NEW t \in Threads, NEW R, NEW w, Ready(t, R, w),
           Intern(t, R, w), UNCHANGED <<worker, wakeup, retired>>
    PROVE  IInv'
<1>1. /\ w \in ThreadStates /\ w.cand = thr[t].cand /\ w.tags = thr[t].tags
      /\ w.obj = thr[t].obj /\ w.obj \in Objects /\ w.tags \in TagSets
      /\ thr[t].pc \in Attaching
      /\ w.failed => R.primary # NoTable
      /\ TablesKept(R, w.tables - thr[t].tables)
      /\ Good(R, tags) /\ In(R) = Published /\ R.sets = reg.sets
      /\ Migrating(R) => R.cursor <= Len(R.old)
  BY DEF Ready, Renewed
<1>2. /\ R.generation \in Nat /\ R.primary \in Tables
      /\ Len(R.primary) \in Nat
      /\ R.primary # NoTable <=> Len(R.primary) # 0
  BY <1>1, GoodParts, Shape
<1>3. /\ Published \subseteq Nodes /\ reg.sets = Cardinality(Published)
      /\ IsFiniteSet(Published)
  BY Current
<1>4. CASE Lookup(R, w.tags) # {}
  <2>1. PICK n \in Lookup(R, w.tags) : Enter(t, R, w, n)
    BY <1>4 DEF Intern
  <2>2. n \in Published /\ n \in Nodes /\ tags[n] = w.tags
    BY <1>1, <1>3, FoundIs
  <2>3. R.primary # NoTable
    <3>1. n \in InTable(R.primary) \/ n \in InTable(R.old)
      BY <2>2, <1>1 DEF In
    <3>2. CursorOK(R)
      BY <1>1, GoodParts
    <3> QED
      BY <3>1, <3>2, EmptyTable DEF CursorOK
  <2>4. In(R) = Published \cup {n} /\ R.sets = Cardinality(In(R))
    BY <2>2, <1>1, <1>3
  <2>5. Entering(R, n)
    BY <2>3, <2>4, <1>1 DEF Entering
  <2> QED
    BY <2>1, <2>2, <2>5, <1>1, DoneEnters
<1>5. CASE Lookup(R, w.tags) = {} /\ Insert(t, R, w)
  <2> DEFINE size == IF w.failed THEN 0 ELSE PrepareInsert(R)
  <2>1. PrepareInsert(R) \in Nat
    BY <1>2, StepsNat DEF PrepareInsert
  <2>2. size \in Nat /\ (size = 0 => R.primary # NoTable)
    BY <2>1, <1>1, StepsNat DEF PrepareInsert
  <2>3. CASE /\ size # 0 /\ reg' = R
             /\ Goes(t, [w EXCEPT !.pc = "table", !.size = size,
                                  !.generation = R.generation])
             /\ UNCHANGED <<tags, refs, set, asked>>
    <3> HIDE DEF size
    <3> DEFINE d == [w EXCEPT !.pc = "table", !.size = size,
                              !.generation = R.generation]
    <3>0. size \in Nat /\ R.generation \in Nat /\ w \in ThreadStates
      BY <2>2, <1>1, <1>2
    <3>1. d \in ThreadStates
      BY <3>0 DEF ThreadStates, Pcs
    <3>2. /\ d.pc = "table" /\ d.obj = w.obj /\ d.tags = w.tags
          /\ d.cand = w.cand /\ d.failed = w.failed /\ d.spent = w.spent
          /\ d.tables = w.tables
      BY <1>1 DEF ThreadStates
    <3>3. reg' = R /\ thr' = [thr EXCEPT ![t] = d]
      BY <2>3 DEF Goes
    <3>4. UNCHANGED <<tags, refs, set, asked, worker, wakeup, retired>>
      BY <2>3
    <3> HIDE DEF d
    <3> QED
      BY <3>1, <3>2, <3>3, <3>4, WaitStep
  <2>4. CASE /\ size = 0 /\ w.cand = NoNode /\ reg' = R
             /\ Goes(t, [w EXCEPT !.pc = "node"])
             /\ UNCHANGED <<tags, refs, set, asked>>
    <3> HIDE DEF size
    <3> DEFINE d == [w EXCEPT !.pc = "node"]
    <3>1. d \in ThreadStates
      BY <1>1 DEF ThreadStates, Pcs
    <3>2. /\ d.pc = "node" /\ d.obj = w.obj /\ d.tags = w.tags
          /\ d.cand = w.cand /\ d.failed = w.failed /\ d.spent = w.spent
          /\ d.tables = w.tables
      BY <1>1 DEF ThreadStates
    <3>3. reg' = R /\ thr' = [thr EXCEPT ![t] = d] /\ w.cand = NoNode
      BY <2>4 DEF Goes
    <3>4. UNCHANGED <<tags, refs, set, asked, worker, wakeup, retired>>
      BY <2>4
    <3> HIDE DEF d
    <3> QED
      BY <3>1, <3>2, <3>3, <3>4, WaitStep
  <2>5. CASE /\ size = 0 /\ w.cand # NoNode
             /\ Enter(t, Publish(R, w.cand), [w EXCEPT !.cand = NoNode],
                      w.cand)
    <3> DEFINE n == w.cand
               d == [w EXCEPT !.cand = NoNode]
               Q == Publish(R, n)
    <3>0. R.primary # NoTable
      BY <2>2, <2>5
    <3> HIDE DEF size
    <3>1. /\ n \in Nodes /\ n \notin Published /\ tags[n] = w.tags
          /\ n = thr[t].cand
      <4>1. n \in Nodes /\ n = thr[t].cand
        BY <2>5, <1>1 DEF ThreadStates
      <4>2. n \in Candidates
        BY <2>5, <1>1 DEF Candidates
      <4>3. tags[n] = w.tags
        BY <2>5, <1>1 DEF IInv, CandInv
      <4> QED
        BY <4>1, <4>2, <4>3, Current
    <3>2. \A m \in In(R) : tags[m] # tags[n]
      BY <3>1, <1>1, <1>5, Found
    <3>3. d \in ThreadStates /\ d.cand = NoNode /\ d.obj = w.obj
          /\ d.tags = w.tags /\ d.tables = w.tables
      BY <1>1 DEF ThreadStates
    <3>4. Enter(t, Q, d, n)
      BY <2>5
    <3> HIDE DEF d, n
    <3>5. /\ Good(Q, tags)
          /\ In(Q) = In(R) \cup {n} /\ Q.sets = R.sets + 1
          /\ Q.primary # NoTable /\ Q.old = R.old
          /\ Q.cursor = R.cursor
      BY <3>0, <3>1, <3>2, <1>1, SetPublished
    <3> HIDE DEF Q
    <3>6. Cardinality(Published \cup {n}) = Cardinality(Published) + 1
      BY <3>1, <1>3, FS_AddElement
    <3>7. Entering(Q, n)
      BY <3>5, <3>6, <1>1, <1>3 DEF Entering, Migrating
    <3>8. NumTables(Q) = NumTables(R)
      <4>1. Q \in Registries /\ R \in Registries
        BY <3>5, <1>1, GoodParts
      <4> QED
        BY <4>1, <3>0, <3>5, TablesCounted
    <3>9. TablesKept(Q, d.tables - thr[t].tables)
      BY <3>3, <3>8, <1>1 DEF TablesKept
    <3> QED
      BY <3>1, <3>3, <3>4, <3>7, <3>9, <1>1, DoneEnters
  <2> QED
    BY <1>5, <2>3, <2>4, <2>5 DEF Insert
<1> QED
  BY <1>4, <1>5 DEF Intern

LEMMA AgainStep ==
    ASSUME IInv, NEW t \in Threads, NEW R, NEW w, Ready(t, R, w),
           Again(t, R, w), UNCHANGED <<worker, wakeup, retired>>
    PROVE  IInv'
<1>1. CASE Refused(t, R, w)
  BY <1>1, RefusedStep
<1>2. CASE Intern(t, Share(R, w), AfterShare(R, w))
  BY <1>2, ShareReady, InternStep
<1> QED
  BY <1>1, <1>2 DEF Again

LEMMA TryStep ==
    ASSUME IInv, NEW t \in Threads, Try(t)
    PROVE  IInv'
<1>1. /\ thr[t].pc = "try" /\ Again(t, reg, thr[t])
      /\ tables' = tables /\ UNCHANGED <<worker, wakeup, retired>>
  BY DEF Try, At
<1>2. Renewed(reg)
  BY Current DEF Renewed
<1>3. thr[t] \in ThreadStates /\ Attacher(thr[t])
      /\ (thr[t].failed => reg.primary # NoTable)
  BY DEF IInv, TypeInv, AttachInv
<1>4. reg \in Registries
  BY Current, GoodParts
<1>5. NumTables(reg) \in Nat /\ tables \in Nat /\ thr[t].tables \in {0, 1}
  BY <1>3, <1>4, TablesCounted, Current DEF ThreadStates
<1>6. TablesKept(reg, thr[t].tables - thr[t].tables)
  BY <1>1, <1>5 DEF TablesKept
<1>7. Ready(t, reg, thr[t])
  BY <1>1, <1>2, <1>3, <1>6 DEF Ready, Attacher, Attaching
<1> QED
  BY <1>1, <1>7, AgainStep

LEMMA TableReadyStep ==
    ASSUME IInv, NEW t \in Threads, TableReady(t)
    PROVE  IInv'
<1> DEFINE w == [thr[t] EXCEPT !.pc = "try", !.size = 0, !.generation = 0]
<1>1. /\ thr[t].pc = "table"
      /\ UNCHANGED <<worker, wakeup, retired>>
  BY DEF TableReady, At
<1>2. thr[t] \in ThreadStates /\ Attacher(thr[t])
      /\ (thr[t].failed => reg.primary # NoTable)
  BY DEF IInv, TypeInv, AttachInv
<1>3. reg \in Registries /\ Good(reg, tags) /\ In(reg) = Published
  BY Current, GoodParts
<1>4. NumTables(reg) \in Nat /\ tables \in Nat /\ thr[t].tables \in {0, 1}
  BY <1>2, <1>3, TablesCounted, Current DEF ThreadStates
<1>5. w \in ThreadStates
  BY <1>2 DEF ThreadStates, Pcs
<1>6. /\ w.pc = "try" /\ w.obj = thr[t].obj /\ w.tags = thr[t].tags
      /\ w.cand = thr[t].cand /\ w.failed = thr[t].failed
      /\ w.spent = thr[t].spent /\ w.tables = thr[t].tables
  BY <1>2 DEF ThreadStates
<1>7. /\ w.obj \in Objects /\ w.tags \in TagSets
      /\ w.tables = 1 => w.spent
      /\ thr[t].pc \in Attaching
  BY <1>1, <1>2, <1>6 DEF Attacher, Attaching
<1>8. CASE Welcome(reg, thr[t])
  <2> DEFINE R == PublishTable(reg, thr[t].size)
  <2>1. tables' = tables + 1 /\ Again(t, R, w)
    BY <1>8 DEF TableReady
  <2>2. ~Migrating(reg)
    BY <1>8 DEF Welcome
  <2>3. thr[t].size \in Nat \ {0}
    <3>1. reg.primary \in Tables
      BY <1>3, GoodParts
    <3>2. Len(reg.primary) \in Nat
          /\ (reg.primary # NoTable <=> Len(reg.primary) # 0)
      BY <3>1, Shape
    <3> QED
      BY <3>2, <1>8, StepsNat DEF Welcome
  <2>4. /\ Good(R, tags)
        /\ In(R) = In(reg) /\ R.sets = reg.sets
        /\ R.primary # NoTable /\ R.old = reg.primary
        /\ R.cursor = 1
    BY <2>2, <2>3, <1>3, TablePublished
  <2> HIDE DEF w, R
  <2>5. Migrating(R) => R.cursor <= Len(R.old)
    <3>1. reg.primary \in Tables
      BY <1>3, GoodParts
    <3> QED
      BY <3>1, <2>4, Shape DEF Migrating
  <2>6. Renewed(R)
    BY <2>4, <2>5, <1>3 DEF Renewed
  <2>7. NumTables(R) = NumTables(reg) + 1
    <3>1. R \in Registries
      BY <2>4, GoodParts
    <3>2. reg.old = NoTable
      BY <2>2 DEF Migrating
    <3> QED
      BY <3>1, <3>2, <2>4, <1>3, TablesCounted
  <2>8. TablesKept(R, w.tables - thr[t].tables)
    BY <2>1, <2>7, <1>4, <1>6 DEF TablesKept
  <2>9. Ready(t, R, w)
    BY <2>4, <2>6, <2>8, <1>5, <1>6, <1>7 DEF Ready
  <2> QED
    BY <2>1, <2>9, <1>1, AgainStep
<1>9. CASE ~Welcome(reg, thr[t])
  <2>1. thr' = [thr EXCEPT ![t] = w]
        /\ UNCHANGED <<reg, tags, refs, tables, set, asked>>
    BY <1>9 DEF TableReady, Goes
  <2> HIDE DEF w
  <2>2. Renewed(reg)
    BY Current DEF Renewed
  <2>3. Keeps(t, w)
    BY <2>1, <1>5, <1>6, <1>7, KeepsCand
  <2>4. Attacher(w)
    BY <1>6, <1>7 DEF Attacher, Attaching
  <2>5. Own(t, w)
    BY <1>6, OwnObject
  <2>6. TablesKept(reg, w.tables - thr[t].tables)
    BY <2>1, <1>4, <1>6 DEF TablesKept
  <2>7. OthersTyped
    BY <1>1 DEF OthersTyped, IInv, TypeInv
  <2>8. MigrationHasWorker'
    BY <1>1, <1>5, <1>6, <2>1, MigrationKept
  <2>9. reg' = reg /\ UNCHANGED <<refs, set, asked>>
    BY <2>1
  <2> QED
    BY <2>1, <2>2, <2>3, <2>4, <2>5, <2>6, <2>7, <2>8, <2>9, <1>2, <1>5,
       <1>6, ThreadStep
<1> QED
  BY <1>8, <1>9

(* A thread goes on to another place, and nothing else changes.            *)
LEMMA StayStep ==
    ASSUME IInv, NEW t \in Threads, NEW d \in ThreadStates,
           thr' = [thr EXCEPT ![t] = d],
           UNCHANGED <<reg, tags, refs, tables, set, asked, worker, wakeup,
                       retired>>,
           d.pc \notin {"idle", "entered"},
           d.cand = thr[t].cand, d.tables = thr[t].tables,
           d.pc \in Attaching => thr[t].pc \in Attaching
                                 /\ d.tags = thr[t].tags,
           d.obj = thr[t].obj \/ d.obj = NoNode,
           Attacher(d), d.failed => reg.primary # NoTable
    PROVE  IInv'
<1>1. Renewed(reg) /\ reg \in Registries
  BY Current, GoodParts DEF Renewed
<1>2. Keeps(t, d)
  BY KeepsCand
<1>3. Own(t, d)
  <2>1. CASE d.obj = thr[t].obj
    BY <2>1, OwnObject
  <2>2. CASE d.obj = NoNode
    BY <2>2, Addresses DEF Own
  <2> QED
    BY <2>1, <2>2
<1>4. thr[t] \in ThreadStates
  BY DEF IInv, TypeInv
<1>5. NumTables(reg) \in Nat /\ tables \in Nat /\ d.tables \in {0, 1}
  BY <1>1, TablesCounted, Current DEF ThreadStates
<1>6. TablesKept(reg, d.tables - thr[t].tables)
  BY <1>5 DEF TablesKept
<1>7. OthersTyped
  BY DEF OthersTyped, IInv, TypeInv
<1>8. MigrationHasWorker'
  BY MigrationKept
<1>9. /\ reg' = reg /\ refs' = refs /\ set' = set /\ asked' = asked
  OBVIOUS
<1> QED
  BY <1>1, <1>2, <1>3, <1>6, <1>7, <1>8, <1>9, ThreadStep

LEMMA FailStep ==
    ASSUME IInv, NEW t \in Threads, thr[t].pc \in Attaching,
           Goes(t, Done(thr[t], "leave", FALSE)),
           UNCHANGED <<reg, tags, refs, tables, set, asked, worker, wakeup,
                       retired>>
    PROVE  IInv'
<1> DEFINE d == Done(thr[t], "leave", FALSE)
<1>1. thr[t] \in ThreadStates
  BY DEF IInv, TypeInv
<1>2. /\ d \in ThreadStates /\ d.pc = "leave" /\ d.obj = NoNode
      /\ d.cand = thr[t].cand /\ d.tables = thr[t].tables /\ ~d.failed
      /\ Attacher(d)
  BY <1>1, DoneState
<1>3. thr' = [thr EXCEPT ![t] = d]
  BY DEF Goes
<1> HIDE DEF d
<1>4. d.pc \notin {"idle", "entered"} /\ d.pc \notin Attaching
  BY <1>2 DEF Attaching
<1> QED
  BY <1>2, <1>3, <1>4, StayStep

LEMMA TableFailsStep ==
    ASSUME IInv, NEW t \in Threads, TableFails(t)
    PROVE  IInv'
<1>1. /\ thr[t].pc = "table"
      /\ UNCHANGED <<reg, tags, refs, tables, set, asked, worker, wakeup,
                     retired>>
  BY DEF TableFails, At
<1>2. CASE reg.primary = NoTable
  BY <1>1, <1>2, FailStep DEF TableFails, Attaching
<1>3. CASE reg.primary # NoTable
  <2> DEFINE d == [thr[t] EXCEPT !.pc = "try", !.size = 0,
                                 !.generation = 0, !.failed = TRUE]
  <2>1. thr[t] \in ThreadStates /\ Attacher(thr[t])
    BY DEF IInv, TypeInv, AttachInv
  <2>2. d \in ThreadStates
    BY <2>1 DEF ThreadStates, Pcs
  <2>3. /\ d.pc = "try" /\ d.obj = thr[t].obj /\ d.tags = thr[t].tags
        /\ d.cand = thr[t].cand /\ d.spent = thr[t].spent
        /\ d.tables = thr[t].tables
    BY <2>1 DEF ThreadStates
  <2>4. thr' = [thr EXCEPT ![t] = d]
    BY <1>3 DEF TableFails, Goes
  <2> HIDE DEF d
  <2>5. Attacher(d)
    BY <1>1, <2>1, <2>3 DEF Attacher, Attaching
  <2>6. d.pc \notin {"idle", "entered"} /\ thr[t].pc \in Attaching
    BY <1>1, <2>3 DEF Attaching
  <2> QED
    BY <1>1, <1>3, <2>2, <2>3, <2>4, <2>5, <2>6, StayStep
<1> QED
  BY <1>2, <1>3

LEMMA NodeFailsStep ==
    ASSUME IInv, NEW t \in Threads, NodeFails(t)
    PROVE  IInv'
BY FailStep DEF NodeFails, At, Attaching

(* A structure is allocated for a thread that has none.                    *)
LEMMA CandMade ==
    ASSUME IInv, NEW t \in Threads, NEW w \in ThreadStates,
           NEW s \in TagSets, Room,
           tags' = [tags EXCEPT ![NewNode] = s],
           thr[t].cand = NoNode, w.cand = NewNode, w.tags = s
    PROVE  Keeps(t, w)
<1> DEFINE n == NewNode
<1>1. n \in Nodes /\ n \notin Allocated
  <2>1. \E m \in Nodes : m \notin Allocated
    BY DEF Room, Allocated
  <2> QED
    BY <2>1 DEF NewNode
<1> HIDE DEF n
<1>2. tags \in [Nodes -> TagSets \cup {NoTags}]
      /\ tags' = [tags EXCEPT ![n] = s]
  BY DEF IInv, TypeInv, n
<1>3. Candidates = Others(t) \ {NoNode}
  BY DEF Candidates, Others
<1>4. Allocated' = Allocated \cup {n}
  BY <1>1, <1>2, LargeSets DEF Allocated
<1>5. Allocated = Published \cup Candidates /\ n # NoNode
  BY <1>1, Current, Addresses
<1>6. w.cand = n
  BY DEF n
<1> QED
  BY <1>1, <1>2, <1>3, <1>4, <1>5, <1>6 DEF Keeps

(* A thread begins, or has its structure.                                  *)
LEMMA GoOnStep ==
    ASSUME IInv, NEW t \in Threads, NEW d \in ThreadStates,
           thr' = [thr EXCEPT ![t] = d],
           UNCHANGED <<reg, refs, tables, set, asked, worker, wakeup,
                       retired>>,
           d.pc = "try", d.tables = thr[t].tables,
           Keeps(t, d), Own(t, d),
           Attacher(d), d.failed => reg.primary # NoTable
    PROVE  IInv'
<1>1. Renewed(reg) /\ reg \in Registries
  BY Current, GoodParts DEF Renewed
<1>2. NumTables(reg) \in Nat /\ tables \in Nat /\ d.tables \in {0, 1}
  BY <1>1, TablesCounted, Current DEF ThreadStates
<1>3. TablesKept(reg, d.tables - thr[t].tables)
  BY <1>2 DEF TablesKept
<1>4. OthersTyped
  BY DEF OthersTyped, IInv, TypeInv
<1>5. MigrationHasWorker'
  BY MigrationKept
<1>6. reg' = reg /\ refs' = refs /\ set' = set /\ asked' = asked
  OBVIOUS
<1> QED
  BY <1>1, <1>3, <1>4, <1>5, <1>6, ThreadStep

LEMMA NodeReadyStep ==
    ASSUME IInv, NEW t \in Threads, NodeReady(t)
    PROVE  IInv'
<1> DEFINE d == [thr[t] EXCEPT !.pc = "try", !.cand = NewNode]
           n == NewNode
<1>1. /\ thr[t].pc = "node" /\ Room
      /\ tags' = [tags EXCEPT ![NewNode] = thr[t].tags]
      /\ thr' = [thr EXCEPT ![t] = d]
      /\ UNCHANGED <<reg, refs, tables, set, asked, worker, wakeup, retired>>
  BY DEF NodeReady, At, Goes
<1>2. thr[t] \in ThreadStates /\ Attacher(thr[t])
      /\ (thr[t].failed => reg.primary # NoTable)
  BY DEF IInv, TypeInv, AttachInv
<1>3. n \in Nodes
  <2>1. \E m \in Nodes : m \notin Allocated
    BY <1>1 DEF Room, Allocated
  <2> QED
    BY <2>1 DEF NewNode
<1>4. d = [thr[t] EXCEPT !.pc = "try", !.cand = n] /\ n = NewNode
  OBVIOUS
<1> HIDE DEF d, n
<1>5. d \in ThreadStates
  BY <1>2, <1>3, <1>4 DEF ThreadStates, Pcs
<1>6. /\ d.pc = "try" /\ d.obj = thr[t].obj /\ d.tags = thr[t].tags
      /\ d.cand = n /\ d.spent = thr[t].spent
      /\ d.tables = thr[t].tables /\ d.failed = thr[t].failed
  BY <1>2, <1>4 DEF ThreadStates
<1>7. /\ thr[t].cand = NoNode /\ thr[t].tags \in TagSets /\ Attacher(d)
  BY <1>1, <1>2, <1>6 DEF Attacher, Attaching
<1>8. Keeps(t, d)
  BY <1>1, <1>4, <1>5, <1>6, <1>7, CandMade
<1>9. Own(t, d)
  BY <1>6, OwnObject
<1> QED
  BY <1>1, <1>2, <1>5, <1>6, <1>7, <1>8, <1>9, GoOnStep

LEMMA BeginStep ==
    ASSUME IInv, NEW t \in Threads, NEW o \in Objects, NEW s \in TagSets,
           Begin(t, o, s)
    PROVE  IInv'
<1> DEFINE w == [Idle EXCEPT !.pc = "try", !.obj = o, !.tags = s]
<1>1. /\ thr[t].pc = "idle" /\ set[o] = NoNode
      /\ \A u \in Threads : thr[u].obj # o
      /\ UNCHANGED <<reg, refs, tables, set, asked, worker, wakeup, retired>>
  BY DEF Begin, At
<1>2. thr[t] = Idle
  BY <1>1 DEF IInv, AttachInv, Attacher
<1>3. w \in ThreadStates
  BY IdleState DEF ThreadStates, Pcs
<1>4. /\ w.pc = "try" /\ w.obj = o /\ w.tags = s /\ w.cand = NoNode
      /\ w.tables = 0 /\ ~w.failed
  BY IdleState DEF ThreadStates
<1>5. thr[t].cand = NoNode /\ thr[t].tables = 0
  BY <1>2, IdleState
<1>6. CASE s \notin Large
  <2>1. thr' = [thr EXCEPT ![t] = w] /\ tags' = tags
    BY <1>6 DEF Begin, Goes
  <2> HIDE DEF w
  <2>2. Attacher(w)
    BY <1>4 DEF Attacher, Attaching
  <2>3. Keeps(t, w)
    BY <2>1, <1>3, <1>4, <1>5, KeepsCand
  <2>4. Own(t, w)
    BY <1>1, <1>4 DEF Own
  <2> QED
    BY <2>1, <2>2, <2>3, <2>4, <1>1, <1>3, <1>4, <1>5, GoOnStep
<1>7. CASE s \in Large
  <2> DEFINE d == [w EXCEPT !.cand = NewNode]
             n == NewNode
  <2>1. /\ thr' = [thr EXCEPT ![t] = d] /\ Room
        /\ tags' = [tags EXCEPT ![NewNode] = s]
    BY <1>7 DEF Begin, Goes
  <2>2. n \in Nodes
    <3>1. \E m \in Nodes : m \notin Allocated
      BY <2>1 DEF Room, Allocated
    <3> QED
      BY <3>1 DEF NewNode
  <2> HIDE DEF w
  <2>3. d = [w EXCEPT !.cand = n] /\ n = NewNode
    OBVIOUS
  <2> HIDE DEF d, n
  <2>4. d \in ThreadStates
    BY <2>2, <2>3, <1>3 DEF ThreadStates
  <2>5. /\ d.pc = "try" /\ d.obj = o /\ d.tags = s /\ d.cand = n
        /\ d.tables = 0 /\ ~d.failed
    BY <2>3, <1>3, <1>4 DEF ThreadStates
  <2>6. Attacher(d)
    BY <2>5 DEF Attacher, Attaching
  <2>7. Keeps(t, d)
    BY <2>1, <2>3, <2>4, <2>5, <1>5, CandMade
  <2>8. Own(t, d)
    BY <1>1, <2>5 DEF Own
  <2> QED
    BY <2>1, <2>4, <2>5, <2>6, <2>7, <2>8, <1>1, <1>5, GoOnStep
<1> QED
  BY <1>6, <1>7

LEMMA LeaveStep ==
    ASSUME IInv, NEW t \in Threads, Leave(t)
    PROVE  IInv'
<1> DEFINE c == thr[t].cand
<1>1. /\ thr[t].pc \in {"leave", "entered"}
      /\ tags' = [n \in Nodes |-> IF n = c THEN NoTags ELSE tags[n]]
      /\ tables' = tables - thr[t].tables
      /\ wakeup' = (wakeup \/ Wakes(thr[t]))
      /\ thr' = [thr EXCEPT ![t] = Idle]
      /\ UNCHANGED <<reg, refs, set, asked, worker, retired>>
  BY DEF Leave, Goes
<1>2. thr \in [Threads -> ThreadStates] /\ thr[t] \in ThreadStates
  BY DEF IInv, TypeInv
<1>3. /\ Idle \in ThreadStates
      /\ Idle.pc = "idle" /\ Idle.obj = NoNode /\ Idle.cand = NoNode
      /\ Idle.tables = 0 /\ ~Idle.failed /\ Attacher(Idle)
  BY IdleState
<1>4. Keeps(t, Idle)
  <2>1. tags \in [Nodes -> TagSets \cup {NoTags}]
    BY DEF IInv, TypeInv
  <2>2. tags' \in [Nodes -> TagSets \cup {NoTags}]
    BY <1>1, <2>1
  <2>3. c \notin Published /\ c \notin Others(t) \ {NoNode}
    <3>1. c # NoNode => c \in Candidates
      BY DEF Candidates
    <3>2. c \notin Others(t) \ {NoNode}
      BY DEF Others, IInv, CandInv
    <3> QED
      BY <3>1, <3>2, Current, Addresses
  <2>4. Candidates = (Others(t) \cup {c}) \ {NoNode}
    BY DEF Candidates, Others
  <2> HIDE DEF c
  <2>5. Allocated' = Allocated \ {c}
    BY <1>1 DEF Allocated
  <2>6. Allocated' = Published \cup (Others(t) \ {NoNode})
    BY <2>3, <2>4, <2>5, Current
  <2>7. NoNode \notin Published
    BY Current, Addresses
  <2>8. \A n \in Published \cup (Others(t) \ {NoNode}) : n \in Nodes
    BY <2>4, Current DEF Allocated
  <2>9. \A n \in Published \cup (Others(t) \ {NoNode}) : tags'[n] = tags[n]
    BY <2>3, <2>8, <1>1
  <2> QED
    BY <2>2, <2>6, <2>7, <2>9, <1>3 DEF Keeps, Attaching
<1>5. Own(t, Idle)
  BY <1>3, Addresses DEF Own
<1>6. Renewed(reg) /\ reg \in Registries
  BY Current, GoodParts DEF Renewed
<1>7. NumTables(reg) \in Nat /\ tables \in Nat /\ thr[t].tables \in {0, 1}
  BY <1>2, <1>6, TablesCounted, Current DEF ThreadStates
<1>8. TablesKept(reg, Idle.tables - thr[t].tables)
  BY <1>1, <1>3, <1>7 DEF TablesKept
<1>9. Wakes(thr[t]) \in BOOLEAN /\ wakeup \in BOOLEAN
  BY <1>2 DEF Wakes, Migrating, ThreadStates, IInv, TypeInv
<1>10. OthersTyped
  BY <1>1, <1>9 DEF OthersTyped, IInv, TypeInv
<1>11. MigrationHasWorker'
  <2> SUFFICES ASSUME Migrating(reg)'
               PROVE  \/ wakeup' \/ worker' = "busy"
                      \/ \E u \in Threads : WillWake(u)'
    BY DEF MigrationHasWorker
  <2>1. Migrating(reg)
    BY <1>1 DEF Migrating
  <2>2. wakeup \/ worker = "busy" \/ \E u \in Threads : WillWake(u)
    BY <2>1 DEF IInv, MigrationHasWorker
  <2>3. CASE wakeup \/ worker = "busy"
    BY <2>3, <1>1
  <2>4. ASSUME NEW u \in Threads, WillWake(u), u # t
        PROVE  WillWake(u)'
    BY <2>4, <1>1, <1>2 DEF WillWake
  <2>5. CASE WillWake(t)
    <3>1. Wakes(thr[t])
      BY <2>1, <2>5, <1>1 DEF Wakes, WillWake
    <3> QED
      BY <3>1, <1>1, <1>9
  <2> QED
    BY <2>2, <2>3, <2>4, <2>5
<1>12. reg' = reg /\ refs' = refs /\ set' = set /\ asked' = asked
  BY <1>1
<1> QED
  BY <1>1, <1>3, <1>4, <1>5, <1>6, <1>8, <1>10, <1>11, <1>12, ThreadStep

(***************************************************************************)
(* The worker, and those who do its work                                   *)
(***************************************************************************)
(* A batch of steps loses no table but the one that it empties.            *)
LEMMA BatchKeeps ==
    ASSUME IInv, NEW k \in Nat, tables' = tables - Dropped(reg, k)
    PROVE  /\ Renewed(Migrate(reg, k))
           /\ TablesKept(Migrate(reg, k), 0)
           /\ reg.primary # NoTable => Migrate(reg, k).primary # NoTable
           /\ Migrating(Migrate(reg, k)) => Migrating(reg)
<1>1. Good(reg, tags) /\ Renewed(reg) /\ tables \in Nat
  BY Current DEF Renewed
<1>2. /\ NumTables(Migrate(reg, k)) = NumTables(reg) - Dropped(reg, k)
      /\ Dropped(reg, k) \in {0, 1}
      /\ reg.primary # NoTable => Migrate(reg, k).primary # NoTable
      /\ NumTables(reg) \in Nat
  BY <1>1, DroppedIs
<1>3. Renewed(Migrate(reg, k))
  BY <1>1, RenewedMigrate
<1>4. TablesKept(Migrate(reg, k), 0)
  BY <1>1, <1>2 DEF TablesKept
<1>5. Migrating(Migrate(reg, k)) => Migrating(reg)
  BY <1>1, Migrated DEF Same
<1> QED
  BY <1>2, <1>3, <1>4, <1>5

LEMMA HelpStep ==
    ASSUME IInv, NEW t \in Threads, Help(t)
    PROVE  IInv'
<1> DEFINE R == Migrate(reg, BatchSteps)
<1>1. /\ thr[t].pc = "try" /\ reg' = R
      /\ tables' = tables - Dropped(reg, BatchSteps)
      /\ UNCHANGED <<tags, refs, set, asked, thr, worker, wakeup, retired>>
  BY DEF Help, At
<1>2. /\ Renewed(R) /\ TablesKept(R, 0)
      /\ reg.primary # NoTable => R.primary # NoTable
  BY <1>1, StepsNat, BatchKeeps
<1>3. OthersTyped
  BY <1>1 DEF OthersTyped, IInv, TypeInv
<1>4. WillWake(t)'
  BY <1>1 DEF WillWake
<1>5. MigrationHasWorker'
  BY <1>4 DEF MigrationHasWorker
<1> HIDE DEF R
<1>6. UNCHANGED <<tags, refs, set, asked, thr>>
  BY <1>1
<1> QED
  BY <1>1, <1>2, <1>3, <1>5, <1>6, RegistryStep

LEMMA WorkerBatchStep ==
    ASSUME IInv, WorkerBatch
    PROVE  IInv'
<1> DEFINE R == Migrate(reg, BatchSteps)
<1>1. /\ reg' = R
      /\ tables' = tables - Dropped(reg, BatchSteps)
      /\ worker' = IF Migrating(reg) THEN "busy" ELSE "asleep"
      /\ UNCHANGED <<tags, refs, set, asked, thr, wakeup, retired>>
  BY DEF WorkerBatch
<1>2. /\ Renewed(R) /\ TablesKept(R, 0)
      /\ reg.primary # NoTable => R.primary # NoTable
      /\ Migrating(R) => Migrating(reg)
  BY <1>1, StepsNat, BatchKeeps
<1> HIDE DEF R
<1>3. OthersTyped
  BY <1>1 DEF OthersTyped, IInv, TypeInv
<1>4. Migrating(reg)' => worker' = "busy"
  <2>1. Migrating(reg)' = Migrating(R)
    BY <1>1 DEF Migrating
  <2> QED
    BY <2>1, <1>1, <1>2
<1>5. MigrationHasWorker'
  BY <1>4 DEF MigrationHasWorker
<1>6. UNCHANGED <<tags, refs, set, asked, thr>>
  BY <1>1
<1> QED
  BY <1>1, <1>2, <1>3, <1>5, <1>6, RegistryStep

LEMMA WorkerWakesStep ==
    ASSUME IInv, WorkerWakes
    PROVE  IInv'
<1>1. /\ wakeup' = FALSE /\ worker' = "busy"
      /\ UNCHANGED <<reg, tags, refs, tables, set, asked, thr, retired>>
  BY DEF WorkerWakes
<1>2. Renewed(reg) /\ reg \in Registries
  BY Current, GoodParts DEF Renewed
<1>3. NumTables(reg) \in Nat /\ tables \in Nat
  BY <1>2, TablesCounted, Current
<1>4. TablesKept(reg, 0)
  BY <1>1, <1>3 DEF TablesKept
<1>5. OthersTyped
  BY <1>1 DEF OthersTyped, IInv, TypeInv
<1>6. MigrationHasWorker'
  BY <1>1 DEF MigrationHasWorker
<1>7. reg' = reg /\ UNCHANGED <<tags, refs, set, asked, thr>>
  BY <1>1
<1> QED
  BY <1>2, <1>4, <1>5, <1>6, <1>7, RegistryStep

(***************************************************************************)
(* Losing objects                                                          *)
(***************************************************************************)
(* The migration that is left has the worker that it had.                  *)
LEMMA WorkerKept ==
    ASSUME IInv, NEW R, reg' = R, Migrating(R) => Migrating(reg),
           UNCHANGED <<thr, worker, wakeup>>
    PROVE  MigrationHasWorker'
<1>1. Migrating(reg)' = Migrating(R)
  BY DEF Migrating
<1>2. \A t \in Threads : WillWake(t)' = WillWake(t)
  BY DEF WillWake
<1> QED
  BY <1>1, <1>2 DEF IInv, MigrationHasWorker

(* Removing sets keeps the tables and the cursor.                          *)
LEMMA LessLeaves ==
    ASSUME IInv, NEW R, NEW Q, NEW X, Less(R, Q, X), Good(R, tags),
           Migrating(R) => R.cursor <= Len(R.old),
           reg.primary # NoTable => R.primary # NoTable,
           In(Q) = Published \ X, Q.sets = Cardinality(In(Q))
    PROVE  /\ Leaving(Q, X)
           /\ NumTables(Q) = NumTables(R)
           /\ Migrating(Q) => Migrating(R)
<1>1. /\ Good(Q, tags) /\ Q.cursor = R.cursor
      /\ Len(Q.primary) = Len(R.primary) /\ Len(Q.old) = Len(R.old)
  BY DEF Less
<1>2. /\ R \in Registries /\ Q \in Registries
      /\ R.primary \in Tables /\ R.old \in Tables
      /\ Q.primary \in Tables /\ Q.old \in Tables
  BY <1>1, GoodParts
<1>3. /\ R.primary # NoTable <=> Q.primary # NoTable
      /\ R.old # NoTable <=> Q.old # NoTable
  BY <1>1, <1>2, Shape
<1>4. NumTables(Q) = NumTables(R)
  BY <1>2, <1>3, TablesCounted
<1>5. Leaving(Q, X)
  BY <1>1, <1>3 DEF Leaving, Migrating
<1> QED
  BY <1>3, <1>4, <1>5 DEF Migrating

(* Without its last object a set leaves the registry.                      *)
LEMMA Released ==
    ASSUME IInv, NEW R, Renewed(R), NEW o \in Tracked,
           reg.primary # NoTable => R.primary # NoTable
    PROVE  LET Q == Release(R, set[o])
           IN  /\ Leaving(Q, Freed({o}))
               /\ NumTables(Q) = NumTables(R)
               /\ Migrating(Q) => Migrating(R)
<1> DEFINE n == set[o]
           Q == Release(R, n)
<1>1. n \in Published /\ n \in Nodes /\ o \in Objects
  BY HolderPublished
<1>2. /\ Good(R, tags) /\ In(R) = Published /\ R.sets = reg.sets
      /\ Migrating(R) => R.cursor <= Len(R.old)
  BY DEF Renewed
<1>3. /\ reg.sets = Cardinality(Published) /\ IsFiniteSet(Published)
      /\ Published = {m \in Nodes : refs[m] > 0}
      /\ Published \subseteq Allocated
  BY Current
<1>4. refs[n] \in Nat
  BY <1>1 DEF IInv, TypeInv
<1>5. /\ HoldersOf(n, {o}) = {o}
      /\ \A m \in Nodes : m # n => HoldersOf(m, {o}) = {}
  BY DEF HoldersOf
<1>6. Freed({o}) = {m \in {n} : refs[n] = 1}
  <2>1. Cardinality({o}) = 1
    BY FS_Singleton
  <2>2. \A m \in Allocated : m \in Nodes
    BY DEF Allocated
  <2> HIDE DEF n
  <2> QED
    BY <2>1, <2>2, <1>1, <1>3, <1>5 DEF Freed
<1> HIDE DEF n
<1>7. CASE refs[n] > 1
  <2>1. Q = R /\ Freed({o}) = {}
    BY <1>4, <1>6, <1>7 DEF Release
  <2>2. Leaving(R, {})
    BY <1>2, <1>3 DEF Leaving
  <2> QED
    BY <2>1, <2>2 DEF n
<1>8. CASE ~(refs[n] > 1)
  <2>1. refs[n] = 1
    BY <1>1, <1>3, <1>4, <1>8
  <2>2. Q = Unlink(R, n) /\ Freed({o}) = {n}
    BY <2>1, <1>6, <1>8 DEF Release
  <2>3. /\ Cardinality(Published \ {n}) = Cardinality(Published) - 1
        /\ Cardinality(Published) # 0
    BY <1>1, <1>3, FS_RemoveElement, FS_EmptySet
  <2>4. Less(R, Q, {n}) /\ Q.sets = R.sets - 1
    BY <2>2, <2>3, <1>1, <1>2, <1>3, Unlinked
  <2> HIDE DEF Q
  <2>5. In(Q) = Published \ {n} /\ Q.sets = Cardinality(In(Q))
    BY <2>3, <2>4, <1>2, <1>3 DEF Less
  <2> QED
    BY <2>2, <2>4, <2>5, <1>2, LessLeaves DEF n, Q
<1> QED
  BY <1>7, <1>8 DEF n

LEMMA SweepKillStep ==
    ASSUME IInv, NEW o \in Objects, SweepKill(o)
    PROVE  IInv'
<1> DEFINE Q == Release(reg, set[o])
<1>1. /\ o \in Tracked /\ reg' = Q /\ Forget({o})
      /\ UNCHANGED <<tables, thr, worker, wakeup, retired>>
  BY DEF SweepKill
<1>2. Renewed(reg) /\ reg \in Registries
  BY Current, GoodParts DEF Renewed
<1>3. /\ Leaving(Q, Freed({o}))
      /\ NumTables(Q) = NumTables(reg)
      /\ Migrating(Q) => Migrating(reg)
  BY <1>1, <1>2, Released
<1> HIDE DEF Q
<1>4. NumTables(reg) \in Nat /\ tables \in Nat
  BY <1>2, TablesCounted, Current
<1>5. TablesKept(Q, 0)
  BY <1>1, <1>3, <1>4 DEF TablesKept
<1>6. OthersTyped
  BY <1>1 DEF OthersTyped, IInv, TypeInv
<1>7. MigrationHasWorker'
  BY <1>1, <1>3, WorkerKept
<1>8. {o} \subseteq Tracked
  BY <1>1
<1> QED
  BY <1>1, <1>3, <1>5, <1>6, <1>7, <1>8, LoseStep

LEMMA InvalidateStep ==
    ASSUME IInv, NEW o \in Objects, Invalidate(o)
    PROVE  IInv'
<1> DEFINE R == Migrate(reg, MigrateSteps)
           Q == Release(R, set[o])
<1>1. /\ o \in Tracked /\ reg' = Q /\ Forget({o})
      /\ tables' = tables - Dropped(reg, MigrateSteps)
      /\ UNCHANGED <<thr, worker, wakeup, retired>>
  BY DEF Invalidate
<1>2. /\ Renewed(R) /\ TablesKept(R, 0)
      /\ reg.primary # NoTable => R.primary # NoTable
      /\ Migrating(R) => Migrating(reg)
  BY <1>1, StepsNat, BatchKeeps
<1> HIDE DEF R
<1>3. /\ Leaving(Q, Freed({o}))
      /\ NumTables(Q) = NumTables(R)
      /\ Migrating(Q) => Migrating(R)
  BY <1>1, <1>2, Released
<1> HIDE DEF Q
<1>4. TablesKept(Q, 0)
  BY <1>2, <1>3 DEF TablesKept
<1>5. OthersTyped
  BY <1>1 DEF OthersTyped, IInv, TypeInv
<1>6. MigrationHasWorker'
  BY <1>1, <1>2, <1>3, WorkerKept
<1>7. {o} \subseteq Tracked
  BY <1>1
<1> QED
  BY <1>1, <1>3, <1>4, <1>5, <1>6, <1>7, LoseStep

(* A sequence of all elements of a set has each of them.                   *)
LEMMA SeqsOf ==
    ASSUME NEW S, IsFiniteSet(S), NEW q \in SetToSeqs(S)
    PROVE  q \in Seq(S) /\ IsInjective(q) /\ Range(q) = S
<1> DEFINE k == Cardinality(S)
<1>1. k \in Nat
  BY FS_CardinalityType
<1>2. q \in [1 .. k -> S] /\ \A i, j \in 1 .. k : i # j => q[i] # q[j]
  BY DEF SetToSeqs
<1>3. IsInjective(q)
  BY <1>2 DEF IsInjective
<1>4. q \in Injection(1 .. k, S)
  BY <1>2, <1>3 DEF Injection
<1>5. Cardinality(1 .. k) = k
  BY <1>1, FS_Interval
<1>6. q \in Surjection(1 .. k, S)
  BY <1>4, <1>5, FS_Injection
<1>7. Range(q) = S
  BY <1>2, <1>6 DEF Surjection, Range
<1> QED
  BY <1>1, <1>2, <1>3, <1>7

LEMMA RetireStep ==
    ASSUME IInv, Retire
    PROVE  IInv'
<1>1. /\ retired' = TRUE
      /\ Forget(Tracked)
      /\ UNCHANGED <<tables, thr, worker, wakeup>>
  BY DEF Retire
<1> DEFINE X == Freed(Tracked)
<1>2. PICK q \in SetToSeqs(X) : reg' = UnlinkAll(reg, q)
  BY DEF Retire
<1>3. X \subseteq Published
  BY FreedAre
<1>4. /\ Good(reg, tags) /\ In(reg) = Published
      /\ reg.sets = Cardinality(Published) /\ IsFiniteSet(Published)
      /\ Migrating(reg) => reg.cursor <= Len(reg.old)
  BY Current
<1> DEFINE Q == UnlinkAll(reg, q)
<1> HIDE DEF X
<1>5. q \in Seq(Published) /\ IsInjective(q) /\ Range(q) = X
  <2>1. IsFiniteSet(X)
    BY <1>3, <1>4, FS_Subset
  <2>2. q \in Seq(X) /\ IsInjective(q) /\ Range(q) = X
    BY <2>1, SeqsOf
  <2> QED
    BY <2>2, <1>3
<1>6. Less(reg, Q, X) /\ Q.sets = Cardinality(In(Q))
  BY <1>4, <1>5, UnlinkedAll
<1> HIDE DEF Q
<1>7. In(Q) = Published \ X
  BY <1>4, <1>6 DEF Less
<1>8. /\ Leaving(Q, X)
      /\ NumTables(Q) = NumTables(reg)
      /\ Migrating(Q) => Migrating(reg)
  BY <1>4, <1>6, <1>7, LessLeaves
<1>9. NumTables(reg) \in Nat /\ tables \in Nat
  <2>1. reg \in Registries
    BY <1>4, GoodParts
  <2> QED
    BY <2>1, TablesCounted, Current
<1>10. TablesKept(Q, 0)
  BY <1>1, <1>8, <1>9 DEF TablesKept
<1>11. OthersTyped
  BY <1>1 DEF OthersTyped, IInv, TypeInv
<1>12. reg' = Q
  BY <1>2 DEF Q
<1>13. MigrationHasWorker'
  BY <1>1, <1>8, <1>12, WorkerKept
<1> QED
  BY <1>1, <1>8, <1>10, <1>11, <1>12, <1>13, LoseStep DEF X

LEMMA NoRegistryGood ==
    ASSUME NEW g
    PROVE  /\ Good(NoRegistry, g) /\ In(NoRegistry) = {}
           /\ ~Migrating(NoRegistry)
           /\ NoRegistry.sets = 0 /\ NumTables(NoRegistry) = 0
<1>1. /\ NoTable \in Tables /\ InTable(NoTable) = {}
      /\ Len(NoTable) = 0 /\ DOMAIN NoTable = {} /\ Housed(NoTable, g)
  BY EmptyTable
<1>2. /\ NoRegistry.primary = NoTable /\ NoRegistry.old = NoTable
      /\ NoRegistry.cursor = 1 /\ NoRegistry.sets = 0
      /\ NoRegistry.generation = 0
  BY DEF NoRegistry
<1>3. NoRegistry \in Registries
  BY <1>1 DEF NoRegistry, Registries
<1>4. In(NoRegistry) = {} /\ ~Migrating(NoRegistry)
  BY <1>1, <1>2 DEF In, Migrating
<1>5. CursorOK(NoRegistry)
  BY <1>1, <1>2 DEF CursorOK
<1>6. SetsOK(NoRegistry, g)
  BY <1>1, <1>2, <1>4 DEF SetsOK
<1>7. Good(NoRegistry, g)
  BY <1>1, <1>2, <1>3, <1>5, <1>6 DEF Good
<1>8. NumTables(NoRegistry) = 0
  BY <1>2, <1>3, TablesCounted
<1> QED
  BY <1>2, <1>4, <1>7, <1>8

(* Nobody has anything, and there is nothing.                              *)
Empty ==
    /\ reg = NoRegistry /\ tables = 0
    /\ tags = [n \in Nodes |-> NoTags] /\ refs = [n \in Nodes |-> 0]
    /\ set = [o \in Objects |-> NoNode]
    /\ asked = [o \in Objects |-> NoTags]
    /\ thr = [t \in Threads |-> Idle]
    /\ worker = "asleep" /\ wakeup \in BOOLEAN /\ retired = FALSE

LEMMA EmptyInv == Empty => IInv
<1> SUFFICES ASSUME Empty PROVE IInv
  OBVIOUS
<1>0. /\ reg = NoRegistry /\ tables = 0
      /\ tags = [n \in Nodes |-> NoTags] /\ refs = [n \in Nodes |-> 0]
      /\ set = [o \in Objects |-> NoNode]
      /\ asked = [o \in Objects |-> NoTags]
      /\ thr = [t \in Threads |-> Idle]
      /\ worker = "asleep" /\ wakeup \in BOOLEAN /\ retired = FALSE
  BY DEF Empty
<1>1. /\ Good(reg, tags) /\ In(reg) = {} /\ ~Migrating(reg)
      /\ reg.sets = 0 /\ NumTables(reg) = 0
  BY <1>0, NoRegistryGood
<1>2. Published = {} /\ Tracked = {} /\ Allocated = {}
  BY <1>0, <1>1 DEF In, Published, Tracked, Allocated
<1>3. /\ thr \in [Threads -> ThreadStates]
      /\ \A t \in Threads :
             /\ Attacher(thr[t]) /\ thr[t].obj = NoNode
             /\ thr[t].cand = NoNode /\ thr[t].tables = 0 /\ ~thr[t].failed
  BY <1>0, IdleState
<1>4. Candidates = {}
  BY <1>3 DEF Candidates
<1>5. TypeInv
  <2>1. reg \in Registries
    BY <1>1, GoodParts
  <2> QED
    BY <2>1, <1>0, <1>3 DEF TypeInv
<1>6. RegInv
  BY <1>1 DEF RegInv
<1>7. SetInv
  BY <1>2 DEF SetInv
<1>8. RefsExact
  <2>1. \A n \in Nodes : HoldersOf(n, Tracked) = {} /\ refs[n] = 0
    BY <1>0, <1>2 DEF HoldersOf
  <2>2. \A n \in Nodes : refs[n] = Cardinality(HoldersOf(n, Tracked))
    BY <2>1, FS_EmptySet
  <2>3. Published = {n \in Nodes : refs[n] > 0}
    BY <1>0, <1>2
  <2>4. reg.sets = Cardinality(Published)
    BY <1>1, <1>2, FS_EmptySet
  <2> QED
    BY <2>2, <2>3, <2>4 DEF RefsExact
<1>9. AttachInv
  BY <1>3, Addresses DEF AttachInv
<1>10. CandInv
  BY <1>2, <1>3, <1>4 DEF CandInv
<1>11. TablesInv
  <2>1. InHands = 0
    BY <1>3, NoHands, HandsIs
  <2> QED
    BY <2>1, <1>0, <1>1 DEF TablesInv, NumTables
<1>12. MigrationHasWorker
  BY <1>1 DEF MigrationHasWorker
<1> QED
  BY <1>5, <1>6, <1>7, <1>8, <1>9, <1>10, <1>11, <1>12 DEF IInv

LEMMA InitInv == Init => IInv
<1>1. Init => Empty
  BY DEF Init, Empty
<1> QED
  BY <1>1, EmptyInv

LEMMA DetachAllStep ==
    ASSUME IInv, DetachAll
    PROVE  IInv'
<1>1. /\ \A t \in Threads : thr[t].pc = "idle"
      /\ reg' = NoRegistry
      /\ tables' = tables - NumTables(reg)
      /\ tags' = [n \in Nodes |-> IF n \in Published THEN NoTags ELSE tags[n]]
      /\ refs' = [n \in Nodes |->
                      refs[n] - Cardinality(HoldersOf(n, Tracked))]
      /\ set' = [o \in Objects |-> NoNode]
      /\ asked' = [o \in Objects |-> NoTags]
      /\ worker' = "asleep" /\ retired' = FALSE
      /\ thr' = thr /\ wakeup' = wakeup
  BY DEF DetachAll, At, NumTables
<1>2. thr \in [Threads -> ThreadStates] /\ \A t \in Threads : thr[t] = Idle
  BY <1>1 DEF IInv, TypeInv, AttachInv, Attacher
<1>3. thr' = [t \in Threads |-> Idle]
  BY <1>1, <1>2
<1>4. tables' = 0
  <2>1. Cardinality(Held(thr)) = 0
    BY <1>2, IdleState, NoHands
  <2>2. tables = NumTables(reg) + Cardinality(Held(thr)) /\ reg \in Registries
    BY Current, GoodParts
  <2>3. NumTables(reg) \in Nat
    BY <2>2, TablesCounted
  <2> QED
    BY <2>1, <2>2, <2>3, <1>1
<1>5. tags' = [n \in Nodes |-> NoTags]
  <2>1. Candidates = {}
    BY <1>2, IdleState DEF Candidates
  <2>2. Allocated = Published
    BY <2>1, Current
  <2>3. \A n \in Nodes : n \notin Published => tags[n] = NoTags
    BY <2>2 DEF Allocated
  <2> QED
    BY <2>3, <1>1
<1>6. refs' = [n \in Nodes |-> 0]
  <2>1. \A n \in Nodes : /\ refs[n] = Cardinality(HoldersOf(n, Tracked))
                         /\ refs[n] \in Nat
    BY DEF IInv, RefsExact, TypeInv
  <2>2. \A n \in Nodes : refs[n] - Cardinality(HoldersOf(n, Tracked)) = 0
    BY <2>1
  <2> QED
    BY <2>2, <1>1
<1>7. wakeup' \in BOOLEAN
  BY <1>1 DEF IInv, TypeInv
<1>8. Empty'
  BY <1>1, <1>3, <1>4, <1>5, <1>6, <1>7 DEF Empty
<1>9. Empty' => IInv'
  BY EmptyInv, PTL
<1> QED
  BY <1>8, <1>9

(***************************************************************************)
(* The invariant is inductive                                              *)
(***************************************************************************)
LEMMA StutterStep ==
    ASSUME IInv, UNCHANGED vars
    PROVE  IInv'
<1>1. UNCHANGED <<reg, tags, refs, tables, set, asked, thr, worker, wakeup,
                  retired>>
  BY DEF vars
<1>2. Renewed(reg) /\ reg \in Registries
  BY Current, GoodParts DEF Renewed
<1>3. NumTables(reg) \in Nat /\ tables \in Nat
  BY <1>2, TablesCounted, Current
<1>4. TablesKept(reg, 0)
  BY <1>1, <1>3 DEF TablesKept
<1>5. OthersTyped
  BY <1>1 DEF OthersTyped, IInv, TypeInv
<1>6. reg' = reg /\ UNCHANGED <<tags, refs, set, asked, thr>>
  BY <1>1
<1>7. MigrationHasWorker'
  BY <1>1, <1>6, WorkerKept
<1> QED
  BY <1>2, <1>4, <1>5, <1>6, <1>7, RegistryStep

LEMMA Inductive == IInv /\ [Next]_vars => IInv'
<1> SUFFICES ASSUME IInv, [Next]_vars PROVE IInv'
  OBVIOUS
<1>1. ASSUME NEW t \in Threads, NEW o \in Objects, NEW s \in TagSets,
             Begin(t, o, s)
      PROVE  IInv'
  BY <1>1, BeginStep
<1>2. ASSUME NEW t \in Threads, Try(t) PROVE IInv'
  BY <1>2, TryStep
<1>3. ASSUME NEW t \in Threads, Help(t) PROVE IInv'
  BY <1>3, HelpStep
<1>4. ASSUME NEW t \in Threads, TableReady(t) PROVE IInv'
  BY <1>4, TableReadyStep
<1>5. ASSUME NEW t \in Threads, TableFails(t) PROVE IInv'
  BY <1>5, TableFailsStep
<1>6. ASSUME NEW t \in Threads, NodeReady(t) PROVE IInv'
  BY <1>6, NodeReadyStep
<1>7. ASSUME NEW t \in Threads, NodeFails(t) PROVE IInv'
  BY <1>7, NodeFailsStep
<1>8. ASSUME NEW t \in Threads, Leave(t) PROVE IInv'
  BY <1>8, LeaveStep
<1>9. ASSUME NEW o \in Objects, Invalidate(o) PROVE IInv'
  BY <1>9, InvalidateStep
<1>10. ASSUME NEW o \in Objects, SweepKill(o) PROVE IInv'
  BY <1>10, SweepKillStep
<1>11. CASE Retire
  BY <1>11, RetireStep
<1>12. CASE DetachAll
  BY <1>12, DetachAllStep
<1>13. CASE WorkerWakes
  BY <1>13, WorkerWakesStep
<1>14. CASE WorkerBatch
  BY <1>14, WorkerBatchStep
<1>15. CASE UNCHANGED vars
  BY <1>15, StutterStep
<1> QED
  BY <1>1, <1>2, <1>3, <1>4, <1>5, <1>6, <1>7, <1>8, <1>9, <1>10, <1>11,
     <1>12, <1>13, <1>14, <1>15 DEF Next, AttachStep, Worker

LEMMA Invariant == Spec => []IInv
BY InitInv, Inductive, PTL DEF Spec

(***************************************************************************)
(* What follows from it                                                    *)
(***************************************************************************)
LEMMA ImpliesType == IInv => TypeOK
<1> SUFFICES ASSUME IInv PROVE TypeOK
  OBVIOUS
<1>1. /\ reg.primary \in Tables /\ reg.old \in Tables
      /\ reg.cursor \in Nat /\ reg.sets \in Nat /\ reg.generation \in Nat
      /\ CursorOK(reg)
      /\ Migrating(reg) => reg.cursor <= Len(reg.old)
  BY Current, GoodParts
<1>2. IsTable(reg.primary) /\ IsTable(reg.old)
  <2>1. ASSUME NEW T \in Tables, NEW b \in DOMAIN T
        PROVE  Range(T[b]) \subseteq Nodes
    BY Shape
  <2> QED
    BY <2>1, <1>1 DEF IsTable
<1>3. reg.cursor \in 1 .. IF Migrating(reg) THEN Len(reg.old) ELSE 1
  <2>1. Len(reg.old) \in Nat /\ reg.cursor \in 1 .. Len(reg.old) + 1
    BY <1>1, Shape DEF CursorOK
  <2>2. CASE Migrating(reg)
    BY <2>1, <2>2, <1>1
  <2>3. CASE ~Migrating(reg)
    <3>1. Len(reg.old) = 0
      BY <2>3, EmptyTable DEF Migrating
    <3> QED
      BY <3>1, <2>1, <2>3
  <2> QED
    BY <2>2, <2>3
<1>4. refs \in [Nodes -> 0 .. Cardinality(Objects)]
  <2>1. ASSUME NEW n \in Nodes PROVE refs[n] \in 0 .. Cardinality(Objects)
    <3>1. refs[n] = Cardinality(HoldersOf(n, Tracked)) /\ refs[n] \in Nat
      BY DEF IInv, RefsExact, TypeInv
    <3>2. HoldersOf(n, Tracked) \subseteq Objects
      BY DEF HoldersOf, Tracked
    <3>3. Cardinality(HoldersOf(n, Tracked)) <= Cardinality(Objects)
          /\ Cardinality(Objects) \in Nat
      BY <3>2, Finite, FS_Subset, FS_CardinalityType
    <3> QED
      BY <3>1, <3>3
  <2> QED
    BY <2>1 DEF IInv, TypeInv
<1> QED
  BY <1>1, <1>2, <1>3, <1>4 DEF IInv, TypeInv, TypeOK

LEMMA ImpliesOneSet == IInv => OneSetPerTags
<1> SUFFICES ASSUME IInv PROVE OneSetPerTags
  OBVIOUS
<1>1. /\ reg.primary \in Tables /\ reg.old \in Tables
      /\ Housed(reg.primary, tags) /\ Housed(reg.old, tags)
      /\ SetsOK(reg, tags) /\ In(reg) = Published
  BY Current, GoodParts
<1>2. \A m, n \in Published : tags[m] = tags[n] => m = n
  BY <1>1 DEF SetsOK
<1>3. ASSUME NEW n \in Published PROVE Cardinality(Places(n)) = 1
  <2>1. ASSUME NEW T \in {"primary", "old"}, n \in InTable(reg[T])
        PROVE  Cardinality(Places(n)) = 1
    <3>1. reg[T] \in Tables /\ Housed(reg[T], tags)
      BY <1>1
    <3>2. PICK b \in DOMAIN reg[T] : n \in Range(reg[T][b])
      BY <2>1, <3>1, Member
    <3>3. PICK i \in DOMAIN reg[T][b] : reg[T][b][i] = n
      BY <3>2 DEF Range
    <3>4. ASSUME NEW c \in Chains, NEW j \in DOMAIN reg[c[1]][c[2]],
                 reg[c[1]][c[2]][j] = n
          PROVE  c = <<T, b>> /\ j = i
      <4>1. PICK U \in {"primary", "old"} : c \in {U} \X DOMAIN reg[U]
        BY DEF Chains
      <4>2. c = <<U, c[2]>> /\ c[1] = U /\ c[2] \in DOMAIN reg[U]
        BY <4>1
      <4>3. n \in Range(reg[U][c[2]])
        BY <3>4, <4>2 DEF Range
      <4>4. reg[U] \in Tables
        BY <1>1
      <4>5. n \in InTable(reg[U])
        BY <4>2, <4>3, <4>4, Member
      <4>6. U = T
        BY <4>5, <2>1, <1>1 DEF SetsOK
      <4>7. c[2] = b
        BY <4>2, <4>3, <4>6, <3>1, <3>2, HousedAt
      <4>8. IsInjective(reg[T][b])
        BY <3>1 DEF Housed
      <4>9. j = i
        BY <4>2, <4>6, <4>7, <4>8, <3>3, <3>4 DEF IsInjective
      <4> QED
        BY <4>2, <4>6, <4>7, <4>9
    <3>5. <<T, b>> \in Chains
      BY DEF Chains
    <3>6. Places(n) = {<<<<T, b>>, i>>}
      BY <3>3, <3>4, <3>5 DEF Places
    <3> QED
      BY <3>6, FS_Singleton
  <2> QED
    BY <2>1, <1>1 DEF In
<1> QED
  BY <1>2, <1>3 DEF OneSetPerTags

LEMMA ImpliesFound == IInv => ReleaseFindsSet
<1> SUFFICES ASSUME IInv, NEW o \in Tracked
             PROVE  /\ tags[set[o]] = asked[o]
                    /\ set[o] \in InBucket(reg.primary, asked[o])
                                    \cup InBucket(reg.old, asked[o])
  BY DEF ReleaseFindsSet
<1>1. set[o] \in Published /\ set[o] \in Nodes /\ tags[set[o]] = asked[o]
  BY HolderPublished DEF IInv, SetInv
<1>2. /\ reg.primary \in Tables /\ reg.old \in Tables
      /\ Housed(reg.primary, tags) /\ Housed(reg.old, tags)
      /\ SetsOK(reg, tags) /\ In(reg) = Published
      /\ Published \subseteq Allocated
  BY Current, GoodParts
<1>3. asked[o] \in TagSets
  BY <1>1, <1>2 DEF SetsOK
<1>4. set[o] \in InTable(reg.primary) \/ set[o] \in InTable(reg.old)
  BY <1>1, <1>2 DEF In
<1>5. set[o] \in Allocated
  BY <1>1, <1>2
<1> QED
  BY <1>1, <1>2, <1>3, <1>4, <1>5, InBucketIs

LEMMA ImpliesNothingLeaked == IInv => NothingLeaked
BY DEF IInv, CandInv, TablesInv, NothingLeaked

(* The registry's fields keep their types and the cursor stays inside the  *)
(* old table, or at the start when there is none: the loop of              *)
(* cachetag_intern_migrate_step_locked indexes a bucket that exists.       *)
THEOREM InternTyped == Spec => []TypeOK
BY Invariant, ImpliesType, PTL

(* No two published sets have the same tags and no set is chained twice:   *)
(* an attach that lost a race for a table or a set finds what the winner   *)
(* published, whatever a migration has moved meanwhile.                    *)
THEOREM Interned == Spec => []OneSetPerTags
BY Invariant, ImpliesOneSet, PTL

(* cachetag_intern_release_locked never reaches its panic: a lost object's *)
(* set is in the bucket of its hash, in one of the tables.                 *)
THEOREM Releasable == Spec => []ReleaseFindsSet
BY Invariant, ImpliesFound, PTL

(* A set's count is the number of its objects, a set is published as long  *)
(* as it has one, and intern_sets counts the published sets.               *)
THEOREM RefsCounted == Spec => []RefsExact
<1>1. IInv => RefsExact
  BY DEF IInv
<1> QED
  BY <1>1, Invariant, PTL

(* Every structure and every table that was allocated is in the registry   *)
(* or in the hands of one thread that frees it when it has left the lock.  *)
THEOREM AllAccounted == Spec => []NothingLeaked
BY Invariant, ImpliesNothingLeaked, PTL

(* A migration is never forgotten: the worker is at work or is to be woken,*)
(* or an attach that will wake it has not left yet.                        *)
THEOREM MigrationAttended == Spec => []MigrationHasWorker
<1>1. IInv => MigrationHasWorker
  BY DEF IInv
<1> QED
  BY <1>1, Invariant, PTL

=============================================================================
