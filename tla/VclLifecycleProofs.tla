-------------------------- MODULE VclLifecycleProofs --------------------------
(***************************************************************************)
(* What VclLifecycle's runs check, for any number of VCLs, indexes and     *)
(* objects and any declarations.                                           *)
(*                                                                         *)
(* The six properties are not inductive.  What they rest on is where the   *)
(* CLI thread is: which of a VCL's declarations are namespaces of the list *)
(* (VclInv), what it has yet to do (TodoInv, ShapeInv), and which          *)
(* namespace or index it has taken half out of use (OwnedInv, FlagsInv,    *)
(* SweepInv).  SealInv is why a purge reaches every object: at the end of  *)
(* a warm event every index is sealed or shared by the VCL, and only a     *)
(* warm VCL's fetches add to an index.                                     *)
(***************************************************************************)
EXTENDS VclLifecycle, Integers, SequenceTheorems, WellFoundedInduction, TLAPS

(***************************************************************************)
(* Smallest elements                                                       *)
(***************************************************************************)
(* The order of the naturals, as a relation.                               *)
Below == {p \in Nat \X Nat : p[1] < p[2]}

(* No descent below zero goes on for ever.                                 *)
LEMMA BelowWellFounded == IsWellFoundedOn(Below, Nat)
BY NatLessThanWellFounded, Zenon DEF OpToRel, Below

(* Every non-empty set of naturals has a smallest element.                 *)
LEMMA Smallest ==
    ASSUME NEW S \in SUBSET Nat, S # {}
    PROVE  \E v \in S : \A w \in S : v <= w
<1>1. PICK v \in S : \A w \in S : <<w, v>> \notin Below
  BY BelowWellFounded, WFMin
<1>2. \A w \in S : w \in Nat /\ v \in Nat /\ ~(w < v)
  BY <1>1 DEF Below
<1> QED
  BY <1>2

(***************************************************************************)
(* The inductive invariant                                                 *)
(***************************************************************************)
(* The VCL that is being loaded or discarded, and how many of a VCL's      *)
(* declarations are namespaces of the list.                                *)
Building(v) == pc # "idle" /\ cur = v /\ op \in {"load", "discard"}
Built(v) == IF ~Building(v) THEN Len(program[v])
            ELSE IF pc = "add" \/ InHand # {} THEN N[2] - 1 ELSE N[2]

(* Which control points belong to which call; a failed warm-up undoes the  *)
(* namespace before it becomes another call.                               *)
ShapeInv ==
    /\ pc \in {"add", "unlist"} => op = "load"
    /\ pc \in {"start", "subscribe", "provider"} => op \in {"load", "warm"}
    /\ pc = "retire" => op = "warm"
    /\ pc = "remove" => op = "discard"
    /\ pc = "delete" => op \in {"load", "discard"}
    /\ pc \in {"mark", "stop", "kill", "release"} =>
          op \in IF failed THEN {"load", "warm"} ELSE {"cold", "discard"}
    /\ failed => pc \in {"mark", "stop", "kill", "release"}

(* What the CLI thread has yet to do.                                      *)
TodoInv ==
    /\ todo \in Seq(Namespaces)
    /\ pc \notin {"idle", "retire"} => todo # <<>>
    /\ pc = "retire" => todo = <<>>
    /\ pc # "idle" =>
        /\ op = "load" =>
            /\ N[2] >= 1
            /\ N[2] + Len(todo) = Len(program[cur]) + 1
            /\ \A k \in 1 .. Len(todo) : todo[k] = <<cur, N[2] + k - 1>>
        /\ op = "discard" =>
            \A k \in 1 .. Len(todo) : todo[k] = <<cur, Len(todo) - k + 1>>
        /\ op \in {"warm", "cold"} =>
            /\ \A k \in 1 .. Len(todo) : todo[k] \in Listed
            /\ todo # <<>> => N[1] = cur
        /\ op = "warm" => \A n \in Listed : n[1] = cur =>
            n \in warm \/ \E k \in 1 .. Len(todo) : todo[k] = n

(* A VCL's state, its declarations and its namespaces agree.               *)
VclInv ==
    /\ pc # "idle" =>
        /\ cur \in VCLs
        /\ temp[cur] # "warm"
        /\ op = "load" => temp[cur] = "none"
        /\ op \in {"warm", "cold"} => temp[cur] # "none"
    /\ \A v \in VCLs :
        program[v] = <<>> <=> temp[v] = "none" /\ ~Building(v)
    /\ \A v \in VCLs, k \in Nat :
        <<v, k>> \in Listed <=> 1 <= k /\ k <= Built(v)

(* The index of a namespace that is no longer listed goes with it, if no   *)
(* listed namespace uses it.                                               *)
OwnedInv ==
    /\ namespaces \in Seq(Namespaces)
    /\ DOMAIN index = Listed \cup InHand
    /\ InHand # {} => N \notin Listed /\ (last <=> UsersOf(I) = {})

(* A warm namespace is subscribed; others are only on the way.             *)
FlagsInv ==
    /\ warm \subseteq subscribed
    /\ subscribed \subseteq
          warm \cup IF pc \in {"provider", "mark"} THEN {N} ELSE {}
    /\ subscribed \subseteq Listed \cup IF pc = "mark" THEN {N} ELSE {}
    /\ pc \in {"stop", "kill", "release", "unlist", "delete"} => N \notin warm
    /\ pc = "start" /\ op = "load" => N \notin warm
    /\ pc = "provider" => N \in subscribed
    /\ \A v \in VCLs : temp[v] = "warm" =>
          \A n \in Listed : n[1] = v => n \in warm

InUse == {index[n] : n \in warm}

(* The current namespace's index may be swept without being in use.        *)
SweepInv ==
    /\ InUse \subseteq running
    /\ running \subseteq InUse \cup
          IF pc \in {"subscribe", "provider", "mark", "stop"} THEN {I} ELSE {}
    /\ pc \in {"subscribe", "provider"} => I \in running
    /\ pc \in {"stop", "kill"} => I \notin InUse

(* Objects are tracked by indexes in use.                                  *)
TrackInv ==
    /\ \A i \in Indexes : tracked[i] # {} =>
          /\ i \in live \ retired
          /\ i \in InUse \/ (pc \in {"stop", "kill"} /\ I = i)
    /\ \A o \in Objects : object[o] = "cached" =>
          \E i \in live : o \in tracked[i]
    /\ \A o \in Objects : object[o] = "fetched" =>
          owner[o] \in Listed /\ temp[owner[o][1]] = "warm"

(* Once warm, the newest VCL shares every index that can still grow.       *)
SealInv ==
    latest # NoVcl /\ temp[latest] = "warm" =>
        /\ \A n \in Listed : temp[n[1]] = "warm" =>
              index[n] \in retired \/ latest \in VclsOf(index[n])
        /\ \A i \in Indexes : tracked[i] # {} => latest \in VclsOf(i)

ProviderInv ==
    /\ active \cap Listed # {} => provider
    /\ provider => active # {} \/ pc \in {"stop", "kill", "release"}

IInv == /\ TypeOK /\ IndexesOwned
        /\ ShapeInv /\ TodoInv /\ VclInv /\ OwnedInv /\ FlagsInv
        /\ SweepInv /\ TrackInv /\ SealInv /\ ProviderInv

(* What is left of a list at the next namespace of a VCL: all the VCL's    *)
(* namespaces are in it, and one of them comes first.                      *)
LEMMA FromNext ==
    ASSUME NEW S, NEW s \in Seq(S), NEW v
    PROVE  /\ From(s, v) \in Seq(S)
           /\ Len(From(s, v)) \in Nat
           /\ From(s, v) # <<>> => Len(From(s, v)) >= 1 /\ From(s, v)[1][1] = v
           /\ \A k \in 1 .. Len(From(s, v)) :
                 \E j \in 1 .. Len(s) : From(s, v)[k] = s[j]
           /\ \A j \in 1 .. Len(s) : s[j][1] = v =>
                 \E k \in 1 .. Len(From(s, v)) : From(s, v)[k] = s[j]
<1> DEFINE found == {k \in 1 .. Len(s) : s[k][1] = v}
           first == CHOOSE k \in found : \A j \in found : k <= j
<1>0. Len(s) \in Nat /\ \A j \in 1 .. Len(s) : s[j] \in S
  BY LenProperties
<1>1. CASE found = {}
  <2>1. From(s, v) = <<>>
    BY <1>1 DEF From
  <2>2. \A j \in 1 .. Len(s) : s[j][1] # v
    BY <1>1
  <2> QED
    BY <2>1, <2>2
<1>2. CASE found # {}
  <2>1. first \in found /\ \A j \in found : first <= j
    <3>1. found \in SUBSET Nat
      BY <1>0
    <3> HIDE DEF found
    <3>2. \E k \in found : \A j \in found : k <= j
      BY <1>2, <3>1, Smallest
    <3> QED
      BY <3>2
  <2>2. From(s, v) = SubSeq(s, first, Len(s))
    BY <1>2 DEF From
  <2> DEFINE f == first
  <2> HIDE DEF first
  <2>3. f \in 1 .. Len(s) /\ s[f][1] = v
    BY <2>1
  <2>4. \A j \in 1 .. Len(s) : s[j][1] = v => f <= j
    BY <2>1
  <2>5. /\ From(s, v) \in Seq(S)
        /\ Len(From(s, v)) = Len(s) - f + 1
        /\ \A i \in 1 .. Len(s) - f + 1 : From(s, v)[i] = s[f + i - 1]
    <3> HIDE DEF f, found
    <3>1. \A i \in f .. Len(s) : s[i] \in S
      BY <1>0, <2>3
    <3>2. f \in Int /\ Len(s) \in Int /\ f <= Len(s)
      BY <1>0, <2>3
    <3>3. From(s, v) = SubSeq(s, f, Len(s))
      BY <2>2 DEF f
    <3> QED
      BY <3>1, <3>2, <3>3, SubSeqProperties
  <2> HIDE DEF f, found
  <2>6. \A k \in 1 .. Len(From(s, v)) :
           f + k - 1 \in 1 .. Len(s) /\ From(s, v)[k] = s[f + k - 1]
    BY <1>0, <2>3, <2>5
  <2>7. \A j \in f .. Len(s) :
           j - f + 1 \in 1 .. Len(From(s, v)) /\ From(s, v)[j - f + 1] = s[j]
    <3> TAKE j \in f .. Len(s)
    <3>1. j - f + 1 \in 1 .. Len(s) - f + 1 /\ f + (j - f + 1) - 1 = j
      BY <1>0, <2>3
    <3> QED
      BY <2>5, <3>1
  <2>8. Len(From(s, v)) >= 1 /\ From(s, v)[1][1] = v
    <3>1. f \in f .. Len(s) /\ f - f + 1 = 1
      BY <1>0, <2>3
    <3> QED
      BY <1>0, <2>3, <2>5, <2>7, <3>1
  <2>9. \A j \in 1 .. Len(s) : s[j][1] = v => j \in f .. Len(s)
    BY <1>0, <2>3, <2>4
  <2> QED
    BY <1>0, <2>3, <2>5, <2>6, <2>7, <2>8, <2>9
<1> QED
  BY <1>1, <1>2

(* A walk that starts at a namespace of the VCL starts there.              *)
LEMMA FromHere ==
    ASSUME NEW S, NEW s \in Seq(S), NEW v, s # <<>>, s[1][1] = v
    PROVE  From(s, v) = s
<1> DEFINE found == {k \in 1 .. Len(s) : s[k][1] = v}
           first == CHOOSE k \in found : \A j \in found : k <= j
<1>1. Len(s) \in Nat /\ Len(s) >= 1
  BY EmptySeq
<1>2. 1 \in found /\ \A k \in found : k \in Nat /\ 1 <= k
  BY <1>1
<1>3. first = 1
  <2>1. first \in found /\ \A j \in found : first <= j
    <3> HIDE DEF found
    <3> QED
      BY <1>2
  <2> QED
    BY <1>2, <2>1
<1>4. From(s, v) = SubSeq(s, 1, Len(s))
  BY <1>2, <1>3 DEF From
<1> QED
  BY <1>4, SubSeqFull

(* The entries of two lists end to end.                                    *)
LEMMA Joined ==
    ASSUME NEW S, NEW p \in Seq(S), NEW q \in Seq(S)
    PROVE  /\ p \o q \in Seq(S) /\ Len(p \o q) = Len(p) + Len(q)
           /\ \A i \in 1 .. Len(p) + Len(q) :
                 (p \o q)[i] = IF i <= Len(p) THEN p[i] ELSE q[i - Len(p)]
BY ConcatProperties

(* Taking one entry out of a list without duplicates.                      *)
LEMMA RemoveOne ==
    ASSUME NEW S, NEW s \in Seq(S), NEW k \in 1 .. Len(s),
           \A a, b \in 1 .. Len(s) : s[a] = s[b] => a = b
    PROVE  LET t == RemoveAt(s, k) IN
           /\ t \in Seq(S)
           /\ \A a, b \in 1 .. Len(t) : t[a] = t[b] => a = b
           /\ {t[a] : a \in 1 .. Len(t)} = {s[a] : a \in 1 .. Len(s)} \ {s[k]}
<1> DEFINE t == RemoveAt(s, k)
           p == SubSeq(s, 1, k - 1)
           q == SubSeq(s, k + 1, Len(s))
<1>0. Len(s) \in Nat /\ k \in Int /\ \A j \in 1 .. Len(s) : s[j] \in S
  BY LenProperties
<1>1. /\ p \in Seq(S) /\ Len(p) = k - 1
      /\ \A i \in 1 .. k - 1 : p[i] = s[i]
  <2>1. \A i \in 1 .. k - 1 : s[i] \in S
    BY <1>0
  <2>2. k - 1 \in Int /\ 1 \in Int
    BY <1>0
  <2>3. /\ SubSeq(s, 1, k - 1) \in Seq(S)
        /\ Len(SubSeq(s, 1, k - 1)) = IF 1 <= k - 1 THEN k - 1 - 1 + 1 ELSE 0
        /\ \A i \in 1 .. k - 1 - 1 + 1 : SubSeq(s, 1, k - 1)[i] = s[1 + i - 1]
    BY <2>1, <2>2, SubSeqProperties
  <2> HIDE DEF p
  <2>4. p = SubSeq(s, 1, k - 1)
    BY DEF p
  <2> QED
    BY <1>0, <2>3, <2>4
<1>2. /\ q \in Seq(S) /\ Len(q) = Len(s) - k
      /\ \A i \in 1 .. Len(s) - k : q[i] = s[k + i]
  <2>1. \A i \in k + 1 .. Len(s) : s[i] \in S
    BY <1>0
  <2>2. k + 1 \in Int /\ Len(s) \in Int
    BY <1>0
  <2>3. /\ SubSeq(s, k + 1, Len(s)) \in Seq(S)
        /\ Len(SubSeq(s, k + 1, Len(s))) =
              IF k + 1 <= Len(s) THEN Len(s) - (k + 1) + 1 ELSE 0
        /\ \A i \in 1 .. Len(s) - (k + 1) + 1 :
              SubSeq(s, k + 1, Len(s))[i] = s[k + 1 + i - 1]
    BY <2>1, <2>2, SubSeqProperties
  <2> HIDE DEF q
  <2>4. q = SubSeq(s, k + 1, Len(s))
    BY DEF q
  <2> QED
    BY <1>0, <2>3, <2>4
<1>3. t = p \o q
  BY DEF RemoveAt
<1> HIDE DEF t, p, q
<1>4. /\ t \in Seq(S) /\ Len(t) = Len(s) - 1
      /\ \A i \in 1 .. Len(s) - 1 : t[i] = IF i < k THEN s[i] ELSE s[i + 1]
  <2>1. /\ t \in Seq(S) /\ Len(t) = Len(p) + Len(q)
        /\ \A i \in 1 .. Len(p) + Len(q) :
              t[i] = IF i <= Len(p) THEN p[i] ELSE q[i - Len(p)]
    <3>1. /\ p \o q \in Seq(S) /\ Len(p \o q) = Len(p) + Len(q)
          /\ \A i \in 1 .. Len(p) + Len(q) :
                (p \o q)[i] = IF i <= Len(p) THEN p[i] ELSE q[i - Len(p)]
      <4>1. p \in Seq(S) /\ q \in Seq(S)
        BY <1>1, <1>2
      <4> QED
        BY <4>1, Joined
    <3> QED
      BY <1>3, <3>1
  <2>2. Len(t) = Len(s) - 1
    BY <1>0, <1>1, <1>2, <2>1
  <2>3. ASSUME NEW i \in 1 .. Len(s) - 1
        PROVE  t[i] = IF i < k THEN s[i] ELSE s[i + 1]
    <3>1. t[i] = IF i <= k - 1 THEN p[i] ELSE q[i - (k - 1)]
      BY <1>0, <1>1, <1>2, <2>1
    <3>2. CASE i < k
      BY <1>0, <1>1, <3>1, <3>2
    <3>3. CASE i >= k
      <4>1. i - (k - 1) \in 1 .. Len(s) - k /\ k + (i - (k - 1)) = i + 1
        BY <1>0, <3>3
      <4> QED
        BY <1>0, <1>2, <3>1, <3>3, <4>1
    <3> QED
      BY <1>0, <3>2, <3>3
  <2> QED
    BY <2>1, <2>2, <2>3
<1>5. ASSUME NEW a \in 1 .. Len(t)
      PROVE  \E j \in 1 .. Len(s) : j # k /\ t[a] = s[j]
  <2>1. CASE a < k
    BY SMTT(60), <1>0, <1>4, <2>1
  <2>2. CASE a >= k
    <3>1. a + 1 \in 1 .. Len(s) /\ a + 1 # k /\ t[a] = s[a + 1]
      BY <1>0, <1>4, <2>2
    <3> QED
      BY <3>1
  <2> QED
    BY <1>0, <1>4, <2>1, <2>2
<1>6. ASSUME NEW j \in 1 .. Len(s), j # k
      PROVE  \E a \in 1 .. Len(t) : t[a] = s[j]
  <2>1. CASE j < k
    <3>1. j \in 1 .. Len(t) /\ t[j] = s[j]
      BY <1>0, <1>4, <2>1
    <3> QED
      BY <3>1
  <2>2. CASE j > k
    <3>1. j - 1 \in 1 .. Len(t) /\ ~(j - 1 < k) /\ j - 1 + 1 = j
      BY <1>0, <1>4, <2>2
    <3>2. t[j - 1] = s[j]
      BY <1>0, <1>4, <3>1
    <3> QED
      BY <3>1, <3>2
  <2> QED
    BY <1>0, <1>6, <2>1, <2>2
<1>7. \A a, b \in 1 .. Len(t) : t[a] = t[b] => a = b
  <2> TAKE a, b \in 1 .. Len(t)
  <2> HAVE t[a] = t[b]
  <2> DEFINE at(i) == IF i < k THEN i ELSE i + 1
  <2>1. /\ at(a) \in 1 .. Len(s) /\ at(b) \in 1 .. Len(s)
        /\ t[a] = s[at(a)] /\ t[b] = s[at(b)]
    BY <1>0, <1>4
  <2>2. at(a) = at(b)
    <3> HIDE DEF at
    <3> QED
      BY <2>1
  <2> QED
    BY <1>0, <1>4, <2>2
<1>8. {t[a] : a \in 1 .. Len(t)} = {s[a] : a \in 1 .. Len(s)} \ {s[k]}
  <2>1. ASSUME NEW a \in 1 .. Len(t)
        PROVE  t[a] \in {s[j] : j \in 1 .. Len(s)} \ {s[k]}
    BY <1>5
  <2>2. ASSUME NEW j \in 1 .. Len(s), s[j] # s[k]
        PROVE  s[j] \in {t[a] : a \in 1 .. Len(t)}
    BY <1>6, <2>2
  <2> QED
    BY <2>1, <2>2
<1> QED
  BY <1>4, <1>7, <1>8 DEF t

(***************************************************************************)
(* The current namespace                                                   *)
(***************************************************************************)
LEMMA Current ==
    ASSUME IInv
    PROVE  /\ Listed \subseteq Namespaces
           /\ Listed \subseteq DOMAIN index
           /\ pc \notin {"idle", "retire"} =>
                /\ cur \in VCLs /\ N[1] = cur /\ N \in Namespaces
                /\ N[2] \in Nat /\ N[2] >= 1 /\ N = <<cur, N[2]>>
                /\ todo # <<>> /\ Len(todo) \in Nat /\ Len(todo) >= 1
                /\ todo[1] = N
                /\ pc = "add" => N \notin DOMAIN index
                /\ pc # "add" => N \in DOMAIN index /\ I \in live
                /\ pc # "add" /\ InHand = {} => N \in Listed
<1>1. Listed \subseteq DOMAIN index /\ DOMAIN index \subseteq Namespaces
  BY DEF IInv, TypeOK
<1> SUFFICES ASSUME pc \notin {"idle", "retire"}
             PROVE  /\ cur \in VCLs /\ N[1] = cur /\ N \in Namespaces
                    /\ N[2] \in Nat /\ N[2] >= 1 /\ N = <<cur, N[2]>>
                    /\ todo # <<>> /\ Len(todo) \in Nat /\ Len(todo) >= 1
                    /\ todo[1] = N
                    /\ pc = "add" => N \notin DOMAIN index
                    /\ pc # "add" => N \in DOMAIN index /\ I \in live
                    /\ pc # "add" /\ InHand = {} => N \in Listed
  BY <1>1
<1>2. cur \in VCLs /\ todo \in Seq(Namespaces) /\ todo # <<>>
  BY DEF IInv, VclInv, TodoInv
<1>3. Len(todo) \in Nat /\ Len(todo) >= 1 /\ todo[1] = N /\ N \in Namespaces
  BY <1>2, EmptySeq, ElementOfSeq DEF N
<1>4. N \in VCLs \X Nat
  BY <1>3 DEF Namespaces
<1>5. op \in {"load", "warm", "cold", "discard"}
  BY DEF IInv, TypeOK
<1>6. N[1] = cur /\ N[2] >= 1 /\ (op \in {"warm", "cold"} => N \in Listed)
  <2>1. CASE op = "load"
    BY <1>3, <2>1 DEF IInv, TodoInv
  <2>2. CASE op = "discard"
    BY <1>3, <2>2 DEF IInv, TodoInv
  <2>3. CASE op \in {"warm", "cold"}
    <3>1. N[1] = cur /\ N \in Listed
      BY <1>2, <1>3, <2>3 DEF IInv, TodoInv
    <3>2. <<cur, N[2]>> \in Listed /\ N[2] \in Nat
      BY <1>4, <3>1
    <3>3. 1 <= N[2]
      BY <1>2, <3>2 DEF IInv, VclInv
    <3> QED
      BY <3>1, <3>3, <1>4
  <2> QED
    BY <1>5, <2>1, <2>2, <2>3
<1>7. N = <<cur, N[2]>> /\ N[2] \in Nat
  BY <1>4, <1>6
<1>8. /\ pc = "add" => N \notin Listed
      /\ pc # "add" /\ InHand = {} => N \in Listed
  <2>1. N \in Listed <=> N[2] <= Built(cur)
    BY <1>2, <1>6, <1>7 DEF IInv, VclInv
  <2>2. CASE op \in {"load", "discard"}
    BY <1>6, <1>7, <2>1, <2>2 DEF Built, Building
  <2>3. CASE op \in {"warm", "cold"}
    BY <1>6, <2>3 DEF IInv, ShapeInv
  <2> QED
    BY <1>5, <2>2, <2>3
<1>9. pc = "add" => N \notin DOMAIN index
  BY <1>8 DEF IInv, OwnedInv, InHand
<1>10. pc # "add" => N \in DOMAIN index /\ I \in live
  <2>1. pc # "add" => N \in DOMAIN index
    BY <1>8 DEF IInv, OwnedInv, InHand
  <2>2. Range(index) \subseteq live
    BY DEF IInv, TypeOK
  <2> QED
    BY <2>1, <2>2 DEF Range, I
<1> QED
  BY <1>2, <1>3, <1>6, <1>7, <1>8, <1>9, <1>10

LEMMA Declarations ==
    ASSUME IInv, NEW v \in VCLs
    PROVE  /\ program[v] \in Seq(Settings) /\ Len(program[v]) \in Nat
           /\ program[v] = <<>> <=> Len(program[v]) = 0
<1>1. program[v] \in Seq(Settings)
  <2>1. program[v] \in Programs \cup {<<>>}
    BY DEF IInv, TypeOK
  <2>2. <<>> \in Seq(Settings)
    BY EmptySeq
  <2> QED
    BY <2>1, <2>2, ProgramsDeclare
<1> QED
  BY <1>1, EmptySeq

LEMMA MarkColdKeeps == ASSUME IInv, MarkCold PROVE IInv'
<1> USE DEF MarkCold, registry, indexes, cache, cli, N, I
<1>1. TypeOK' /\ IndexesOwned'
  BY DEF IInv, TypeOK, IndexesOwned, InHand, Listed
<1>2. ShapeInv'
  BY DEF IInv, ShapeInv
<1>3. TodoInv'
  BY Current DEF IInv, TodoInv, ShapeInv, Listed
<1>4. VclInv'
  BY ZenonT(120) DEF IInv, VclInv, ShapeInv, Listed, Built, Building, InHand
<1>5. OwnedInv'
  <2>1. InHand' = InHand /\ Listed' = Listed /\ UsersOf(I)' = UsersOf(I)
    BY DEF InHand, Listed, UsersOf
  <2>2. /\ N' = N /\ index' = index /\ namespaces' = namespaces
        /\ last' <=> last
    OBVIOUS
  <2>3. OwnedInv
    BY DEF IInv
  <2> HIDE DEF MarkCold, N, I
  <2> QED
    BY <2>1, <2>2, <2>3 DEF OwnedInv
<1>6. FlagsInv'
  <2>1. FlagsInv /\ VclInv
    BY DEF IInv
  <2>2. Listed' = Listed
    BY DEF Listed
  <2>3. N[1] = cur /\ temp[cur] # "warm" /\ pc' # "start" /\ pc' # "mark"
    BY <2>1, Current DEF VclInv
  <2>4. \A v \in VCLs : temp'[v] = "warm" =>
            \A n \in Listed : n[1] = v => n \in warm'
    BY <2>1, <2>3 DEF FlagsInv
  <2> QED
    BY <2>1, <2>2, <2>3, <2>4 DEF FlagsInv
<1>7. SweepInv'
  BY Current DEF IInv, SweepInv, InUse, WarmPeer, FlagsInv, Listed
<1>8. TrackInv'
  BY Current DEF IInv, TrackInv, InUse, WarmPeer, FlagsInv, Listed
<1>9. SealInv'
  BY DEF IInv, SealInv, Listed, VclsOf, UsersOf
<1>10. ProviderInv'
  BY DEF IInv, ProviderInv, Listed
<1> QED
  BY <1>1, <1>2, <1>3, <1>4, <1>5, <1>6, <1>7, <1>8, <1>9, <1>10 DEF IInv

LEMMA IndexStopKeeps == ASSUME IInv, IndexStop PROVE IInv'
<1> USE DEF IndexStop, registry, flags, cache, cli, N, I
<1>1. TypeOK' /\ IndexesOwned'
  BY DEF IInv, TypeOK, IndexesOwned, InHand, Listed
<1>2. ShapeInv'
  BY DEF IInv, ShapeInv
<1>3. TodoInv'
  BY Current DEF IInv, TodoInv, ShapeInv, Listed
<1>4. VclInv'
  BY ZenonT(120) DEF IInv, VclInv, ShapeInv, Listed, Built, Building, InHand
<1>5. OwnedInv'
  <2>1. InHand' = InHand /\ Listed' = Listed /\ UsersOf(I)' = UsersOf(I)
    BY DEF InHand, Listed, UsersOf
  <2> QED
    BY <2>1 DEF IInv, OwnedInv
<1>6. FlagsInv'
  BY Current DEF IInv, FlagsInv, VclInv, Listed
<1>7. SweepInv'
  BY Current DEF IInv, SweepInv, InUse, FlagsInv, Listed
<1>8. TrackInv'
  BY Current DEF IInv, TrackInv, InUse, FlagsInv, Listed
<1>9. SealInv'
  BY DEF IInv, SealInv, Listed, VclsOf, UsersOf
<1>10. ProviderInv'
  BY DEF IInv, ProviderInv, Listed
<1> QED
  BY <1>1, <1>2, <1>3, <1>4, <1>5, <1>6, <1>7, <1>8, <1>9, <1>10 DEF IInv

LEMMA KillAllKeeps == ASSUME IInv, KillAll PROVE IInv'
<1> USE DEF KillAll, registry, flags, indexes, cli, N, I
<1>0. tracked' = [tracked EXCEPT ![I] = {}] /\ I \in Indexes
      /\ tracked \in [Indexes -> SUBSET Objects]
  BY Current DEF IInv, TypeOK
<1>1. TypeOK' /\ IndexesOwned'
  <2>1. IndexesOwned'
    BY DEF IInv, IndexesOwned, InHand, Listed
  <2>2. tracked' \in [Indexes -> SUBSET Objects]
    BY <1>0
  <2>3. \A i \in Indexes \ live : tracked'[i] = {}
    BY <1>0 DEF IInv, TypeOK
  <2>4. /\ object' \in [Objects -> {"none", "fetched", "cached", "dying"}]
        /\ \A o \in Objects : object'[o] = "fetched" <=> object[o] = "fetched"
    BY DEF IInv, TypeOK, Killed
  <2> QED
    BY <2>1, <2>2, <2>3, <2>4 DEF IInv, TypeOK, Listed
<1>2. ShapeInv'
  BY DEF IInv, ShapeInv
<1>3. TodoInv'
  BY Current DEF IInv, TodoInv, ShapeInv, Listed
<1>4. VclInv'
  BY ZenonT(120) DEF IInv, VclInv, ShapeInv, Listed, Built, Building, InHand
<1>5. OwnedInv'
  <2>1. InHand' = InHand /\ Listed' = Listed /\ UsersOf(I)' = UsersOf(I)
    BY DEF InHand, Listed, UsersOf
  <2> QED
    BY <2>1 DEF IInv, OwnedInv
<1>6. FlagsInv'
  BY Current DEF IInv, FlagsInv, VclInv, Listed
<1>7. SweepInv'
  BY Current DEF IInv, SweepInv, InUse, FlagsInv, Listed
<1>8. TrackInv'
  <2>1. \A i \in Indexes : tracked'[i] = IF i = I THEN {} ELSE tracked[i]
    BY <1>0
  <2>2. \A o \in Objects :
            object'[o] = IF o \in tracked[I] /\ object[o] = "cached"
                                       THEN "dying" ELSE object[o]
    BY DEF Killed
  <2>3. live \subseteq Indexes
    BY DEF IInv, TypeOK
  <2> QED
    BY <2>1, <2>2, <2>3, <1>0 DEF IInv, TrackInv, InUse, Listed
<1>9. SealInv'
  BY <1>0 DEF IInv, SealInv, Listed, VclsOf, UsersOf
<1>10. ProviderInv'
  BY DEF IInv, ProviderInv, Listed
<1> QED
  BY <1>1, <1>2, <1>3, <1>4, <1>5, <1>6, <1>7, <1>8, <1>9, <1>10 DEF IInv

(***************************************************************************)
(* Requests and objects                                                    *)
(***************************************************************************)

(* What requests do leaves the registry and the CLI thread alone.          *)
LEMMA RequestKeeps ==
    ASSUME IInv,
           UNCHANGED <<temp, program, registry, flags, indexes, provider, pc,
                       cli, latest>>
    PROVE  /\ IndexesOwned' /\ ShapeInv' /\ TodoInv' /\ VclInv' /\ OwnedInv'
           /\ FlagsInv' /\ SweepInv' /\ ProviderInv'
           /\ Listed' = Listed /\ InUse' = InUse /\ I' = I
           /\ \A i : VclsOf(i)' = VclsOf(i)
<1> USE DEF registry, flags, indexes, cli, N, I
<1>1. Listed' = Listed /\ InUse' = InUse /\ I' = I /\ InHand' = InHand
      /\ (\A i : UsersOf(i)' = UsersOf(i)) /\ (\A i : VclsOf(i)' = VclsOf(i))
      /\ \A v : Built(v)' = Built(v) /\ (Building(v)' <=> Building(v))
  BY DEF Listed, InUse, InHand, UsersOf, VclsOf, Built, Building
<1>2. IndexesOwned' /\ ShapeInv' /\ ProviderInv'
  BY <1>1 DEF IInv, IndexesOwned, ShapeInv, ProviderInv
<1>3. TodoInv' /\ FlagsInv'
  BY <1>1 DEF IInv, TodoInv, FlagsInv
<1>4. VclInv'
  BY <1>1 DEF IInv, VclInv
<1>5. OwnedInv' /\ SweepInv'
  BY <1>1 DEF IInv, OwnedInv, SweepInv
<1> QED
  BY <1>1, <1>2, <1>3, <1>4, <1>5

(* An object is fetched for a namespace of a warm VCL.                     *)
LEMMA FetchKeeps ==
    ASSUME IInv, NEW o \in Objects, NEW n \in Listed, Fetch(o, n) PROVE IInv'
<1>1. UNCHANGED <<temp, program, registry, flags, indexes, provider, pc,
                  cli, latest, tracked>>
  BY DEF Fetch
<1>2. /\ IndexesOwned' /\ ShapeInv' /\ TodoInv' /\ VclInv' /\ OwnedInv'
      /\ FlagsInv' /\ SweepInv' /\ ProviderInv'
      /\ Listed' = Listed /\ InUse' = InUse /\ I' = I
      /\ \A i : VclsOf(i)' = VclsOf(i)
  BY <1>1, RequestKeeps
<1>3. /\ DOMAIN owner' = DOMAIN owner \cup {o}
      /\ owner'[o] = n
      /\ \A x \in DOMAIN owner : owner'[x] = owner[x]
      /\ object' = [object EXCEPT ![o] = "fetched"]
      /\ object[o] = "none" /\ temp[n[1]] = "warm"
  <2>1. o \notin DOMAIN owner
    BY DEF Fetch, IInv, TypeOK
  <2> QED
    BY <2>1 DEF Fetch, With
<1>4. TypeOK'
  BY <1>1, <1>2, <1>3 DEF IInv, TypeOK, registry, flags, indexes, cli, Listed
<1>5. TrackInv'
  BY <1>1, <1>2, <1>3 DEF IInv, TypeOK, TrackInv, registry, flags, indexes, cli
<1>6. SealInv'
  BY <1>1, <1>2 DEF IInv, SealInv, registry, flags, indexes, cli
<1> QED
  BY <1>2, <1>4, <1>5, <1>6 DEF IInv

(* An index takes an object only if it is not sealed; then the newest      *)
(* VCL shares it.                                                          *)
LEMMA InsertKeeps ==
    ASSUME IInv, NEW o \in Objects, Insert(o) PROVE IInv'
<1>1. UNCHANGED <<temp, program, registry, flags, indexes, provider, pc,
                  cli, latest>>
  BY DEF Insert
<1>2. /\ IndexesOwned' /\ ShapeInv' /\ TodoInv' /\ VclInv' /\ OwnedInv'
      /\ FlagsInv' /\ SweepInv' /\ ProviderInv'
      /\ Listed' = Listed /\ InUse' = InUse /\ I' = I
      /\ \A i : VclsOf(i)' = VclsOf(i)
  BY <1>1, RequestKeeps
<1> DEFINE n == owner[o]
           i == index[n]
<1>3. /\ object[o] = "fetched" /\ n \in Listed /\ temp[n[1]] = "warm"
      /\ n[1] \in VCLs /\ n \in DOMAIN index
  BY Current DEF Insert, IInv, TrackInv, Namespaces
<1>4. n \in warm /\ i \in InUse /\ i \in live /\ i \in Indexes
  BY <1>3 DEF IInv, FlagsInv, TypeOK, InUse, Range
<1>5. /\ DOMAIN owner' = DOMAIN owner \ {o}
      /\ \A x \in DOMAIN owner \ {o} : owner'[x] = owner[x]
  BY DEF Insert, Restrict
<1>6. /\ object' \in [Objects -> {"none", "fetched", "cached", "dying"}]
      /\ \A x \in Objects \ {o} : object'[x] = object[x]
      /\ object'[o] = IF i \in retired THEN "dying" ELSE "cached"
      /\ tracked' \in [Indexes -> SUBSET Objects]
      /\ \A j \in Indexes : tracked'[j] =
            IF j = i /\ i \notin retired THEN tracked[j] \cup {o}
            ELSE tracked[j]
  <2>1. /\ object \in [Objects -> {"none", "fetched", "cached", "dying"}]
        /\ tracked \in [Indexes -> SUBSET Objects]
    BY DEF IInv, TypeOK
  <2>2. CASE i \in retired
    BY <2>1, <2>2 DEF Insert
  <2>3. CASE i \notin retired
    <3>1. /\ object' = [object EXCEPT ![o] = "cached"]
          /\ tracked' = [tracked EXCEPT ![i] = tracked[i] \cup {o}]
      BY <2>3 DEF Insert
    <3> HIDE DEF i
    <3> QED
      BY <2>1, <2>3, <3>1, <1>4
  <2> QED
    BY <2>2, <2>3
<1> HIDE DEF i, n
<1>7. TypeOK'
  <2>1. DOMAIN owner' = {x \in Objects : object'[x] = "fetched"}
    BY <1>5, <1>6 DEF IInv, TypeOK
  <2>2. \A j \in Indexes \ live : tracked'[j] = {}
    BY <1>4, <1>6 DEF IInv, TypeOK
  <2> QED
    BY <1>1, <1>2, <1>6, <2>1, <2>2
       DEF IInv, TypeOK, registry, flags, indexes, cli, Listed
<1>8. TrackInv'
  <2>1. \A j \in Indexes : tracked'[j] # {} =>
          /\ j \in live' \ retired'
          /\ j \in InUse' \/ (pc' \in {"stop", "kill"} /\ I' = j)
    BY <1>1, <1>2, <1>4, <1>6 DEF IInv, TrackInv, indexes
  <2>2. \A x \in Objects : object'[x] = "cached" =>
          \E j \in live' : x \in tracked'[j]
    <3> TAKE x \in Objects
    <3> HAVE object'[x] = "cached"
    <3>1. live' = live /\ live \subseteq Indexes
      BY <1>1 DEF IInv, TypeOK, indexes
    <3>2. CASE x = o
      BY <3>1, <3>2, <1>4, <1>6
    <3>3. CASE x # o
      <4>1. PICK j \in live : x \in tracked[j]
        BY <3>3, <1>6 DEF IInv, TrackInv
      <4> QED
        BY <3>1, <4>1, <1>6
    <3> QED
      BY <3>2, <3>3
  <2>3. \A x \in Objects : object'[x] = "fetched" =>
          owner'[x] \in Listed' /\ temp'[owner'[x][1]] = "warm"
    <3>1. \A x \in Objects : object'[x] = "fetched" =>
             x # o /\ object[x] = "fetched" /\ owner'[x] = owner[x]
      BY <1>5, <1>6 DEF IInv, TypeOK
    <3> QED
      BY <1>1, <1>2, <3>1 DEF IInv, TrackInv
  <2> QED
    BY <2>1, <2>2, <2>3 DEF TrackInv
<1>9. SealInv'
  <2>1. latest # NoVcl /\ temp[latest] = "warm" /\ i \notin retired =>
            latest \in VclsOf(i)
    BY <1>3 DEF IInv, SealInv, i
  <2> QED
    BY <1>1, <1>2, <1>6, <2>1 DEF IInv, SealInv, registry, indexes
<1> QED
  BY <1>2, <1>7, <1>8, <1>9 DEF IInv

(* An index forgets an object at the latest when the object leaves.        *)
LEMMA ExpireKeeps ==
    ASSUME IInv, NEW o \in Objects, Expire(o) PROVE IInv'
<1>1. UNCHANGED <<temp, program, registry, flags, indexes, provider, pc,
                  cli, latest, owner>>
  BY DEF Expire
<1>2. /\ IndexesOwned' /\ ShapeInv' /\ TodoInv' /\ VclInv' /\ OwnedInv'
      /\ FlagsInv' /\ SweepInv' /\ ProviderInv'
      /\ Listed' = Listed /\ InUse' = InUse /\ I' = I
      /\ \A i : VclsOf(i)' = VclsOf(i)
  BY <1>1, RequestKeeps
<1>3. /\ object[o] \in {"cached", "dying"}
      /\ object' \in [Objects -> {"none", "fetched", "cached", "dying"}]
      /\ \A x \in Objects : object'[x] = IF x = o THEN "none" ELSE object[x]
      /\ tracked' \in [Indexes -> SUBSET Objects]
      /\ \A j \in Indexes : /\ tracked'[j] \subseteq tracked[j]
                            /\ tracked[j] \ {o} \subseteq tracked'[j]
  BY DEF Expire, IInv, TypeOK
<1>4. TypeOK'
  BY <1>1, <1>2, <1>3 DEF IInv, TypeOK, registry, flags, indexes, cli, Listed
<1>5. TrackInv'
  <2>1. \A x \in Objects : object'[x] = "cached" =>
          \E j \in live' : x \in tracked'[j]
    <3> TAKE x \in Objects
    <3> HAVE object'[x] = "cached"
    <3>1. /\ x # o /\ object[x] = "cached"
          /\ live' = live /\ live \subseteq Indexes
      BY <1>1, <1>3 DEF IInv, TypeOK, indexes
    <3>2. PICK j \in live : x \in tracked[j]
      BY <3>1 DEF IInv, TrackInv
    <3> QED
      BY <3>1, <3>2, <1>3
  <2> QED
    BY <1>1, <1>2, <1>3, <2>1 DEF IInv, TrackInv, indexes
<1>6. SealInv'
  BY <1>1, <1>2, <1>3 DEF IInv, SealInv, registry, indexes
<1> QED
  BY <1>2, <1>4, <1>5, <1>6 DEF IInv

(***************************************************************************)
(* The CLI thread is done with a namespace                                 *)
(***************************************************************************)

(* The rest of the work: the current namespace is dropped, none of the     *)
(* VCL's others is.                                                        *)
LEMMA Rest ==
    ASSUME IInv, pc \notin {"idle", "retire"}, todo' = From(Tail(todo), cur)
    PROVE  /\ todo' \in Seq(Namespaces) /\ Len(todo') \in Nat
           /\ todo' = <<>> <=> Len(todo') = 0
           /\ todo' # <<>> => /\ Len(todo') >= 1 /\ todo'[1] = Head(todo')
                              /\ todo'[1][1] = cur
           /\ \A k \in 1 .. Len(todo') :
                  \E j \in 1 .. Len(todo) : todo'[k] = todo[j]
           /\ \A j \in 1 .. Len(todo) : todo[j][1] = cur /\ todo[j] # N =>
                 \E k \in 1 .. Len(todo') : todo'[k] = todo[j]
           /\ op \in {"load", "discard"} =>
                /\ Len(todo') = Len(todo) - 1
                /\ \A k \in 1 .. Len(todo') : todo'[k] = todo[k + 1]
<1> DEFINE s == Tail(todo)
<1>1. /\ todo \in Seq(Namespaces) /\ todo # <<>> /\ todo[1] = N
      /\ Len(todo) \in Nat /\ Len(todo) >= 1
  BY Current DEF IInv, TodoInv
<1>2. /\ s \in Seq(Namespaces) /\ Len(s) = Len(todo) - 1
      /\ \A k \in 1 .. Len(s) : s[k] = todo[k + 1]
  BY <1>1, HeadTailProperties
<1> HIDE DEF s
<1>3. /\ todo' \in Seq(Namespaces) /\ Len(todo') \in Nat
      /\ todo' # <<>> => Len(todo') >= 1 /\ todo'[1][1] = cur
      /\ \A k \in 1 .. Len(todo') : \E j \in 1 .. Len(s) : todo'[k] = s[j]
      /\ \A j \in 1 .. Len(s) : s[j][1] = cur =>
            \E k \in 1 .. Len(todo') : todo'[k] = s[j]
  <2>1. todo' = From(s, cur)
    BY DEF s
  <2>2. /\ From(s, cur) \in Seq(Namespaces) /\ Len(From(s, cur)) \in Nat
        /\ From(s, cur) # <<>> =>
              Len(From(s, cur)) >= 1 /\ From(s, cur)[1][1] = cur
        /\ \A k \in 1 .. Len(From(s, cur)) :
              \E j \in 1 .. Len(s) : From(s, cur)[k] = s[j]
        /\ \A j \in 1 .. Len(s) : s[j][1] = cur =>
              \E k \in 1 .. Len(From(s, cur)) : From(s, cur)[k] = s[j]
    BY <1>2, FromNext
  <2> QED
    BY <2>1, <2>2
<1>4. todo' = <<>> <=> Len(todo') = 0
  BY <1>3, EmptySeq
<1>5. todo' # <<>> => todo'[1] = Head(todo')
  OBVIOUS
<1>6. ASSUME NEW k \in 1 .. Len(todo')
      PROVE  \E j \in 1 .. Len(todo) : todo'[k] = todo[j]
  <2>1. PICK j \in 1 .. Len(s) : todo'[k] = s[j]
    BY <1>3
  <2>2. j + 1 \in 1 .. Len(todo) /\ todo'[k] = todo[j + 1]
    BY <1>1, <1>2, <2>1
  <2> QED
    BY <2>2
<1>7. ASSUME NEW j \in 1 .. Len(todo), todo[j][1] = cur, todo[j] # N
      PROVE  \E k \in 1 .. Len(todo') : todo'[k] = todo[j]
  <2>1. j - 1 \in 1 .. Len(s) /\ j - 1 + 1 = j
    BY <1>1, <1>2, <1>7
  <2>2. s[j - 1] = todo[j]
    BY <1>2, <2>1
  <2> QED
    BY <1>3, <1>7, <2>1, <2>2
<1>8. ASSUME op \in {"load", "discard"}
      PROVE  todo' = s
  <2>1. CASE s = <<>>
    <3>1. Len(s) = 0
      BY <1>2, <2>1, EmptySeq
    <3>2. Len(todo') = 0
      <4> SUFFICES ASSUME Len(todo') >= 1 PROVE FALSE
        BY <1>3
      <4>1. 1 \in 1 .. Len(todo')
        BY <1>3
      <4> QED
        BY <1>3, <3>1, <4>1
    <3> QED
      BY <1>4, <2>1, <3>2
  <2>2. CASE s # <<>>
    <3>1. Len(s) >= 1
      BY <1>2, <2>2, EmptySeq
    <3>2. 2 \in 1 .. Len(todo) /\ s[1] = todo[2]
      BY <1>1, <1>2, <3>1
    <3>3. todo[2][1] = cur
      BY <1>8, <3>2 DEF IInv, TodoInv
    <3>4. s[1][1] = cur
      BY <3>2, <3>3
    <3>5. From(s, cur) = s
      BY <1>2, <2>2, <3>4, FromHere
    <3> QED
      BY <3>5 DEF s
  <2> QED
    BY <2>1, <2>2
<1> QED
  BY <1>2, <1>3, <1>4, <1>5, <1>6, <1>7, <1>8

LEMMA AdvanceTodo ==
    ASSUME IInv, NEW first, first \notin {"idle", "retire"}, Advance(first),
           pc \notin {"idle", "retire"},
           UNCHANGED <<cur, op, namespaces>>,
           op = "load" => program' = program,
           warm \ {N} \subseteq warm', op = "warm" => warm' = warm \cup {N}
    PROVE  TodoInv'
<1>1. todo' = From(Tail(todo), cur)
  BY DEF Advance
<1>2. /\ todo' \in Seq(Namespaces) /\ Len(todo') \in Nat
      /\ todo' = <<>> <=> Len(todo') = 0
      /\ todo' # <<>> =>
            Len(todo') >= 1 /\ todo'[1] = Head(todo') /\ todo'[1][1] = cur
      /\ \A k \in 1 .. Len(todo') :
             \E j \in 1 .. Len(todo) : todo'[k] = todo[j]
      /\ \A j \in 1 .. Len(todo) : todo[j][1] = cur /\ todo[j] # N =>
            \E k \in 1 .. Len(todo') : todo'[k] = todo[j]
      /\ op \in {"load", "discard"} =>
            /\ Len(todo') = Len(todo) - 1
            /\ \A k \in 1 .. Len(todo') : todo'[k] = todo[k + 1]
  BY <1>1, Rest
<1>3. /\ pc' \notin {"idle", "retire"} => todo' # <<>>
      /\ pc' = "retire" => todo' = <<>>
  BY DEF Advance, IInv, TypeOK
<1>4. pc' # "idle" => todo' # <<>> \/ op = "warm"
  BY DEF Advance, IInv, TypeOK
<1>5. Listed' = Listed /\ N' = Head(todo')
  BY DEF Listed, N
<1>6. ASSUME pc' # "idle", op = "load"
      PROVE  /\ N'[2] >= 1
             /\ N'[2] + Len(todo') = Len(program'[cur]) + 1
             /\ \A k \in 1 .. Len(todo') : todo'[k] = <<cur, N'[2] + k - 1>>
  <2>1. /\ Len(todo) \in Nat /\ N[2] >= 1 /\ N[2] \in Nat
        /\ N[2] + Len(todo) = Len(program[cur]) + 1
        /\ \A k \in 1 .. Len(todo) : todo[k] = <<cur, N[2] + k - 1>>
    BY <1>6, Current DEF IInv, TodoInv
  <2>2. \A k \in 1 .. Len(todo') : todo'[k] = <<cur, N[2] + k>>
    <3> TAKE k \in 1 .. Len(todo')
    <3>1. k + 1 \in 1 .. Len(todo) /\ N[2] + (k + 1) - 1 = N[2] + k
      BY <1>2, <1>6, <2>1
    <3> QED
      BY <1>2, <1>6, <2>1, <3>1
  <2>3. N' = <<cur, N[2] + 1>>
    BY <1>2, <1>4, <1>5, <1>6, <2>2
  <2> HIDE DEF N
  <2>4. N'[2] = N[2] + 1
    BY <2>3
  <2>5. \A k \in 1 .. Len(todo') : todo'[k] = <<cur, N'[2] + k - 1>>
    <3> TAKE k \in 1 .. Len(todo')
    <3>1. N[2] + k = N'[2] + k - 1
      BY <1>2, <2>1, <2>4
    <3> QED
      BY <2>2, <3>1
  <2>6. N'[2] + Len(todo') = N[2] + Len(todo)
    <3>1. Len(todo') = Len(todo) - 1
      BY <1>2, <1>6
    <3> QED
      BY <2>1, <2>4, <3>1
  <2> QED
    BY <1>6, <2>1, <2>4, <2>5, <2>6
<1>7. ASSUME pc' # "idle", op = "discard"
      PROVE  \A k \in 1 .. Len(todo') : todo'[k] = <<cur, Len(todo') - k + 1>>
  <2> TAKE k \in 1 .. Len(todo')
  <2>1. /\ Len(todo) \in Nat /\ k + 1 \in 1 .. Len(todo)
        /\ Len(todo) - (k + 1) + 1 = Len(todo') - k + 1
    BY <1>2, <1>7, Current
  <2>2. todo[k + 1] = <<cur, Len(todo) - (k + 1) + 1>>
    BY <1>7, <2>1 DEF IInv, TodoInv
  <2> QED
    BY <1>2, <1>7, <2>1, <2>2
<1>8. ASSUME pc' # "idle", op \in {"warm", "cold"}
      PROVE  /\ \A k \in 1 .. Len(todo') : todo'[k] \in Listed
             /\ todo' # <<>> => N'[1] = cur
  BY <1>2, <1>5, <1>8 DEF IInv, TodoInv
<1>9. ASSUME pc' # "idle", op = "warm", NEW n \in Listed, n[1] = cur,
             n \notin warm'
      PROVE  \E k \in 1 .. Len(todo') : todo'[k] = n
  <2>1. PICK j \in 1 .. Len(todo) : todo[j] = n
    BY <1>9 DEF IInv, TodoInv
  <2>2. todo[j][1] = cur /\ todo[j] # N
    BY <1>9, <2>1
  <2> QED
    BY <1>2, <2>1, <2>2
<1> QED
  BY <1>2, <1>3, <1>5, <1>6, <1>7, <1>8, <1>9 DEF TodoInv

(* The list does not change, and the VCL is loaded when the last of its    *)
(* constructors is done.                                                   *)
LEMMA AdvanceVcl ==
    ASSUME IInv, NEW first, Advance(first),
           pc \notin {"idle", "retire", "add"},
           \/ op = "load" /\ first = "add"
           \/ op = "warm" /\ first = "start"
           \/ op = "cold" /\ first = "mark",
           InHand = {},
           UNCHANGED <<cur, op, namespaces, program>>
    PROVE  /\ VclInv' /\ InHand' = {} /\ Listed' = Listed
           /\ temp' \in [VCLs -> {"none", "init", "warm", "cold"}]
           /\ \A v \in VCLs : temp'[v] = "warm" <=> temp[v] = "warm"
           /\ pc' \in {first} \cup IF op = "warm" THEN {"retire"} ELSE {"idle"}
           /\ pc' = "retire" => todo' = <<>>
<1>1. /\ cur \in VCLs /\ N[2] \in Nat /\ N[2] >= 1 /\ todo # <<>>
      /\ Len(todo) \in Nat
      /\ temp \in [VCLs -> {"none", "init", "warm", "cold"}]
  BY Current DEF IInv, TypeOK
<1>2. InHand' = {} /\ Listed' = Listed
  BY DEF InHand, Listed, Advance
<1>3. /\ temp' \in [VCLs -> {"none", "init", "warm", "cold"}]
      /\ \A v \in VCLs : temp'[v] = IF op = "load" /\ todo' = <<>> /\ v = cur
                                    THEN "init" ELSE temp[v]
      /\ pc' = IF todo' # <<>> THEN first
               ELSE IF op = "warm" THEN "retire" ELSE "idle"
  BY <1>1 DEF Advance
<1>4. temp[cur] # "warm" /\ (op = "load" => temp[cur] = "none")
      /\ (op # "load" => temp[cur] # "none")
  BY DEF IInv, VclInv
<1>5. \A v \in VCLs : temp'[v] = "warm" <=> temp[v] = "warm"
  BY <1>3, <1>4
<1>6. \A v \in VCLs : Built(v)' = Built(v)
  <2>1. CASE op # "load"
    BY <2>1 DEF Built, Building
  <2>2. CASE op = "load"
    <3>1. /\ Len(todo') = Len(todo) - 1
          /\ todo' = <<>> <=> Len(todo') = 0
          /\ \A k \in 1 .. Len(todo') : todo'[k] = todo[k + 1]
          /\ todo' # <<>> => todo'[1] = Head(todo') /\ Len(todo') >= 1
      BY <2>2, Rest DEF Advance
    <3>2. /\ N[2] + Len(todo) = Len(program[cur]) + 1
          /\ \A k \in 1 .. Len(todo) : todo[k] = <<cur, N[2] + k - 1>>
      BY <2>2 DEF IInv, TodoInv
    <3>3. /\ Built(cur) = N[2]
          /\ \A v \in VCLs \ {cur} : Built(v) = Len(program[v])
      BY <2>2, <1>1 DEF Built, Building
    <3>4. CASE todo' = <<>>
      <4>1. N[2] = Len(program[cur])
        <5>1. Len(todo) = 1 /\ Len(program[cur]) \in Nat
          BY <1>1, <3>1, <3>4, Declarations
        <5> QED
          BY <1>1, <3>2, <5>1
      <4>2. pc' = "idle"
        BY <1>3, <2>2, <3>4
      <4> QED
        BY <3>3, <4>1, <4>2 DEF Built, Building
    <3>5. CASE todo' # <<>>
      <4>1. 1 \in 1 .. Len(todo') /\ 2 \in 1 .. Len(todo)
        BY <1>1, <3>1, <3>5
      <4>2. Head(todo') = <<cur, N[2] + 2 - 1>>
        BY <3>1, <3>2, <3>5, <4>1
      <4>3. N'[2] - 1 = N[2]
        BY <1>1, <4>2 DEF N
      <4>4. pc' = "add"
        BY <1>3, <2>2, <3>5
      <4> HIDE DEF N
      <4> QED
        BY <2>2, <3>3, <4>3, <4>4 DEF Built, Building
    <3> QED
      BY <3>4, <3>5
  <2> QED
    BY <2>1, <2>2
<1>7. ASSUME NEW v \in VCLs
      PROVE  program'[v] = <<>> <=> temp'[v] = "none" /\ ~Building(v)'
  <2>1. program[v] = <<>> <=> temp[v] = "none" /\ ~Building(v)
    BY DEF IInv, VclInv
  <2>2. CASE v # cur \/ op # "load"
    BY <1>3, <2>1, <2>2 DEF Building
  <2>3. CASE v = cur /\ op = "load"
    BY <1>1, <1>3, <2>1, <2>3, <1>4 DEF Building
  <2> QED
    BY <2>2, <2>3
<1>8. VclInv'
  BY <1>1, <1>2, <1>3, <1>4, <1>6, <1>7 DEF IInv, VclInv
<1> QED
  BY <1>2, <1>3, <1>5, <1>8

(* A namespace that is warm is passed over; the call is a warm event.      *)
LEMMA AlreadyWarmKeeps == ASSUME IInv, AlreadyWarm PROVE IInv'
<1> USE DEF AlreadyWarm, registry, flags, indexes, cache
<1>1. /\ op = "warm" /\ pc = "start" /\ N \in warm /\ failed = FALSE
      /\ InHand = {} /\ Advance("start")
  BY DEF IInv, TypeOK, ShapeInv, FlagsInv, InHand
<1>2. TodoInv'
  BY <1>1, AdvanceTodo
<1>3. /\ VclInv' /\ InHand' = {} /\ Listed' = Listed
      /\ temp' \in [VCLs -> {"none", "init", "warm", "cold"}]
      /\ \A v \in VCLs : temp'[v] = "warm" <=> temp[v] = "warm"
      /\ pc' \in {"start", "retire"}
  BY <1>1, AdvanceVcl
<1> HIDE DEF AlreadyWarm
<1>4. UNCHANGED <<program, namespaces, index, warm, subscribed, active, live,
                  settings, retired, running, tracked, provider, object, owner,
                  op, cur, last, failed, latest>>
  BY DEF AlreadyWarm
<1>5. TypeOK' /\ IndexesOwned'
  BY <1>1, <1>3, <1>4 DEF IInv, TypeOK, IndexesOwned
<1>6. ShapeInv' /\ OwnedInv' /\ ProviderInv'
  BY <1>1, <1>3, <1>4 DEF IInv, ShapeInv, OwnedInv, ProviderInv
<1>7. FlagsInv'
  BY <1>1, <1>3, <1>4 DEF IInv, FlagsInv
<1>8. SweepInv' /\ TrackInv'
  <2>1. InUse' = InUse
    BY <1>4 DEF InUse
  <2>2. \A x \in Objects : object[x] = "fetched" => owner[x][1] \in VCLs
    BY Current DEF IInv, TrackInv, Namespaces
  <2> QED
    BY <1>1, <1>3, <1>4, <2>1, <2>2 DEF IInv, SweepInv, TrackInv
<1>9. SealInv'
  <2>1. \A i : VclsOf(i)' = VclsOf(i)
    BY <1>3, <1>4 DEF VclsOf, UsersOf
  <2>2. \A n \in Listed : n[1] \in VCLs
    BY Current DEF Namespaces
  <2>3. latest \in VCLs \cup {NoVcl}
    BY DEF IInv, TypeOK
  <2> QED
    BY <1>3, <1>4, <2>1, <2>2, <2>3 DEF IInv, SealInv
<1> QED
  BY <1>2, <1>3, <1>5, <1>6, <1>7, <1>8, <1>9 DEF IInv

(* The current namespace becomes warm, and the call goes on.               *)
LEMMA WarmedKeeps ==
    ASSUME IInv, pc \in {"subscribe", "provider"},
           Advance(IF op = "load" THEN "add" ELSE "start"),
           warm' = warm \cup {N}, subscribed' = subscribed \cup {N},
           \/ active' = active /\ provider' = provider
           \/ active' = active \cup {N} /\ provider' = TRUE,
           UNCHANGED <<program, registry, indexes, cache, op, cur, last,
                       failed, latest>>
    PROVE  IInv'
<1> DEFINE first == IF op = "load" THEN "add" ELSE "start"
<1>1. /\ op \in {"load", "warm"} /\ failed = FALSE /\ InHand = {}
      /\ Advance(first) /\ N \in Listed
  BY Current DEF IInv, TypeOK, ShapeInv, InHand
<1>2. UNCHANGED <<program, namespaces, index, live, settings, retired, running,
                  tracked, object, owner, op, cur, last, failed, latest>>
  BY DEF registry, indexes, cache
<1>3. TodoInv'
  BY <1>1, <1>2, AdvanceTodo
<1>4. /\ VclInv' /\ InHand' = {} /\ Listed' = Listed
      /\ temp' \in [VCLs -> {"none", "init", "warm", "cold"}]
      /\ \A v \in VCLs : temp'[v] = "warm" <=> temp[v] = "warm"
      /\ pc' \in {first} \cup IF op = "warm" THEN {"retire"} ELSE {"idle"}
  BY <1>1, <1>2, AdvanceVcl
<1>5. pc' \in {"add", "start", "retire", "idle"}
      /\ (pc' = "add" => op = "load") /\ (pc' = "retire" => op = "warm")
      /\ (pc' = "start" => op = "warm")
  BY <1>1, <1>4
<1> HIDE DEF first
<1>6. TypeOK' /\ IndexesOwned'
  <2>1. /\ warm' \cup subscribed' \subseteq DOMAIN index
        /\ active' \subseteq warm' /\ provider' \in BOOLEAN
    BY <1>1 DEF IInv, TypeOK
  <2>2. IndexesOwned'
    BY <1>1, <1>2, <1>4 DEF IInv, IndexesOwned
  <2> QED
    BY <1>2, <1>4, <1>5, <2>1, <2>2 DEF IInv, TypeOK
<1>7. ShapeInv' /\ OwnedInv' /\ ProviderInv'
  BY <1>1, <1>2, <1>4, <1>5 DEF IInv, ShapeInv, OwnedInv, ProviderInv
<1>8. FlagsInv'
  BY <1>1, <1>2, <1>4, <1>5 DEF IInv, FlagsInv
<1>9. SweepInv' /\ TrackInv'
  <2>1. InUse' = InUse \cup {I}
    BY <1>2 DEF InUse, I
  <2>2. \A x \in Objects : object[x] = "fetched" => owner[x][1] \in VCLs
    BY Current DEF IInv, TrackInv, Namespaces
  <2>3. SweepInv'
    BY <1>2, <1>5, <2>1 DEF IInv, SweepInv
  <2>4. TrackInv'
    BY <1>1, <1>2, <1>4, <1>5, <2>1, <2>2 DEF IInv, TrackInv
  <2> QED
    BY <2>3, <2>4
<1>10. SealInv'
  <2>1. \A i : VclsOf(i)' = VclsOf(i)
    BY <1>2, <1>4 DEF VclsOf, UsersOf
  <2>2. \A n \in Listed : n[1] \in VCLs
    BY Current DEF Namespaces
  <2>3. latest \in VCLs \cup {NoVcl}
    BY DEF IInv, TypeOK
  <2> QED
    BY <1>2, <1>4, <2>1, <2>2, <2>3 DEF IInv, SealInv
<1> QED
  BY <1>3, <1>4, <1>6, <1>7, <1>8, <1>9, <1>10 DEF IInv

LEMMA SubscribeKeeps == ASSUME IInv, Subscribe PROVE IInv'
<1>1. CASE settings[I] \notin Persistent
  BY <1>1, WarmedKeeps DEF Subscribe
<1>2. CASE settings[I] \in Persistent
  <2>1. /\ UNCHANGED <<temp, program, namespaces, index, warm, active, live,
                       settings, retired, running, tracked, provider, object,
                       owner, op, cur, todo, last, failed, latest>>
        /\ pc = "subscribe" /\ pc' = "provider"
        /\ subscribed' = subscribed \cup {N}
    BY <1>2 DEF Subscribe, registry, indexes, cache
  <2>2. /\ Listed' = Listed /\ InHand' = InHand /\ InUse' = InUse
        /\ N' = N /\ I' = I /\ \A i : VclsOf(i)' = VclsOf(i)
        /\ UsersOf(I)' = UsersOf(I)
        /\ \A v : Built(v)' = Built(v) /\ (Building(v)' <=> Building(v))
    BY <2>1 DEF Listed, InHand, InUse, N, I, VclsOf, UsersOf, Built, Building
  <2>3. N \in Listed /\ InHand = {}
    BY <2>1, Current DEF IInv, ShapeInv, InHand
  <2>4. TypeOK' /\ IndexesOwned' /\ ShapeInv'
    BY <2>1, <2>2, <2>3, Current DEF IInv, TypeOK, IndexesOwned, ShapeInv
  <2>5. TodoInv' /\ VclInv'
    BY <2>1, <2>2 DEF IInv, TodoInv, VclInv
  <2>6. OwnedInv' /\ FlagsInv'
    BY <2>1, <2>2, <2>3 DEF IInv, OwnedInv, FlagsInv
  <2>7. SweepInv' /\ TrackInv'
    BY <2>1, <2>2 DEF IInv, SweepInv, TrackInv
  <2>8. SealInv' /\ ProviderInv'
    BY <2>1, <2>2 DEF IInv, SealInv, ProviderInv
  <2> QED
    BY <2>4, <2>5, <2>6, <2>7, <2>8 DEF IInv
<1> QED
  BY <1>1, <1>2

LEMMA ProviderEnsureKeeps == ASSUME IInv, ProviderEnsure PROVE IInv'
<1>1. pc = "provider" /\ subscribed' = subscribed
  BY DEF ProviderEnsure
<1>2. subscribed' = subscribed \cup {N}
  BY <1>1 DEF IInv, FlagsInv
<1> QED
  BY <1>1, <1>2, WarmedKeeps DEF ProviderEnsure, registry, indexes, cache

(* Without the engine the namespace is taken back.                         *)
LEMMA ProviderAbsentKeeps == ASSUME IInv, ProviderAbsent PROVE IInv'
<1>1. /\ UNCHANGED <<temp, program, namespaces, index, warm, subscribed,
                     active,
                     live, settings, retired, running, tracked, provider,
                     object, owner, op, cur, todo, last, latest>>
      /\ pc = "provider" /\ pc' = "mark" /\ failed' = TRUE
  BY DEF ProviderAbsent, registry, flags, indexes, cache
<1>2. op \in {"load", "warm"} /\ InHand = {} /\ N \in Listed
  BY <1>1, Current DEF IInv, ShapeInv, InHand
<1>3. /\ Listed' = Listed /\ InHand' = InHand /\ InUse' = InUse
      /\ N' = N /\ I' = I /\ \A i : VclsOf(i)' = VclsOf(i)
      /\ \A v : Built(v)' = Built(v) /\ (Building(v)' <=> Building(v))
  BY <1>1, <1>2 DEF Listed, InHand, InUse, N, I, VclsOf, UsersOf, Built,
                    Building
<1>4. TypeOK' /\ IndexesOwned' /\ ShapeInv'
  BY <1>1, <1>2, <1>3 DEF IInv, TypeOK, IndexesOwned, ShapeInv
<1>5. TodoInv' /\ VclInv'
  BY <1>1, <1>3 DEF IInv, TodoInv, VclInv
<1>6. OwnedInv' /\ FlagsInv'
  BY <1>1, <1>2, <1>3 DEF IInv, OwnedInv, FlagsInv
<1>7. SweepInv' /\ TrackInv'
  BY <1>1, <1>3 DEF IInv, SweepInv, TrackInv
<1>8. SealInv' /\ ProviderInv'
  BY <1>1, <1>3 DEF IInv, SealInv, ProviderInv
<1> QED
  BY <1>4, <1>5, <1>6, <1>7, <1>8 DEF IInv

(***************************************************************************)
(* The core's calls                                                        *)
(***************************************************************************)

(* What an event has to do: all the namespaces of the VCL.                 *)
LEMMA EventWork ==
    ASSUME IInv, NEW v \in VCLs, ~Building(v), temp[v] # "none"
    PROVE  /\ InListOrder(v) \in Seq(Namespaces) /\ InListOrder(v) # <<>>
           /\ Head(InListOrder(v))[1] = v
           /\ \A k \in 1 .. Len(InListOrder(v)) : InListOrder(v)[k] \in Listed
           /\ \A n \in Listed : n[1] = v =>
                 \E k \in 1 .. Len(InListOrder(v)) : InListOrder(v)[k] = n
<1>1. namespaces \in Seq(Namespaces)
  BY DEF IInv, OwnedInv
<1> DEFINE t == From(namespaces, v)
<1>2. /\ t \in Seq(Namespaces) /\ Len(t) \in Nat
      /\ t # <<>> => Len(t) >= 1 /\ t[1][1] = v
      /\ \A k \in 1 .. Len(t) :
             \E j \in 1 .. Len(namespaces) : t[k] = namespaces[j]
      /\ \A j \in 1 .. Len(namespaces) : namespaces[j][1] = v =>
            \E k \in 1 .. Len(t) : t[k] = namespaces[j]
  BY <1>1, FromNext
<1> HIDE DEF t
<1>3. /\ \A k \in 1 .. Len(t) : t[k] \in Listed
      /\ \A n \in Listed : n[1] = v => \E k \in 1 .. Len(t) : t[k] = n
  BY <1>2 DEF Listed
<1>4. <<v, 1>> \in Listed
  <2>1. program[v] # <<>> /\ Built(v) = Len(program[v])
    BY DEF IInv, VclInv, Built
  <2>2. 1 \in Nat /\ 1 <= Built(v)
    BY <2>1, Declarations
  <2> QED
    BY <2>2 DEF IInv, VclInv
<1>5. t # <<>> /\ Head(t) = t[1]
  <2>1. PICK k \in 1 .. Len(t) : t[k] = <<v, 1>>
    BY <1>3, <1>4
  <2>2. Len(t) # 0
    BY <1>2, <2>1
  <2> QED
    BY <1>2, <2>2, EmptySeq
<1> QED
  BY <1>2, <1>3, <1>5 DEF t, InListOrder

(* A call begins: the registry, the flags and the objects stay.            *)
LEMMA BeginKeeps ==
    ASSUME IInv, pc = "idle", NEW v \in VCLs,
           pc' \in {"add", "start", "mark", "remove"}, cur' = v,
           \A w \in VCLs : temp'[w] = "warm" => temp[w] = "warm",
           temp' \in [VCLs -> {"none", "init", "warm", "cold"}],
           \A o \in Objects : object[o] = "fetched" =>
              temp'[owner[o][1]] = "warm",
           UNCHANGED <<registry, flags, indexes, cache, provider, last,
                       failed, latest>>,
           program' \in [VCLs -> Programs \cup {<<>>}],
           \/ op' = "load" /\ pc' = "add"
           \/ op' = "warm" /\ pc' = "start"
           \/ op' = "cold" /\ pc' = "mark"
           \/ op' = "discard" /\ pc' = "remove",
           TodoInv', VclInv'
    PROVE  IInv'
<1> USE DEF registry, flags, indexes, cache
<1>1. Listed' = Listed /\ InUse' = InUse /\ InHand' = {} /\ InHand = {}
      /\ (\A i : UsersOf(i)' = UsersOf(i)) /\ (\A i : VclsOf(i)' = VclsOf(i))
      /\ failed = FALSE
  BY DEF Listed, InUse, InHand, UsersOf, VclsOf, IInv, ShapeInv, TypeOK
<1>2. TypeOK' /\ IndexesOwned'
  BY <1>1 DEF IInv, TypeOK, IndexesOwned
<1>3. ShapeInv' /\ OwnedInv' /\ ProviderInv'
  BY <1>1 DEF IInv, ShapeInv, OwnedInv, ProviderInv
<1>4. FlagsInv'
  BY <1>1 DEF IInv, FlagsInv
<1>5. SweepInv' /\ TrackInv'
  BY <1>1 DEF IInv, SweepInv, TrackInv
<1>6. SealInv'
  <2>1. \A n \in Listed : n[1] \in VCLs
    BY Current DEF Namespaces
  <2>2. latest \in VCLs \cup {NoVcl}
    BY DEF IInv, TypeOK
  <2> QED
    BY <1>1, <2>1, <2>2 DEF IInv, SealInv
<1> QED
  BY <1>2, <1>3, <1>4, <1>5, <1>6 DEF IInv

LEMMA LoadKeeps ==
    ASSUME IInv, NEW v \in VCLs, NEW p \in Programs, Load(v, p) PROVE IInv'
<1>1. /\ pc = "idle" /\ pc' = "add" /\ op' = "load" /\ cur' = v
      /\ temp[v] = "none"
      /\ program' = [program EXCEPT ![v] = p]
      /\ todo' = [i \in 1 .. Len(p) |-> <<v, i>>]
      /\ UNCHANGED <<temp, registry, flags, indexes, cache, provider, last,
                     failed, latest>>
  BY DEF Load, Begin
<1>2. /\ p \in Seq(Settings) /\ p # <<>> /\ Len(p) \in Nat /\ Len(p) >= 1
      /\ program \in [VCLs -> Programs \cup {<<>>}]
  <2>1. p \in Seq(Settings) /\ p # <<>>
    BY ProgramsDeclare
  <2> QED
    BY <2>1, EmptySeq DEF IInv, TypeOK
<1>3. /\ program' \in [VCLs -> Programs \cup {<<>>}]
      /\ program'[v] = p /\ \A w \in VCLs \ {v} : program'[w] = program[w]
  BY <1>1, <1>2
<1>4. /\ todo' \in Seq(Namespaces) /\ Len(todo') = Len(p) /\ todo' # <<>>
      /\ \A k \in 1 .. Len(p) : todo'[k] = <<v, k>>
      /\ Head(todo') = <<v, 1>>
  <2> DEFINE t == [i \in 1 .. Len(p) |-> <<v, i>>]
  <2>1. t \in [1 .. Len(p) -> Namespaces]
    BY <1>2 DEF Namespaces
  <2>2. t \in Seq(Namespaces) /\ Len(t) = Len(p)
    BY <1>2, <2>1
  <2>3. \A k \in 1 .. Len(p) : t[k] = <<v, k>>
    OBVIOUS
  <2> HIDE DEF t
  <2>4. t # <<>> /\ Head(t) = t[1]
    BY <1>2, <2>2, EmptySeq
  <2> QED
    BY <1>1, <1>2, <2>2, <2>3, <2>4 DEF t
<1>5. TodoInv'
  <2>1. N' = <<v, 1>> /\ N'[2] = 1
    BY <1>4 DEF N
  <2>2. \A k \in 1 .. Len(todo') : todo'[k] = <<v, N'[2] + k - 1>>
    <3> TAKE k \in 1 .. Len(todo')
    <3>1. k = N'[2] + k - 1
      BY <1>2, <1>4, <2>1
    <3> QED
      BY <1>4, <3>1
  <2>3. N'[2] + Len(todo') = Len(program'[v]) + 1
    BY <1>2, <1>3, <1>4, <2>1
  <2> QED
    BY <1>1, <1>4, <2>1, <2>2, <2>3 DEF TodoInv
<1>6. VclInv'
  <2>1. /\ Building(v)' /\ Built(v)' = 0
        /\ \A w \in VCLs \ {v} : Built(w)' = Len(program'[w]) /\ ~Building(w)'
    BY <1>1, <1>4 DEF Building, Built, N
  <2>2. \A w \in VCLs : ~Building(w) /\ Built(w) = Len(program[w])
    BY <1>1 DEF Building, Built
  <2>3. program[v] = <<>> /\ Len(program[v]) = 0
    BY <1>1, <2>2, Declarations DEF IInv, VclInv
  <2>4. \A w \in VCLs : Built(w)' = Built(w)
    BY <1>3, <2>1, <2>2, <2>3
  <2>5. Listed' = Listed
    BY <1>1 DEF Listed, registry
  <2> QED
    BY <1>1, <1>2, <1>3, <2>1, <2>2, <2>4, <2>5 DEF IInv, VclInv
<1>7. \A o \in Objects : object[o] = "fetched" => temp'[owner[o][1]] = "warm"
  BY <1>1 DEF IInv, TrackInv
<1>8. temp' \in [VCLs -> {"none", "init", "warm", "cold"}]
  BY <1>1 DEF IInv, TypeOK
<1> QED
  BY <1>1, <1>3, <1>5, <1>6, <1>7, <1>8, BeginKeeps

LEMMA WarmEventKeeps ==
    ASSUME IInv, NEW v \in VCLs, WarmEvent(v) PROVE IInv'
<1>1. /\ pc = "idle" /\ pc' = "start" /\ op' = "warm" /\ cur' = v
      /\ temp[v] \in {"init", "cold"} /\ todo' = InListOrder(v)
      /\ UNCHANGED <<temp, program, registry, flags, indexes, cache, provider,
                     last, failed, latest>>
  BY DEF WarmEvent, Begin
<1>2. ~Building(v) /\ Listed' = Listed
  BY <1>1 DEF Building, Listed, registry
<1>3. TodoInv'
  BY <1>1, <1>2, EventWork DEF TodoInv, N
<1>4. VclInv'
  <2>1. \A w \in VCLs : ~Building(w)' /\ ~Building(w) /\ Built(w)' = Built(w)
    BY <1>1 DEF Building, Built
  <2> QED
    BY <1>1, <1>2, <2>1 DEF IInv, VclInv
<1>5. \A o \in Objects : object[o] = "fetched" => temp'[owner[o][1]] = "warm"
  BY <1>1 DEF IInv, TrackInv
<1>6. /\ temp' \in [VCLs -> {"none", "init", "warm", "cold"}]
      /\ program' \in [VCLs -> Programs \cup {<<>>}]
  BY <1>1 DEF IInv, TypeOK
<1> QED
  BY <1>1, <1>3, <1>4, <1>5, <1>6, BeginKeeps

LEMMA ColdEventKeeps ==
    ASSUME IInv, NEW v \in VCLs, ColdEvent(v) PROVE IInv'
<1>1. /\ pc = "idle" /\ pc' = "mark" /\ op' = "cold" /\ cur' = v
      /\ temp[v] \in {"init", "warm"} /\ todo' = InListOrder(v)
      /\ temp' = [temp EXCEPT ![v] = "cold"]
      /\ \A o \in Objects : object[o] = "fetched" => owner[o][1] # v
      /\ UNCHANGED <<program, registry, flags, indexes, cache, provider,
                     last, failed, latest>>
  BY DEF ColdEvent, Begin
<1>2. ~Building(v) /\ Listed' = Listed
  BY <1>1 DEF Building, Listed, registry
<1>3. /\ temp' \in [VCLs -> {"none", "init", "warm", "cold"}]
      /\ program' \in [VCLs -> Programs \cup {<<>>}]
      /\ \A w \in VCLs : temp'[w] = IF w = v THEN "cold" ELSE temp[w]
  BY <1>1 DEF IInv, TypeOK
<1>4. TodoInv'
  BY <1>1, <1>2, EventWork DEF TodoInv, N
<1>5. VclInv'
  <2>1. \A w \in VCLs : ~Building(w)' /\ ~Building(w) /\ Built(w)' = Built(w)
    BY <1>1 DEF Building, Built
  <2> QED
    BY <1>1, <1>2, <1>3, <2>1 DEF IInv, VclInv
<1>6. \A o \in Objects : object[o] = "fetched" => temp'[owner[o][1]] = "warm"
  <2>1. \A o \in Objects : object[o] = "fetched" =>
            owner[o][1] \in VCLs /\ temp[owner[o][1]] = "warm"
    BY Current DEF IInv, TrackInv, Namespaces
  <2> QED
    BY <1>1, <1>3, <2>1
<1> QED
  BY <1>1, <1>3, <1>4, <1>5, <1>6, BeginKeeps

(* The objects of a VCL are destroyed from the last to the first.          *)
LEMMA Backwards ==
    ASSUME NEW v \in VCLs, NEW j \in Nat, NEW s, s \in Seq(Namespaces),
           Len(s) = j, \A k \in 1 .. j : s[k] = <<v, k>>
    PROVE  /\ Reverse(s) \in Seq(Namespaces) /\ Len(Reverse(s)) = j
           /\ \A k \in 1 .. j : Reverse(s)[k] = <<v, j - k + 1>>
<1> DEFINE t == [k \in 1 .. j |-> s[j - k + 1]]
<1>1. \A k \in 1 .. j : j - k + 1 \in 1 .. j /\ s[j - k + 1] = <<v, j - k + 1>>
  OBVIOUS
<1>2. t \in [1 .. j -> Namespaces]
  BY <1>1 DEF Namespaces
<1>3. t \in Seq(Namespaces) /\ Len(t) = j
  BY <1>2
<1>4. Reverse(s) = t
  BY DEF Reverse
<1>5. \A k \in 1 .. j : t[k] = <<v, j - k + 1>>
  BY <1>1
<1> QED
  BY <1>3, <1>4, <1>5

LEMMA DiscardKeeps ==
    ASSUME IInv, NEW v \in VCLs, Discard(v) PROVE IInv'
<1>1. /\ pc = "idle" /\ pc' = "remove" /\ op' = "discard" /\ cur' = v
      /\ temp[v] \in {"init", "cold"} /\ todo' = Reverse(Declared(v))
      /\ UNCHANGED <<temp, program, registry, flags, indexes, cache, provider,
                     last, failed, latest>>
  BY DEF Discard, Begin
<1>2. ~Building(v) /\ Listed' = Listed
  BY <1>1 DEF Building, Listed, registry
<1> DEFINE j == Len(program[v])
<1>3. j \in Nat /\ j >= 1
  BY <1>1, <1>2, Declarations DEF IInv, VclInv
<1> HIDE DEF j
<1>4. /\ todo' \in Seq(Namespaces) /\ Len(todo') = j
      /\ \A k \in 1 .. j : todo'[k] = <<v, j - k + 1>>
      /\ todo' # <<>> /\ Head(todo') = <<v, j>>
  <2>1. Declared(v) = [i \in 1 .. j |-> <<v, i>>]
    BY DEF Declared, j
  <2>2. Declared(v) \in [1 .. j -> Namespaces]
    BY <2>1, <1>3 DEF Namespaces
  <2>3. /\ Declared(v) \in Seq(Namespaces) /\ Len(Declared(v)) = j
        /\ \A k \in 1 .. j : Declared(v)[k] = <<v, k>>
    BY <1>3, <2>1, <2>2
  <2>4. /\ todo' \in Seq(Namespaces) /\ Len(todo') = j
        /\ \A k \in 1 .. j : todo'[k] = <<v, j - k + 1>>
    BY <1>1, <1>3, <2>3, Backwards
  <2>5. todo' # <<>> /\ Head(todo') = todo'[1]
    BY <1>3, <2>4, EmptySeq
  <2> QED
    BY <1>3, <2>4, <2>5
<1>5. TodoInv'
  BY <1>1, <1>4 DEF TodoInv
<1>6. VclInv'
  <2>1. \A w \in VCLs : ~Building(w) /\ (Building(w)' <=> w = v)
    BY <1>1 DEF Building
  <2>2. InHand' = {} /\ N'[2] = j
    BY <1>1, <1>4 DEF InHand, N
  <2>3. \A w \in VCLs : Built(w) = Len(program[w])
    BY <2>1 DEF Built
  <2>4. \A w \in VCLs : Built(w)' = Len(program[w])
    BY <1>1, <2>1, <2>2 DEF Built, j
  <2> QED
    BY <1>1, <1>2, <2>1, <2>3, <2>4 DEF IInv, VclInv
<1>7. \A o \in Objects : object[o] = "fetched" => temp'[owner[o][1]] = "warm"
  BY <1>1 DEF IInv, TrackInv
<1>8. /\ temp' \in [VCLs -> {"none", "init", "warm", "cold"}]
      /\ program' \in [VCLs -> Programs \cup {<<>>}]
  BY <1>1 DEF IInv, TypeOK
<1> QED
  BY <1>1, <1>5, <1>6, <1>7, <1>8, BeginKeeps

(***************************************************************************)
(* vmod_namespace__init and cachetag_namespace_warm                        *)
(***************************************************************************)

(* An index that is adopted is live, not retired, and for the same         *)
(* settings; any other is new.                                             *)
LEMMA IndexChosen ==
    ASSUME IInv, Indexes # live, NEW s
    PROVE  /\ IndexFor(s) \in Indexes
           /\ \/ IndexFor(s) \in live /\ settings[IndexFor(s)] = s
              \/ IndexFor(s) \notin live
<1> DEFINE fit == {k \in 1 .. Len(namespaces) : Adoptable(namespaces[k], s)}
           first == CHOOSE k \in fit : \A j \in fit : k <= j
<1>1. CASE s \in Volatile /\ fit # {}
  <2>1. Len(namespaces) \in Nat
    BY LenProperties DEF IInv, OwnedInv
  <2>2. first \in fit
    <3>1. fit \in SUBSET Nat
      BY <2>1
    <3> HIDE DEF fit
    <3>2. \E k \in fit : \A j \in fit : k <= j
      BY <1>1, <3>1, Smallest
    <3> QED
      BY <3>2
  <2> DEFINE m == namespaces[first]
  <2>3. IndexFor(s) = index[m]
    BY <1>1 DEF IndexFor
  <2> HIDE DEF first
  <2>4. m \in Listed /\ settings[index[m]] = s
    BY <2>2 DEF Listed, Adoptable
  <2> HIDE DEF m
  <2>5. index[m] \in live
    BY <2>4, Current DEF IInv, TypeOK, Range
  <2> QED
    BY <2>3, <2>4, <2>5 DEF IInv, TypeOK
<1>2. CASE ~(s \in Volatile /\ fit # {})
  <2>1. IndexFor(s) = CHOOSE i \in Indexes : i \notin live
    BY <1>2 DEF IndexFor
  <2>2. \E i \in Indexes : i \notin live
    BY DEF IInv, TypeOK
  <2> QED
    BY <2>1, <2>2
<1> QED
  BY <1>1, <1>2

LEMMA GlobalAddKeeps == ASSUME IInv, GlobalAdd PROVE IInv'
<1> DEFINE s == DeclaredAs(N)
           i == IndexFor(s)
<1>1. /\ pc = "add" /\ pc' = "start" /\ Indexes # live
      /\ namespaces' = <<N>> \o namespaces
      /\ index' = With(index, N, i)
      /\ live' = live \cup {i}
      /\ settings' = With(settings, i, s)
      /\ UNCHANGED <<temp, program, warm, subscribed, active, retired, running,
                     tracked, object, owner, provider, op, cur, todo, last,
                     failed, latest>>
  BY DEF GlobalAdd, flags, cache, cli
<1>2. /\ i \in Indexes
      /\ i \in live \/ i \notin live
  BY <1>1, IndexChosen
<1> HIDE DEF s, i
<1>3. /\ op = "load" /\ InHand = {} /\ InHand' = {} /\ failed = FALSE
      /\ N' = N
  BY <1>1 DEF IInv, ShapeInv, TypeOK, InHand, N
<1>4. /\ cur \in VCLs /\ N[1] = cur /\ N \in Namespaces
      /\ N[2] \in Nat /\ N[2] >= 1 /\ N = <<cur, N[2]>>
      /\ N \notin DOMAIN index /\ Listed \subseteq DOMAIN index
      /\ Listed \subseteq Namespaces /\ N \notin Listed
  BY <1>1, Current
<1>5. /\ namespaces \in Seq(Namespaces) /\ Len(namespaces) \in Nat
      /\ \A a, b \in 1 .. Len(namespaces) :
            namespaces[a] = namespaces[b] => a = b
  <2>1. /\ namespaces \in Seq(Namespaces)
        /\ DOMAIN namespaces = 1 .. Len(namespaces)
        /\ Len(namespaces) \in Nat
    BY LenProperties DEF IInv, OwnedInv
  <2> QED
    BY <2>1 DEF IInv, TypeOK, IsInjective
<1>6. /\ namespaces' \in Seq(Namespaces)
      /\ Len(namespaces') = Len(namespaces) + 1
      /\ namespaces'[1] = N
      /\ \A k \in 1 .. Len(namespaces) : namespaces'[k + 1] = namespaces[k]
      /\ \A k \in 1 .. Len(namespaces') :
            k = 1 \/ (k - 1 \in 1 .. Len(namespaces)
                      /\ namespaces'[k] = namespaces[k - 1])
  <2>1. <<N>> \in Seq(Namespaces) /\ Len(<<N>>) = 1 /\ <<N>>[1] = N
    BY <1>4
  <2> DEFINE one == <<N>>
  <2> HIDE DEF one
  <2>2. /\ one \o namespaces \in Seq(Namespaces)
        /\ Len(one \o namespaces) = Len(one) + Len(namespaces)
        /\ \A k \in 1 .. Len(one) + Len(namespaces) :
              (one \o namespaces)[k] =
                 IF k <= Len(one) THEN one[k] ELSE namespaces[k - Len(one)]
    BY <1>5, <2>1, Joined DEF one
  <2>3. /\ namespaces' \in Seq(Namespaces)
        /\ Len(namespaces') = Len(namespaces) + 1
        /\ \A k \in 1 .. Len(namespaces) + 1 :
              namespaces'[k] = IF k <= 1 THEN N ELSE namespaces[k - 1]
    <3>1. one[1] = N /\ Len(one) = 1 /\ namespaces' = one \o namespaces
      BY <1>1, <2>1 DEF one
    <3>2. Len(namespaces') = Len(namespaces) + 1
      BY <1>5, <2>2, <3>1
    <3>3. ASSUME NEW k \in 1 .. Len(namespaces) + 1
          PROVE  namespaces'[k] = IF k <= 1 THEN N ELSE namespaces[k - 1]
      <4>1. namespaces'[k] = IF k <= 1 THEN one[k] ELSE namespaces[k - 1]
        BY <1>5, <2>2, <3>1
      <4> QED
        BY <1>5, <3>1, <4>1
    <3> QED
      BY <2>2, <3>1, <3>2, <3>3
  <2> QED
    BY <1>5, <2>3
<1>7. Listed' = Listed \cup {N}
  <2>1. ASSUME NEW k \in 1 .. Len(namespaces')
        PROVE  namespaces'[k] \in Listed \cup {N}
    BY <1>6 DEF Listed
  <2>2. ASSUME NEW k \in 1 .. Len(namespaces)
        PROVE  namespaces[k] \in {namespaces'[j] : j \in 1 .. Len(namespaces')}
    <3>1. k + 1 \in 1 .. Len(namespaces') /\ namespaces'[k + 1] = namespaces[k]
      BY <1>5, <1>6
    <3> QED
      BY <3>1
  <2>3. 1 \in 1 .. Len(namespaces') /\ namespaces'[1] = N
    BY <1>5, <1>6
  <2>4. Listed' = {namespaces'[k] : k \in 1 .. Len(namespaces')}
    BY DEF Listed
  <2> QED
    BY <2>1, <2>2, <2>3, <2>4 DEF Listed
<1>8. IsInjective(namespaces')
  <2>1. DOMAIN namespaces' = 1 .. Len(namespaces')
    BY <1>6
  <2> SUFFICES ASSUME NEW a \in 1 .. Len(namespaces'),
                      NEW b \in 1 .. Len(namespaces'),
                      namespaces'[a] = namespaces'[b]
               PROVE  a = b
    BY <2>1 DEF IsInjective
  <2>2. \A k \in 1 .. Len(namespaces) : namespaces[k] # N
    BY <1>4 DEF Listed
  <2> QED
    BY SMTT(60), <1>5, <1>6, <2>2
<1>9. /\ DOMAIN index' = DOMAIN index \cup {N} /\ index'[N] = i
      /\ \A n \in DOMAIN index : index'[n] = index[n]
      /\ DOMAIN settings' = DOMAIN settings \cup {i}
  BY <1>1, <1>4 DEF With
<1>10. warm \subseteq DOMAIN index /\ subscribed \subseteq Listed
  BY <1>1 DEF IInv, TypeOK, FlagsInv
<1>11. InUse' = InUse
  BY <1>1, <1>9, <1>10 DEF InUse
<1>12. TypeOK'
  <2>1. Range(index') \subseteq live'
    BY <1>1, <1>9 DEF IInv, TypeOK, Range
  <2>2. /\ live' \subseteq Indexes /\ DOMAIN settings' = live'
        /\ retired' \subseteq live' /\ running' \subseteq live'
        /\ \A j \in Indexes \ live' : tracked'[j] = {}
    BY <1>1, <1>2, <1>9 DEF IInv, TypeOK
  <2> QED
    BY <1>1, <1>4, <1>7, <1>8, <1>9, <2>1, <2>2 DEF IInv, TypeOK
<1>13. IndexesOwned'
  <2>1. live = {index[n] : n \in Listed}
    BY <1>3 DEF IInv, IndexesOwned
  <2>2. live' = {index'[n] : n \in Listed'}
    BY <1>1, <1>4, <1>7, <1>9, <2>1
  <2> QED
    BY <1>3, <2>2 DEF IndexesOwned
<1>14. ShapeInv' /\ ProviderInv'
  BY <1>1, <1>3, <1>4, <1>7, <1>10 DEF IInv, TypeOK, ShapeInv, ProviderInv
<1>15. TodoInv'
  BY <1>1, <1>3 DEF IInv, TodoInv
<1>16. VclInv'
  <2>1. \A v \in VCLs : /\ Building(v)' <=> Building(v)
                        /\ Built(v)' = IF v = cur THEN N[2] ELSE Built(v)
    BY <1>1, <1>3 DEF Building, Built
  <2>2. Built(cur) = N[2] - 1
    BY <1>1, <1>3 DEF Building, Built
  <2>3. \A v \in VCLs, k \in Nat :
            <<v, k>> \in Listed' <=> 1 <= k /\ k <= Built(v)'
    <3> TAKE v \in VCLs, k \in Nat
    <3>1. <<v, k>> \in Listed <=> 1 <= k /\ k <= Built(v)
      BY DEF IInv, VclInv
    <3>2. <<v, k>> \in Listed' <=> <<v, k>> \in Listed \/ (v = cur /\ k = N[2])
      BY <1>4, <1>7
    <3>3. CASE v = cur
      BY <1>4, <2>1, <2>2, <3>1, <3>2, <3>3
    <3>4. CASE v # cur
      BY <2>1, <3>1, <3>2, <3>4
    <3> QED
      BY <3>3, <3>4
  <2> QED
    BY <1>1, <2>1, <2>3 DEF IInv, VclInv
<1>17. OwnedInv'
  BY <1>3, <1>6, <1>7, <1>9 DEF IInv, OwnedInv
<1>18. FlagsInv'
  BY <1>1, <1>3, <1>4, <1>7, <1>10 DEF IInv, FlagsInv, VclInv
<1>19. SweepInv'
  BY <1>1, <1>11 DEF IInv, SweepInv
<1>20. TrackInv'
  BY <1>1, <1>7, <1>11 DEF IInv, TrackInv
<1>21. SealInv'
  <2>1. \A j : VclsOf(j) \subseteq VclsOf(j)'
    BY <1>4, <1>7, <1>9 DEF VclsOf, UsersOf
  <2>2. temp[N[1]] # "warm"
    BY <1>1, <1>4 DEF IInv, VclInv
  <2>3. \A n \in Listed : index'[n] = index[n]
    BY <1>4, <1>9
  <2> QED
    BY <1>1, <1>7, <2>1, <2>2, <2>3 DEF IInv, SealInv
<1> QED
  BY <1>12, <1>13, <1>14, <1>15, <1>16, <1>17, <1>18, <1>19, <1>20, <1>21
     DEF IInv

(* A warm-up fails: nothing of the namespace is left but its entry in the  *)
(* list; the constructor takes that back, or the VCL is cooled.            *)
LEMMA WarmFailsKeeps ==
    ASSUME IInv, pc = "start" \/ (pc = "release" /\ failed),
           N \notin warm, WarmFails, failed' = FALSE,
           active \cap Listed # {} => provider',
           provider' => active # {}, provider' \in BOOLEAN,
           UNCHANGED <<program, registry, flags, indexes, cache, cur, last,
                       latest>>
    PROVE  IInv'
<1> USE DEF registry, flags, indexes, cache
<1>1. /\ op \in {"load", "warm"} /\ InHand = {} /\ InHand' = {}
      /\ Listed' = Listed /\ InUse' = InUse
      /\ \A i : UsersOf(i)' = UsersOf(i) /\ VclsOf(i)' = VclsOf(i)
      /\ N \in Listed /\ cur \in VCLs
  <2>1. op \in {"load", "warm"} /\ InHand = {} /\ N \in Listed /\ cur \in VCLs
    BY Current DEF IInv, ShapeInv, InHand
  <2>2. InHand' = {}
    BY <2>1 DEF InHand, WarmFails
  <2> QED
    BY <2>1, <2>2 DEF Listed, InUse, UsersOf, VclsOf
<1>2. /\ subscribed = warm /\ warm \subseteq Listed
      /\ running = InUse
  BY DEF IInv, FlagsInv, SweepInv
<1>3. temp[cur] # "warm" /\ (op = "warm" => temp[cur] # "none")
      /\ temp \in [VCLs -> {"none", "init", "warm", "cold"}]
  BY DEF IInv, VclInv, TypeOK
<1>4. /\ temp' \in [VCLs -> {"none", "init", "warm", "cold"}]
      /\ \A v \in VCLs :
             temp'[v] = IF v = cur /\ op = "warm" THEN "cold" ELSE temp[v]
  BY <1>1, <1>3 DEF WarmFails
<1>5. /\ op = "load" => pc' = "unlist" /\ op' = "load" /\ todo' = todo
      /\ op = "warm" => /\ pc' = "mark" /\ op' = "cold"
                        /\ todo' = InListOrder(cur)
  BY DEF WarmFails
<1>6. TypeOK' /\ IndexesOwned'
  <2>1. IndexesOwned'
    BY <1>1 DEF IInv, IndexesOwned
  <2>2. /\ pc' \in {"unlist", "mark"} /\ op' \in {"load", "cold"}
        /\ failed' \in BOOLEAN
    BY <1>1, <1>5
  <2> HIDE DEF N
  <2> QED
    BY <1>1, <1>4, <2>1, <2>2 DEF IInv, TypeOK
<1>7. ShapeInv' /\ OwnedInv' /\ ProviderInv'
  BY <1>1, <1>5 DEF IInv, ShapeInv, OwnedInv, ProviderInv
<1>8. TodoInv'
  <2>1. CASE op = "load"
    BY <1>5, <2>1 DEF IInv, TodoInv, N
  <2>2. CASE op = "warm"
    <3>1. ~Building(cur) /\ temp[cur] # "none"
      BY <1>3, <2>2 DEF Building
    <3> QED
      BY <1>1, <1>5, <2>2, <3>1, EventWork DEF TodoInv, N
  <2> QED
    BY <1>1, <2>1, <2>2
<1>9. VclInv'
  <2>1. \A v \in VCLs : (Building(v)' <=> Building(v)) /\ Built(v)' = Built(v)
    <3>1. CASE op = "load"
      BY <1>1, <1>5, <3>1 DEF Building, Built, N
    <3>2. CASE op = "warm"
      BY <1>5, <3>2 DEF Building, Built
    <3> QED
      BY <1>1, <3>1, <3>2
  <2> QED
    BY <1>1, <1>3, <1>4, <1>5, <2>1 DEF IInv, VclInv
<1>10. FlagsInv'
  <2>1. op = "load" => N' = N
    BY <1>5 DEF N
  <2> QED
    BY <1>1, <1>2, <1>4, <1>5, <2>1 DEF IInv, FlagsInv
<1>11. SweepInv' /\ TrackInv'
  <2>1. SweepInv'
    BY <1>1, <1>2, <1>5 DEF SweepInv
  <2>2. \A x \in Objects : object[x] = "fetched" =>
            owner[x][1] \in VCLs /\ temp[owner[x][1]] = "warm"
    BY Current DEF IInv, TrackInv, Namespaces
  <2>3. TrackInv'
    BY <1>1, <1>3, <1>4, <1>5, <2>2 DEF IInv, TrackInv
  <2> QED
    BY <2>1, <2>3
<1>12. SealInv'
  <2>1. \A n \in Listed : n[1] \in VCLs
    BY Current DEF Namespaces
  <2>2. latest \in VCLs \cup {NoVcl}
    BY DEF IInv, TypeOK
  <2> QED
    BY <1>1, <1>3, <1>4, <2>1, <2>2 DEF IInv, SealInv
<1> QED
  BY <1>6, <1>7, <1>8, <1>9, <1>10, <1>11, <1>12 DEF IInv

LEMMA IndexStartKeeps == ASSUME IInv, IndexStart PROVE IInv'
<1>1. /\ pc = "start" /\ N \notin warm /\ failed = FALSE
      /\ UNCHANGED <<program, namespaces, index, warm, subscribed, active,
                     live,
                     settings, retired, tracked, provider, object, owner, cur,
                     last, failed, latest>>
  BY DEF IndexStart, IInv, TypeOK, ShapeInv, registry, flags, cache
<1>2. CASE running' = running /\ WarmFails
  <2>1. /\ active \cap Listed # {} => provider'
        /\ provider' => active # {}
        /\ provider' \in BOOLEAN
    BY <1>1 DEF IInv, ProviderInv, TypeOK
  <2> QED
    <3>1. UNCHANGED <<program, registry, flags, indexes, cache, cur, last,
                      latest>>
      BY <1>1, <1>2 DEF registry, flags, indexes, cache
    <3>2. WarmFails /\ failed' = FALSE
      BY <1>1, <1>2
    <3>3. N \notin warm /\ (pc = "start" \/ (pc = "release" /\ failed))
      BY <1>1
    <3> QED
      BY <2>1, <3>1, <3>2, <3>3, WarmFailsKeeps
<1>3. CASE running' = running \cup {I} /\ pc' = "subscribe"
           /\ UNCHANGED <<temp, op, todo>>
  <2>1. op \in {"load", "warm"} /\ InHand = {} /\ N \in Listed /\ I \in live
    BY <1>1, Current DEF IInv, ShapeInv, InHand
  <2>2. /\ Listed' = Listed /\ InHand' = {} /\ InUse' = InUse
        /\ N' = N /\ I' = I /\ \A i : VclsOf(i)' = VclsOf(i)
        /\ \A v : Built(v)' = Built(v) /\ (Building(v)' <=> Building(v))
    BY <1>1, <1>3, <2>1
       DEF Listed, InHand, InUse, N, I, VclsOf, UsersOf, Built, Building
  <2>3. TypeOK' /\ IndexesOwned' /\ ShapeInv'
    BY <1>1, <1>3, <2>1, <2>2 DEF IInv, TypeOK, IndexesOwned, ShapeInv
  <2>4. TodoInv' /\ VclInv'
    BY <1>1, <1>3, <2>2 DEF IInv, TodoInv, VclInv
  <2>5. OwnedInv' /\ FlagsInv'
    BY <1>1, <1>3, <2>1, <2>2 DEF IInv, OwnedInv, FlagsInv
  <2>6. SweepInv' /\ TrackInv'
    BY <1>1, <1>3, <2>2 DEF IInv, SweepInv, TrackInv
  <2>7. SealInv' /\ ProviderInv'
    BY <1>1, <1>3, <2>2 DEF IInv, SealInv, ProviderInv
  <2> QED
    BY <2>3, <2>4, <2>5, <2>6, <2>7 DEF IInv
<1> QED
  BY <1>2, <1>3 DEF IndexStart

(* The VCL that has become warm seals the indexes that it does not share,  *)
(* and their objects are killed.                                           *)
LEMMA RetireUnsharedKeeps == ASSUME IInv, RetireUnshared PROVE IInv'
<1>1. /\ pc = "retire" /\ op = "warm" /\ failed = FALSE /\ todo = <<>>
      /\ InHand = {} /\ cur \in VCLs /\ temp[cur] # "warm"
      /\ UNCHANGED <<program, namespaces, index, warm, subscribed, active,
                     live,
                     settings, running, provider, owner, op, cur, todo, last,
                     failed>>
  BY DEF RetireUnshared, registry, flags, cli, IInv, TypeOK, ShapeInv, TodoInv,
         VclInv, InHand
<1>2. /\ Listed' = Listed /\ InUse' = InUse /\ N' = N
      /\ \A i : UsersOf(i)' = UsersOf(i) /\ VclsOf(i)' = VclsOf(i)
  BY <1>1 DEF Listed, InUse, N, UsersOf, VclsOf
<1>3. CASE Unshared # {}
  <2>1. PICK i \in Unshared : /\ retired' = retired \cup {i}
                              /\ object' = Killed(tracked[i])
                              /\ tracked' = [tracked EXCEPT ![i] = {}]
                              /\ UNCHANGED <<pc, temp, latest>>
    BY <1>3 DEF RetireUnshared
  <2>2. i \in live /\ i \in Indexes /\ i \notin retired
    BY DEF Unshared, IInv, TypeOK
  <2>3. /\ tracked' \in [Indexes -> SUBSET Objects]
        /\ \A j \in Indexes : tracked'[j] = IF j = i THEN {} ELSE tracked[j]
    BY <2>1, <2>2 DEF IInv, TypeOK
  <2>4. /\ object' \in [Objects -> {"none", "fetched", "cached", "dying"}]
        /\ \A o \in Objects : object'[o] =
              IF o \in tracked[i] /\ object[o] = "cached" THEN "dying"
              ELSE object[o]
    BY <2>1 DEF Killed, IInv, TypeOK
  <2>5. /\ InHand' = {}
        /\ \A v : (Building(v)' <=> Building(v)) /\ Built(v)' = Built(v)
    BY <1>1, <2>1 DEF InHand, Building, Built
  <2>6. TypeOK'
    <3>1. DOMAIN owner' = {o \in Objects : object'[o] = "fetched"}
      BY <1>1, <2>4 DEF IInv, TypeOK
    <3>2. /\ retired' \subseteq live'
          /\ \A j \in Indexes \ live' : tracked'[j] = {}
      BY <1>1, <2>1, <2>2, <2>3 DEF IInv, TypeOK
    <3> QED
      BY <1>1, <1>2, <2>1, <2>3, <2>4, <3>1, <3>2 DEF IInv, TypeOK
  <2>7. IndexesOwned' /\ ShapeInv' /\ ProviderInv'
    BY <1>1, <1>2, <2>1, <2>5 DEF IInv, IndexesOwned, ShapeInv, ProviderInv
  <2>8. TodoInv' /\ VclInv'
    BY <1>1, <1>2, <2>1, <2>5 DEF IInv, TodoInv, VclInv
  <2>9. OwnedInv' /\ FlagsInv' /\ SweepInv'
    BY <1>1, <1>2, <2>1, <2>5 DEF IInv, OwnedInv, FlagsInv, SweepInv
  <2>10. TrackInv'
    <3>1. live' \subseteq Indexes
      BY <1>1 DEF IInv, TypeOK
    <3> QED
      BY <1>1, <1>2, <2>1, <2>2, <2>3, <2>4, <3>1 DEF IInv, TrackInv
  <2>11. SealInv'
    BY <1>1, <1>2, <2>1, <2>3 DEF IInv, SealInv
  <2> QED
    BY <2>6, <2>7, <2>8, <2>9, <2>10, <2>11 DEF IInv
<1>4. CASE Unshared = {}
  <2>1. /\ pc' = "idle" /\ temp' = [temp EXCEPT ![cur] = "warm"]
        /\ latest' = cur /\ UNCHANGED <<retired, object, tracked>>
    BY <1>4 DEF RetireUnshared
  <2>2. /\ temp' \in [VCLs -> {"none", "init", "warm", "cold"}]
        /\ \A v \in VCLs : temp'[v] = IF v = cur THEN "warm" ELSE temp[v]
    BY <1>1, <2>1 DEF IInv, TypeOK
  <2>3. /\ InHand' = {}
        /\ \A v : (Building(v)' <=> Building(v)) /\ Built(v)' = Built(v)
    BY <1>1, <2>1 DEF InHand, Building, Built
  <2>4. TypeOK'
    BY <1>1, <1>2, <2>1, <2>2 DEF IInv, TypeOK
  <2>5. IndexesOwned' /\ ShapeInv' /\ ProviderInv'
    BY <1>1, <1>2, <2>1, <2>3 DEF IInv, IndexesOwned, ShapeInv, ProviderInv
  <2>6. TodoInv' /\ VclInv'
    BY <1>1, <1>2, <2>1, <2>2, <2>3 DEF IInv, TodoInv, VclInv
  <2>7. OwnedInv' /\ SweepInv'
    BY <1>1, <1>2, <2>1, <2>3 DEF IInv, OwnedInv, SweepInv
  <2>8. FlagsInv'
    <3>1. \A n \in Listed : n[1] = cur => n \in warm
      BY <1>1, EmptySeq DEF IInv, TodoInv
    <3> QED
      BY <1>1, <1>2, <2>1, <2>2, <3>1 DEF IInv, FlagsInv
  <2>9. TrackInv'
    <3>1. \A x \in Objects : object[x] = "fetched" =>
              owner[x][1] \in VCLs /\ temp[owner[x][1]] = "warm"
      BY Current DEF IInv, TrackInv, Namespaces
    <3> QED
      BY <1>1, <1>2, <2>1, <2>2, <3>1 DEF IInv, TrackInv
  <2>10. SealInv'
    <3>1. \A n \in Listed : index[n] \in retired \/ cur \in VclsOf(index[n])
      <4> TAKE n \in Listed
      <4>1. index[n] \in live /\ n \in UsersOf(index[n])
        BY Current DEF IInv, TypeOK, Range, UsersOf
      <4> QED
        BY <1>4, <4>1 DEF Unshared
    <3>2. \A j \in Indexes : tracked[j] # {} => cur \in VclsOf(j)
      <4> TAKE j \in Indexes
      <4> HAVE tracked[j] # {}
      <4>1. j \in live \ retired
        BY DEF IInv, TrackInv
      <4>2. PICK n \in Listed : index[n] = j
        BY <1>1, <4>1 DEF IInv, IndexesOwned
      <4> QED
        BY <3>1, <4>1, <4>2
    <3> QED
      BY <1>1, <1>2, <2>1, <3>1, <3>2 DEF SealInv
  <2> QED
    BY <2>4, <2>5, <2>6, <2>7, <2>8, <2>9, <2>10 DEF IInv
<1> QED
  BY <1>3, <1>4

(***************************************************************************)
(* Cooling a namespace, and destroying it                                  *)
(***************************************************************************)
LEMMA ProviderReleaseKeeps == ASSUME IInv, ProviderRelease PROVE IInv'
<1>1. /\ pc = "release" /\ N \notin warm /\ failed' = FALSE
      /\ UNCHANGED <<program, namespaces, index, warm, subscribed, active,
                     live,
                     settings, retired, running, tracked, object, owner, cur,
                     last, latest>>
  BY DEF ProviderRelease, IInv, FlagsInv, registry, flags, indexes, cache
<1>2. /\ active \cap Listed # {} => provider'
      /\ provider' => active # {}
      /\ provider' \in BOOLEAN
  BY DEF ProviderRelease, ProviderNeeded, IInv, ProviderInv, TypeOK
<1>3. subscribed = warm /\ warm \subseteq Listed /\ running = InUse
  BY <1>1 DEF IInv, FlagsInv, SweepInv
<1>4. CASE failed /\ WarmFails
  <2>1. UNCHANGED <<program, registry, flags, indexes, cache, cur, last,
                    latest>>
    BY <1>1 DEF registry, flags, indexes, cache
  <2>2. N \notin warm /\ (pc = "start" \/ (pc = "release" /\ failed))
    BY <1>1, <1>4
  <2> QED
    BY <1>1, <1>2, <1>4, <2>1, <2>2, WarmFailsKeeps
<1>5. CASE ~failed /\ op = "discard" /\ pc' = "delete"
           /\ UNCHANGED <<temp, op, todo>>
  <2>1. /\ Listed' = Listed /\ InHand' = InHand /\ InUse' = InUse
        /\ N' = N /\ I' = I /\ InHand = {N}
        /\ \A i : VclsOf(i)' = VclsOf(i) /\ UsersOf(i)' = UsersOf(i)
        /\ \A v : Built(v)' = Built(v) /\ (Building(v)' <=> Building(v))
    BY <1>1, <1>5
       DEF Listed, InHand, InUse, N, I, VclsOf, UsersOf, Built, Building
  <2>2. TypeOK' /\ IndexesOwned' /\ ShapeInv'
    <3>1. IndexesOwned' /\ ShapeInv'
      BY <1>1, <1>5, <2>1 DEF IInv, IndexesOwned, ShapeInv
    <3>2. TypeOK'
      BY <1>1, <1>2, <1>5, <2>1 DEF IInv, TypeOK
    <3> QED
      BY <3>1, <3>2
  <2>3. TodoInv' /\ VclInv'
    BY <1>1, <1>5, <2>1 DEF IInv, TodoInv, VclInv
  <2>4. OwnedInv'
    <3>1. UsersOf(I)' = UsersOf(I)
      BY <1>1, <1>5 DEF UsersOf, Listed, I, N
    <3> QED
      BY <1>1, <2>1, <3>1 DEF IInv, OwnedInv
  <2>5. FlagsInv'
    BY <1>1, <1>3, <1>5, <2>1 DEF IInv, FlagsInv
  <2>6. SweepInv' /\ TrackInv'
    BY <1>1, <1>3, <1>5, <2>1 DEF IInv, SweepInv, TrackInv
  <2>7. SealInv' /\ ProviderInv'
    BY <1>1, <1>2, <1>5, <2>1 DEF IInv, SealInv, ProviderInv
  <2> QED
    BY <2>2, <2>3, <2>4, <2>5, <2>6, <2>7 DEF IInv
<1>6. CASE ~failed /\ op = "cold" /\ Advance("mark") /\ op' = op
  <2>1. InHand = {} /\ N \in Listed
    BY <1>1, <1>6, Current DEF InHand
  <2>2. TodoInv'
    BY <1>1, <1>6, AdvanceTodo
  <2>3. /\ VclInv' /\ InHand' = {} /\ Listed' = Listed
        /\ temp' \in [VCLs -> {"none", "init", "warm", "cold"}]
        /\ \A v \in VCLs : temp'[v] = "warm" <=> temp[v] = "warm"
        /\ pc' \in {"mark", "idle"}
    BY <1>1, <1>6, <2>1, AdvanceVcl
  <2>4. InUse' = InUse /\ \A i : VclsOf(i)' = VclsOf(i)
    BY <1>1, <2>3 DEF InUse, VclsOf, UsersOf
  <2>5. TypeOK' /\ IndexesOwned'
    <3>1. IndexesOwned'
      BY <1>1, <2>1, <2>3 DEF IInv, IndexesOwned
    <3>2. TypeOK'
      BY <1>1, <1>2, <1>6, <2>3 DEF IInv, TypeOK
    <3> QED
      BY <3>1, <3>2
  <2>6. ShapeInv' /\ OwnedInv' /\ ProviderInv'
    BY <1>1, <1>2, <1>6, <2>1, <2>3 DEF IInv, ShapeInv, OwnedInv, ProviderInv
  <2>7. FlagsInv'
    BY <1>1, <1>3, <1>6, <2>3 DEF IInv, FlagsInv
  <2>8. SweepInv' /\ TrackInv'
    <3>1. \A x \in Objects : object[x] = "fetched" => owner[x][1] \in VCLs
      BY Current DEF IInv, TrackInv, Namespaces
    <3> QED
      BY <1>1, <1>3, <2>3, <2>4, <3>1 DEF IInv, SweepInv, TrackInv
  <2>9. SealInv'
    <3>1. \A n \in Listed : n[1] \in VCLs
      BY Current DEF Namespaces
    <3>2. latest \in VCLs \cup {NoVcl}
      BY DEF IInv, TypeOK
    <3> QED
      BY <1>1, <2>3, <2>4, <3>1, <3>2 DEF IInv, SealInv
  <2> QED
    BY <2>2, <2>3, <2>5, <2>6, <2>7, <2>8, <2>9 DEF IInv
<1> QED
  BY <1>4, <1>5, <1>6 DEF ProviderRelease

LEMMA GlobalRemoveKeeps == ASSUME IInv, GlobalRemove PROVE IInv'
<1>1. /\ \/ pc = "remove" /\ pc' = "mark"
         \/ pc = "unlist" /\ pc' = "delete"
      /\ last' = LastUser
      /\ provider' = (provider /\ ProviderNeeded(Listed \ {N}))
      /\ UNCHANGED <<temp, program, index, warm, subscribed, active, live,
                     settings, retired, running, tracked, object, owner, op,
                     cur, todo, failed, latest>>
  BY DEF GlobalRemove, flags, indexes, cache
<1>2. /\ op \in {"load", "discard"} /\ (pc = "remove" <=> op = "discard")
      /\ failed = FALSE /\ InHand = {} /\ InHand' = {N} /\ N' = N /\ I' = I
      /\ cur \in VCLs /\ N[1] = cur /\ N \in Listed /\ I \in live
      /\ N[2] \in Nat /\ N[2] >= 1 /\ N = <<cur, N[2]>>
      /\ temp[cur] # "warm"
  <2>1. op \in {"load", "discard"} /\ (pc = "remove" <=> op = "discard")
        /\ failed = FALSE
    BY <1>1 DEF IInv, ShapeInv, TypeOK
  <2>2. InHand = {} /\ InHand' = {N} /\ N' = N /\ I' = I
    BY <1>1, <2>1 DEF InHand, N, I
  <2> QED
    BY <1>1, <2>1, <2>2, Current DEF IInv, VclInv
<1>3. /\ namespaces' \in Seq(Namespaces) /\ IsInjective(namespaces')
      /\ Listed' = Listed \ {N}
  <2>1. PICK k \in 1 .. Len(namespaces) :
           namespaces[k] = N /\ namespaces' = RemoveAt(namespaces, k)
    BY DEF GlobalRemove
  <2>2. /\ namespaces \in Seq(Namespaces)
        /\ \A a, b \in 1 .. Len(namespaces) :
              namespaces[a] = namespaces[b] => a = b
    <3>1. namespaces \in Seq(Namespaces)
          /\ DOMAIN namespaces = 1 .. Len(namespaces)
      BY LenProperties DEF IInv, OwnedInv
    <3> QED
      BY <3>1 DEF IInv, TypeOK, IsInjective
  <2> DEFINE t == RemoveAt(namespaces, k)
  <2>3. /\ t \in Seq(Namespaces)
        /\ \A a, b \in 1 .. Len(t) : t[a] = t[b] => a = b
        /\ {t[a] : a \in 1 .. Len(t)} =
              {namespaces[a] : a \in 1 .. Len(namespaces)} \ {namespaces[k]}
    BY <2>2, RemoveOne
  <2> HIDE DEF t
  <2>4. namespaces' = t /\ DOMAIN t = 1 .. Len(t)
    BY <2>1, <2>3, LenProperties DEF t
  <2>5. IsInjective(t)
    BY <2>3, <2>4 DEF IsInjective
  <2>6. {t[a] : a \in 1 .. Len(t)} = Listed \ {N}
    BY <2>1, <2>3 DEF Listed
  <2>7. Listed' = {t[a] : a \in 1 .. Len(t)}
    BY <2>4 DEF Listed
  <2> QED
    BY <2>3, <2>4, <2>5, <2>6, <2>7
<1>4. /\ \A i : UsersOf(i)' = UsersOf(i) \ {N}
      /\ \A i, v : v \in VclsOf(i) /\ v # cur => v \in VclsOf(i)'
      /\ InUse' = InUse
  BY <1>1, <1>2, <1>3 DEF UsersOf, VclsOf, InUse
<1>5. /\ active \cap Listed' # {} => provider'
      /\ provider' => active # {}
      /\ provider' \in BOOLEAN
  BY <1>1, <1>3 DEF ProviderNeeded, IInv, ProviderInv, TypeOK
<1>6. TypeOK' /\ IndexesOwned'
  <2>1. last' \in BOOLEAN
    BY <1>1 DEF LastUser
  <2>2. TypeOK'
    BY <1>1, <1>3, <1>5, <2>1 DEF IInv, TypeOK
  <2>3. Listed' \cup InHand' = Listed \cup InHand
    BY <1>2, <1>3
  <2>4. IndexesOwned'
    BY <1>1, <2>3 DEF IInv, IndexesOwned
  <2> QED
    BY <2>2, <2>4
<1>7. ShapeInv' /\ ProviderInv'
  BY <1>1, <1>2, <1>5 DEF IInv, ShapeInv, ProviderInv
<1>8. TodoInv'
  BY <1>1, <1>2 DEF IInv, TodoInv
<1>9. VclInv'
  <2>1. /\ \A v \in VCLs : Building(v)' <=> Building(v)
        /\ Building(cur) /\ Built(cur) = N[2]
        /\ \A v \in VCLs :
              Built(v)' = IF v = cur THEN N[2] - 1 ELSE Built(v)
    BY <1>1, <1>2 DEF Building, Built
  <2>2. \A v \in VCLs, k \in Nat :
            <<v, k>> \in Listed' <=> 1 <= k /\ k <= Built(v)'
    <3> TAKE v \in VCLs, k \in Nat
    <3>1. <<v, k>> \in Listed <=> 1 <= k /\ k <= Built(v)
      BY DEF IInv, VclInv
    <3>2. <<v, k>> \in Listed'
              <=> <<v, k>> \in Listed /\ ~(v = cur /\ k = N[2])
      BY <1>2, <1>3
    <3>3. CASE v = cur
      BY <1>2, <2>1, <3>1, <3>2, <3>3
    <3>4. CASE v # cur
      BY <2>1, <3>1, <3>2, <3>4
    <3> QED
      BY <3>3, <3>4
  <2> QED
    BY <1>1, <2>1, <2>2 DEF IInv, VclInv
<1>10. OwnedInv'
  <2>1. Listed' \cup InHand' = Listed \cup InHand
    BY <1>2, <1>3
  <2>2. UsersOf(I)' = UsersOf(I) \ {N}
    BY <1>1, <1>3 DEF UsersOf, I, N
  <2>3. last' <=> UsersOf(I)' = {}
    BY <1>1, <2>2 DEF LastUser
  <2> QED
    BY <1>1, <1>2, <1>3, <2>1, <2>3 DEF IInv, OwnedInv
<1>11. FlagsInv'
  BY <1>1, <1>2, <1>3 DEF IInv, FlagsInv
<1>12. SweepInv'
  BY <1>1, <1>2, <1>4 DEF IInv, SweepInv
<1>13. TrackInv'
  <2>1. \A x \in Objects : object[x] = "fetched" => owner[x] \in Listed'
    BY <1>2, <1>3 DEF IInv, TrackInv
  <2> QED
    BY <1>1, <1>4, <2>1 DEF IInv, TrackInv
<1>14. SealInv'
  BY <1>1, <1>2, <1>3, <1>4 DEF IInv, SealInv
<1> QED
  BY <1>6, <1>7, <1>8, <1>9, <1>10, <1>11, <1>12, <1>13, <1>14 DEF IInv

(* What a destroyed namespace leaves to do: the VCL's earlier ones.        *)
LEMMA DeleteNext ==
    ASSUME IInv, IndexDelete
    PROVE  /\ op' = "discard" /\ cur' = cur
           /\ todo' \in Seq(Namespaces) /\ Len(todo') = N[2] - 1
           /\ \A k \in 1 .. Len(todo') : todo'[k] = <<cur, Len(todo') - k + 1>>
           /\ pc' = IF N[2] = 1 THEN "idle" ELSE "remove"
           /\ temp' \in [VCLs -> {"none", "init", "warm", "cold"}]
           /\ \A v \in VCLs \ {cur} : temp'[v] = temp[v]
           /\ temp'[cur] # "warm"
           /\ N[2] = 1 => temp'[cur] = "none"
           /\ N[2] # 1 => temp' = temp
<1>1. /\ pc = "delete" /\ op \in {"load", "discard"} /\ cur' = cur
      /\ cur \in VCLs /\ N[2] \in Nat /\ N[2] >= 1 /\ temp[cur] # "warm"
      /\ temp \in [VCLs -> {"none", "init", "warm", "cold"}]
      /\ todo # <<>> /\ Len(todo) \in Nat /\ Len(todo) >= 1 /\ todo[1] = N
  BY Current DEF IndexDelete, IInv, ShapeInv, VclInv, TypeOK
<1>2. CASE op = "discard"
  <2>1. /\ Advance("remove") /\ op' = op
    BY <1>2 DEF IndexDelete
  <2>2. Len(todo) = N[2]
    <3>1. todo[1] = <<cur, Len(todo) - 1 + 1>>
      <4>1. \A k \in 1 .. Len(todo) : todo[k] = <<cur, Len(todo) - k + 1>>
        BY <1>1, <1>2 DEF IInv, TodoInv
      <4>2. 1 \in 1 .. Len(todo)
        BY <1>1
      <4> QED
        BY <4>1, <4>2
    <3>2. N = <<cur, Len(todo)>>
      BY <1>1, <3>1
    <3> QED
      BY <3>2
  <2>3. /\ todo' \in Seq(Namespaces)
        /\ Len(todo') = Len(todo) - 1
        /\ \A k \in 1 .. Len(todo') : todo'[k] = todo[k + 1]
        /\ todo' = <<>> <=> Len(todo') = 0
    BY <1>1, <1>2, <2>1, Rest DEF Advance
  <2>4. \A k \in 1 .. Len(todo') : todo'[k] = <<cur, Len(todo') - k + 1>>
    <3> TAKE k \in 1 .. Len(todo')
    <3>1. /\ k + 1 \in 1 .. Len(todo)
          /\ Len(todo) - (k + 1) + 1 = Len(todo') - k + 1
      BY <1>1, <2>3
    <3>2. todo[k + 1] = <<cur, Len(todo) - (k + 1) + 1>>
      BY <1>1, <1>2, <3>1 DEF IInv, TodoInv
    <3> QED
      BY <2>3, <3>1, <3>2
  <2>5. todo' = <<>> <=> N[2] = 1
    BY <1>1, <2>2, <2>3
  <2>6. /\ pc' = IF todo' = <<>> THEN "idle" ELSE "remove"
        /\ temp' = IF todo' = <<>> THEN [temp EXCEPT ![cur] = "none"] ELSE temp
    BY <1>2, <2>1 DEF Advance
  <2>7. Len(todo') = N[2] - 1
    BY <2>2, <2>3
  <2> HIDE DEF N
  <2> QED
    BY <1>1, <1>2, <2>1, <2>3, <2>4, <2>5, <2>6, <2>7
<1>3. CASE op = "load"
  <2>1. /\ todo' = Reverse(SubSeq(Declared(cur), 1, N[2] - 1))
        /\ op' = "discard" /\ temp' = temp
        /\ pc' = IF N[2] > 1 THEN "remove" ELSE "idle"
    BY <1>3 DEF IndexDelete
  <2> DEFINE j == N[2] - 1
             s == SubSeq(Declared(cur), 1, j)
  <2>2. j \in Nat /\ j <= Len(program[cur]) /\ Len(program[cur]) \in Nat
    <3>1. N[2] + Len(todo) = Len(program[cur]) + 1
      BY <1>1, <1>3 DEF IInv, TodoInv
    <3> QED
      BY <1>1, <3>1, Declarations
  <2> HIDE DEF j
  <2>3. \A k \in 1 .. j : /\ Declared(cur)[k] = <<cur, k>>
                          /\ Declared(cur)[k] \in Namespaces
    BY <1>1, <2>2 DEF Declared, Namespaces
  <2>4. /\ s \in Seq(Namespaces) /\ Len(s) = j
        /\ \A k \in 1 .. j : s[k] = <<cur, k>>
    <3>1. /\ SubSeq(Declared(cur), 1, j) \in Seq(Namespaces)
          /\ Len(SubSeq(Declared(cur), 1, j)) = IF 1 <= j THEN j - 1 + 1 ELSE 0
          /\ \A k \in 1 .. j - 1 + 1 :
                SubSeq(Declared(cur), 1, j)[k] = Declared(cur)[1 + k - 1]
      <4>1. /\ j \in Int /\ 1 \in Int
            /\ \A k \in 1 .. j : Declared(cur)[k] \in Namespaces
        BY <2>2, <2>3
      <4> HIDE DEF s
      <4> QED
        BY <4>1, SubSeqProperties
    <3>2. Len(s) = j
      BY <2>2, <3>1
    <3>3. \A k \in 1 .. j : s[k] = <<cur, k>>
      BY <2>2, <2>3, <3>1
    <3> QED
      BY <3>1, <3>2, <3>3
  <2> HIDE DEF s
  <2>5. /\ todo' \in Seq(Namespaces) /\ Len(todo') = j
        /\ \A k \in 1 .. j : todo'[k] = <<cur, j - k + 1>>
    <3>1. /\ Reverse(s) \in Seq(Namespaces) /\ Len(Reverse(s)) = j
          /\ \A k \in 1 .. j : Reverse(s)[k] = <<cur, j - k + 1>>
      BY <1>1, <2>2, <2>4, Backwards
    <3>2. todo' = Reverse(s)
      BY <2>1 DEF s, j
    <3> QED
      BY <3>1, <3>2
  <2>6. temp[cur] = "none" /\ j = N[2] - 1
    BY <1>1, <1>3 DEF IInv, VclInv, j
  <2> HIDE DEF N
  <2> QED
    BY SMTT(60), <1>1, <2>1, <2>5, <2>6
<1> QED
  BY <1>1, <1>2, <1>3

LEMMA IndexDeleteKeeps == ASSUME IInv, IndexDelete PROVE IInv'
<1>1. /\ pc = "delete" /\ op \in {"load", "discard"} /\ failed = FALSE
      /\ cur \in VCLs /\ N[2] \in Nat /\ N[2] >= 1 /\ N[1] = cur
      /\ N \in DOMAIN index /\ I \in live
      /\ InHand = {N} /\ N \notin Listed /\ (last <=> UsersOf(I) = {})
      /\ N \notin warm
      /\ temp[cur] # "warm"
  BY Current DEF IndexDelete, IInv, ShapeInv, TypeOK, InHand, VclInv, OwnedInv,
                 FlagsInv
<1>2. /\ op' = "discard" /\ cur' = cur
      /\ todo' \in Seq(Namespaces) /\ Len(todo') = N[2] - 1
      /\ \A k \in 1 .. Len(todo') : todo'[k] = <<cur, Len(todo') - k + 1>>
      /\ pc' = IF N[2] = 1 THEN "idle" ELSE "remove"
      /\ temp' \in [VCLs -> {"none", "init", "warm", "cold"}]
      /\ \A v \in VCLs \ {cur} : temp'[v] = temp[v]
      /\ temp'[cur] # "warm"
      /\ N[2] = 1 => temp'[cur] = "none"
      /\ N[2] # 1 => temp' = temp
  BY DeleteNext
<1>3. /\ UNCHANGED <<namespaces, warm, subscribed, active, tracked, object,
                     owner, provider, last, failed, latest>>
      /\ index' = Restrict(index, DOMAIN index \ {N})
      /\ program' = IF pc' = "idle" THEN [program EXCEPT ![cur] = <<>>]
                    ELSE program
  BY DEF IndexDelete, flags, cache
<1>4. /\ InHand' = {} /\ Listed' = Listed
      /\ DOMAIN index = Listed \cup {N} /\ DOMAIN index' = Listed
      /\ \A n \in Listed : index'[n] = index[n]
  <2>1. DOMAIN index = Listed \cup {N}
    BY <1>1 DEF IInv, OwnedInv
  <2>2. InHand' = {} /\ Listed' = Listed
    BY <1>2, <1>3 DEF InHand, Listed
  <2> QED
    BY <1>1, <1>3, <2>1, <2>2 DEF Restrict
<1>5. /\ subscribed = warm /\ warm \subseteq Listed /\ running = InUse
      /\ InUse' = InUse
  <2>1. subscribed = warm /\ warm \subseteq Listed /\ running = InUse
    BY <1>1 DEF IInv, FlagsInv, SweepInv
  <2> QED
    BY <1>3, <1>4, <2>1 DEF InUse
<1>6. \A i : UsersOf(i)' = UsersOf(i) /\ VclsOf(i)' = VclsOf(i)
  BY <1>4 DEF UsersOf, VclsOf
<1>7. /\ live' = IF last THEN live \ {I} ELSE live
      /\ retired' = IF last THEN retired \ {I} ELSE retired
      /\ running' = running
      /\ DOMAIN settings' = live'
  <2>1. DOMAIN settings = live
    BY DEF IInv, TypeOK
  <2>2. CASE last
    <3>1. I \notin InUse
      BY <1>1, <1>5, <2>2 DEF InUse, UsersOf
    <3> QED
      BY <1>5, <2>2, <3>1 DEF IndexDelete, Restrict
  <2>3. CASE ~last
    BY <2>1, <2>3 DEF IndexDelete, indexes
  <2> QED
    BY <2>2, <2>3
<1>8. live = {index[n] : n \in Listed} \cup {I}
  BY <1>1 DEF IInv, IndexesOwned, I
<1>9. live' = {index[n] : n \in Listed}
  <2>1. UsersOf(I) = {} <=> I \notin {index[n] : n \in Listed}
    BY DEF UsersOf
  <2> HIDE DEF I
  <2> QED
    BY <1>1, <1>7, <1>8, <2>1
<1>10. last => tracked[I] = {}
  <2>1. last => I \notin InUse
    BY <1>1, <1>5 DEF InUse, UsersOf
  <2>2. I \in Indexes
    BY <1>1 DEF IInv, TypeOK
  <2> QED
    BY <1>1, <2>1, <2>2 DEF IInv, TrackInv
<1>11. TypeOK'
  <2>1. program' \in [VCLs -> Programs \cup {<<>>}]
    BY <1>1, <1>3 DEF IInv, TypeOK
  <2>2. /\ Listed' \subseteq DOMAIN index'
        /\ DOMAIN index' \subseteq Namespaces
        /\ Range(index') \subseteq live'
        /\ warm' \cup subscribed' \subseteq DOMAIN index'
    <3>1. Listed \subseteq Namespaces
      BY Current
    <3>2. Range(index') \subseteq live'
      BY <1>4, <1>9 DEF Range
    <3> QED
      BY <1>3, <1>4, <1>5, <3>1, <3>2
  <2>3. /\ live' \subseteq Indexes /\ retired' \subseteq live'
        /\ running' \subseteq live'
        /\ \A i \in Indexes \ live' : tracked'[i] = {}
    <3>1. InUse \subseteq live'
      BY <1>5, <1>9 DEF InUse
    <3>2. live \subseteq Indexes /\ retired \subseteq live
          /\ \A i \in Indexes \ live : tracked[i] = {}
      BY DEF IInv, TypeOK
    <3> HIDE DEF I
    <3> QED
      BY <1>3, <1>5, <1>7, <1>10, <3>1, <3>2
  <2>4. pc' \in {"idle", "remove"} /\ op' = "discard" /\ cur' \in VCLs
    BY <1>1, <1>2
  <2> HIDE DEF N
  <2> QED
    BY <1>2, <1>3, <1>4, <1>7, <2>1, <2>2, <2>3, <2>4 DEF IInv, TypeOK
<1>12. IndexesOwned'
  BY <1>4, <1>9 DEF IndexesOwned
<1>13. ShapeInv' /\ OwnedInv' /\ ProviderInv'
  BY <1>1, <1>2, <1>3, <1>4 DEF IInv, ShapeInv, OwnedInv, ProviderInv
<1>14. TodoInv'
  <2>1. N[2] # 1 => todo' # <<>>
    BY <1>1, <1>2, EmptySeq
  <2>2. pc' # "retire" /\ (pc' # "idle" => todo' # <<>>)
    BY <1>2, <2>1
  <2> QED
    BY <1>2, <2>2 DEF TodoInv
<1>15. VclInv'
  <2>1. Building(cur) /\ Built(cur) = N[2] - 1
    BY <1>1 DEF Building, Built
  <2>2. \A v \in VCLs \ {cur} : ~Building(v) /\ Built(v) = Len(program[v])
    BY DEF Building, Built
  <2>3. /\ \A v \in VCLs : Building(v)' <=> v = cur /\ N[2] # 1
        /\ \A v \in VCLs : Built(v)' = Built(v)
    <3>1. CASE N[2] = 1
      <4>1. /\ program' = [program EXCEPT ![cur] = <<>>] /\ pc' = "idle"
            /\ program \in [VCLs -> Programs \cup {<<>>}] /\ Len(<<>>) = 0
        BY <1>2, <1>3, <3>1 DEF IInv, TypeOK
      <4>2. /\ program'[cur] = <<>>
            /\ \A v \in VCLs \ {cur} : program'[v] = program[v]
        BY <1>1, <4>1
      <4>3. \A v \in VCLs : ~Building(v)' /\ Built(v)' = Len(program'[v])
        BY <4>1 DEF Building, Built
      <4>4. Built(cur) = 0
        BY <1>1, <2>1, <3>1
      <4> HIDE DEF N
      <4> QED
        BY <2>2, <3>1, <4>1, <4>2, <4>3, <4>4
    <3>2. CASE N[2] # 1
      <4>1. pc' = "remove" /\ program' = program
        BY <1>2, <1>3, <3>2
      <4>2. N' = <<cur, N[2] - 1>>
        <5>1. Len(todo') >= 1 /\ todo' # <<>>
          BY <1>1, <1>2, <3>2, EmptySeq
        <5>2. Head(todo') = todo'[1] /\ 1 \in 1 .. Len(todo')
          BY <1>1, <1>2, <5>1
        <5>3. todo'[1] = <<cur, Len(todo') - 1 + 1>>
          BY <1>2, <5>2
        <5> QED
          BY <1>1, <1>2, <5>2, <5>3 DEF N
      <4>3. N'[2] = N[2] - 1
        BY <4>2
      <4>4. \A v \in VCLs : Building(v)' <=> v = cur
        BY <1>2, <4>1 DEF Building
      <4> HIDE DEF N
      <4>5. \A v \in VCLs :
                Built(v)' = IF v = cur THEN N'[2] ELSE Len(program[v])
        BY <1>2, <1>4, <4>1, <4>4 DEF Built
      <4> QED
        BY <2>1, <2>2, <3>2, <4>3, <4>4, <4>5
    <3> QED
      BY <3>1, <3>2
  <2>4. \A v \in VCLs :
            program'[v] = <<>> <=> temp'[v] = "none" /\ ~Building(v)'
    <3> TAKE v \in VCLs
    <3>1. program[v] = <<>> <=> temp[v] = "none" /\ ~Building(v)
      BY DEF IInv, VclInv
    <3>2. program \in [VCLs -> Programs \cup {<<>>}]
      BY DEF IInv, TypeOK
    <3>3. program'[v] = IF N[2] = 1 /\ v = cur THEN <<>> ELSE program[v]
      BY <1>1, <1>2, <1>3, <3>2
    <3> HIDE DEF N
    <3> QED
      BY <1>2, <2>1, <2>2, <2>3, <3>1, <3>3
  <2>5. pc' # "idle" => cur' \in VCLs /\ temp'[cur'] # "warm"
    BY <1>1, <1>2
  <2> HIDE DEF N
  <2> QED
    BY <1>2, <1>4, <2>3, <2>4, <2>5 DEF IInv, VclInv
<1>16. FlagsInv'
  <2>1. \A v \in VCLs : temp'[v] = "warm" => temp[v] = "warm"
    BY <1>2
  <2>2. pc' \in {"idle", "remove"}
    BY <1>2
  <2> HIDE DEF N
  <2> QED
    BY <1>3, <1>4, <1>5, <2>1, <2>2 DEF IInv, FlagsInv
<1>17. SweepInv'
  BY <1>2, <1>5, <1>7 DEF SweepInv
<1>18. TrackInv'
  <2>1. \A i \in Indexes : tracked[i] # {} =>
            i \in live \ retired /\ i \in InUse
    BY <1>1 DEF IInv, TrackInv
  <2>2. \A i \in Indexes : tracked[i] # {} => i \in live' \ retired'
    <3> HIDE DEF I
    <3> QED
      BY <1>7, <1>10, <2>1
  <2>3. \A o \in Objects : object[o] = "cached" =>
            \E i \in live' : o \in tracked[i]
    <3>1. live \subseteq Indexes
      BY DEF IInv, TypeOK
    <3> HIDE DEF I
    <3> QED
      BY <1>7, <1>10, <3>1 DEF IInv, TrackInv
  <2>4. \A o \in Objects : object[o] = "fetched" =>
            owner[o] \in Listed /\ temp'[owner[o][1]] = "warm"
    <3>1. \A o \in Objects : object[o] = "fetched" =>
              /\ owner[o] \in Listed /\ temp[owner[o][1]] = "warm"
              /\ owner[o][1] \in VCLs
      BY Current DEF IInv, TrackInv, Namespaces
    <3> QED
      BY <1>1, <1>2, <3>1
  <2> QED
    BY <1>3, <1>4, <1>5, <2>1, <2>2, <2>3, <2>4 DEF TrackInv
<1>19. SealInv'
  <2>1. \A n \in Listed : n[1] \in VCLs
    BY Current DEF Namespaces
  <2>2. latest \in VCLs \cup {NoVcl}
    BY DEF IInv, TypeOK
  <2>3. \A v \in VCLs : temp'[v] = "warm" => temp[v] = "warm"
    BY <1>2
  <2>4. \A n \in Listed : index[n] \in retired => index[n] \in retired'
    <3>1. \A n \in Listed : index[n] \in live'
      BY <1>9
    <3> HIDE DEF I
    <3> QED
      BY <1>7, <3>1
  <2> HIDE DEF N, I
  <2> QED
    BY <1>3, <1>4, <1>6, <2>1, <2>2, <2>3, <2>4 DEF IInv, SealInv
<1> QED
  BY <1>11, <1>12, <1>13, <1>14, <1>15, <1>16, <1>17, <1>18, <1>19 DEF IInv

(***************************************************************************)
(* The inductive invariant                                                 *)
(***************************************************************************)
LEMMA Initial == Init => IInv
<1> SUFFICES ASSUME Init PROVE IInv
  OBVIOUS
<1> USE DEF Init
<1>1. Listed = {} /\ InHand = {} /\ InUse = {} /\ DOMAIN index = {}
      /\ DOMAIN settings = {} /\ Range(index) = {}
      /\ \A v : ~Building(v) /\ Built(v) = Len(program[v])
  BY DEF Listed, InHand, InUse, Range, Building, Built
<1>2. TypeOK
  BY <1>1 DEF TypeOK, IsInjective
<1>3. IndexesOwned /\ ShapeInv /\ ProviderInv
  BY <1>1 DEF IndexesOwned, ShapeInv, ProviderInv
<1>4. TodoInv /\ OwnedInv
  BY <1>1, EmptySeq DEF TodoInv, OwnedInv
<1>5. VclInv
  BY <1>1, EmptySeq DEF VclInv
<1>6. FlagsInv /\ SweepInv /\ TrackInv
  BY <1>1 DEF FlagsInv, SweepInv, TrackInv
<1>7. SealInv
  BY DEF SealInv
<1> QED
  BY <1>2, <1>3, <1>4, <1>5, <1>6, <1>7 DEF IInv

LEMMA Stutters == IInv /\ UNCHANGED vars => IInv'
<1> SUFFICES ASSUME IInv, UNCHANGED vars PROVE IInv'
  OBVIOUS
<1>1. UNCHANGED <<temp, program, registry, flags, indexes, provider, pc,
                  cli, latest, tracked, object, owner>>
  BY DEF vars, registry, flags, indexes, cli
<1>2. /\ IndexesOwned' /\ ShapeInv' /\ TodoInv' /\ VclInv' /\ OwnedInv'
      /\ FlagsInv' /\ SweepInv' /\ ProviderInv'
      /\ Listed' = Listed /\ InUse' = InUse /\ I' = I
      /\ \A i : VclsOf(i)' = VclsOf(i)
  BY <1>1, RequestKeeps
<1>3. TypeOK'
  BY <1>1, <1>2 DEF IInv, TypeOK, registry, flags, indexes, cli, Listed
<1>4. TrackInv' /\ SealInv'
  BY <1>1, <1>2 DEF IInv, TrackInv, SealInv, registry, flags, indexes, cli
<1> QED
  BY <1>2, <1>3, <1>4 DEF IInv

LEMMA Steps == IInv /\ [Next]_vars => IInv'
<1> SUFFICES ASSUME IInv, [Next]_vars PROVE IInv'
  OBVIOUS
<1>1. CASE \E v \in VCLs : \/ \E p \in Programs : Load(v, p)
                           \/ WarmEvent(v) \/ ColdEvent(v) \/ Discard(v)
  BY <1>1, LoadKeeps, WarmEventKeeps, ColdEventKeeps, DiscardKeeps
<1>2. CASE GlobalAdd \/ AlreadyWarm \/ IndexStart \/ Subscribe
           \/ ProviderEnsure \/ ProviderAbsent \/ RetireUnshared
  BY <1>2, GlobalAddKeeps, AlreadyWarmKeeps, IndexStartKeeps, SubscribeKeeps,
     ProviderEnsureKeeps, ProviderAbsentKeeps, RetireUnsharedKeeps
<1>3. CASE MarkCold \/ IndexStop \/ KillAll \/ ProviderRelease
           \/ GlobalRemove \/ IndexDelete
  BY <1>3, MarkColdKeeps, IndexStopKeeps, KillAllKeeps, ProviderReleaseKeeps,
     GlobalRemoveKeeps, IndexDeleteKeeps
<1>4. CASE \E o \in Objects : \/ \E n \in Listed : Fetch(o, n)
                              \/ Insert(o) \/ Expire(o)
  BY <1>4, FetchKeeps, InsertKeeps, ExpireKeeps
<1>5. CASE UNCHANGED vars
  BY <1>5, Stutters
<1> QED
  BY <1>1, <1>2, <1>3, <1>4, <1>5 DEF Next

LEMMA Inductive == Spec => []IInv
BY Initial, Steps, PTL DEF Spec

(***************************************************************************)
(* What holds of every run                                                 *)
(***************************************************************************)

(* The state is well formed: every listed namespace has a live index, only *)
(* live indexes have records, and an object that is being fetched has an   *)
(* owner.                                                                  *)
THEOREM RegistryTyped == Spec => []TypeOK
<1>1. IInv => TypeOK
  BY DEF IInv
<1> QED
  BY <1>1, Inductive, PTL

(* No namespace, listed or under destruction, names a deleted index, and   *)
(* an index goes with its last namespace (vmod_cachetag.c:460, 2834).      *)
THEOREM IndexOwnership == Spec => []IndexesOwned
<1>1. IInv => IndexesOwned
  BY DEF IInv
<1> QED
  BY <1>1, Inductive, PTL

(* The index of a warm namespace is swept; between calls no other is, and  *)
(* no other has records (cachetag_namespace_warm, _cold).                  *)
THEOREM Sweeping == Spec => []SweptIffWarm
<1>1. IInv => SweptIffWarm
  <2> SUFFICES ASSUME IInv PROVE SweptIffWarm
    OBVIOUS
  <2>1. InUse = {index[n] : n \in warm}
    BY DEF InUse
  <2>2. InUse \subseteq running /\ (pc = "idle" => running = InUse)
    BY DEF IInv, SweepInv
  <2>3. pc = "idle" => \A i \in Indexes \ InUse : tracked[i] = {}
    BY DEF IInv, TrackInv
  <2> QED
    BY <2>1, <2>2, <2>3 DEF SweptIffWarm
<1> QED
  BY <1>1, Inductive, PTL

(* A VCL that has become warm shares every index that may still hold or    *)
(* take objects, so its purges reach each tagged object that can be hit    *)
(* (cachetag_namespace_retire_unshared).                                   *)
THEOREM WarmVclPurges == Spec => []PurgesReach
<1>1. IInv => PurgesReach
  <2> SUFFICES ASSUME IInv, latest # NoVcl, temp[latest] = "warm",
                      NEW o \in Objects, object[o] = "cached"
               PROVE  \E i \in live : o \in tracked[i] /\ latest \in VclsOf(i)
    BY DEF PurgesReach
  <2>1. PICK i \in live : o \in tracked[i]
    BY DEF IInv, TrackInv
  <2>2. i \in Indexes
    BY DEF IInv, TypeOK
  <2> QED
    BY <2>1, <2>2 DEF IInv, SealInv
<1> QED
  BY <1>1, Inductive, PTL

(* An index with records has a subscriber, so no departure is missed,      *)
(* except while its last warm namespace goes cold                          *)
(* (cachetag_namespace_cold).                                              *)
THEOREM Departures == Spec => []DeparturesHeard
<1>1. IInv => DeparturesHeard
  <2> SUFFICES ASSUME IInv, NEW i \in live, tracked[i] # {}
               PROVE  Hear(i) \/ (pc \in {"stop", "kill"} /\ I = i)
    BY DEF DeparturesHeard
  <2>1. i \in InUse \/ (pc \in {"stop", "kill"} /\ I = i)
    BY DEF IInv, TypeOK, TrackInv
  <2>2. warm \subseteq subscribed
    BY DEF IInv, FlagsInv
  <2> QED
    BY <2>1, <2>2 DEF InUse, Hear
<1> QED
  BY <1>1, Inductive, PTL

(* The provider is registered as long as a listed namespace needs it, and  *)
(* between calls no longer (cachetag_fellow_provider_release_if_idle).     *)
THEOREM ProviderRegistration == Spec => []ProviderHeld
<1>1. IInv => ProviderHeld
  BY DEF IInv, ProviderInv, ProviderHeld
<1> QED
  BY <1>1, Inductive, PTL
=============================================================================
