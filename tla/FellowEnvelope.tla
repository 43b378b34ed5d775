---------------------------- MODULE FellowEnvelope ----------------------------
(***************************************************************************)
(* The attribute that Fellow stores with an object: the registrations of   *)
(* the object in every persistent namespace, written when the object is    *)
(* stored and read back when stale() finds the object nowhere else,        *)
(* perhaps in a later process.                                             *)
(*                                                                         *)
(* A registration is [ns, active, keys]: the digest of the namespace, its  *)
(* fellow_direct_active, and the keys of its pending entry, each with a    *)
(* fold and a sequence.  Lengths are in bytes; the limits of 16 and 32     *)
(* bits on counts and lengths are left out.                                *)
(***************************************************************************)
LOCAL INSTANCE Naturals
LOCAL INSTANCE Sequences
LOCAL INSTANCE FiniteSetsExt

HeaderLen == 16
RecordHeaderLen == 32
SingletonLen == 40

RecordLen(r) == RecordHeaderLen + 8 * Len(r.keys)

(* The namespaces that take part, in the order of the list.                *)
Included(list) == SelectSeq(list, LAMBDA r : r.active /\ r.keys # <<>>)

Distinct(digests) ==
    \A i, j \in DOMAIN digests : digests[i] = digests[j] => i = j

(* cachetag_fellow_attr_size_cb refuses two registrations under one digest *)
(* and keys of one registration with different sequences.                  *)
Encodable(list) ==
    /\ Distinct([i \in DOMAIN list |-> list[i].ns])
    /\ \A i \in DOMAIN list : \A k \in DOMAIN list[i].keys :
          list[i].keys[k].seq = list[i].keys[1].seq

Size(list) ==
    LET these == Included(list)
        total == MapThenSumSet(LAMBDA i : RecordLen(these[i]), DOMAIN these)
    IN  IF these = <<>> \/ ~Encodable(these) THEN 0
        ELSE IF Len(these) = 1 /\ Len(these[1].keys) = 1 THEN SingletonLen
        ELSE HeaderLen + total

Record(r) ==
    [len |-> RecordLen(r), ns |-> r.ns, seq |-> r.keys[1].seq,
     nfolds |-> Len(r.keys), flags |-> 0,
     folds |-> [k \in DOMAIN r.keys |-> r.keys[k].fold]]

(* cachetag_fellow_attr_fill_singleton, of one key of one namespace.       *)
FillSingleton(these) ==
    [version |-> "singleton", flags |-> 0, ns |-> these[1].ns,
     seq |-> these[1].keys[1].seq, folds |-> <<these[1].keys[1].fold>>]

(* cachetag_fellow_attr_fill_cb.                                           *)
Fill(list, len) ==
    LET these == Included(list)
    IN  IF len = SingletonLen THEN FillSingleton(these)
        ELSE [version |-> "v1", flags |-> 0, len |-> len,
              count |-> Len(these), reserved |-> 0,
              recs |-> [i \in DOMAIN these |-> Record(these[i])]]

(* What a reader of namespace ns makes of an attribute of a length.        *)
Invalid == [invalid |-> TRUE, found |-> FALSE]
NotFound == [invalid |-> FALSE, found |-> FALSE]
Found(x) ==
    [invalid |-> FALSE, found |-> TRUE, seq |-> x.seq, folds |-> x.folds]

WellFormed(rec) ==
    /\ rec.nfolds # 0
    /\ rec.flags = 0
    /\ rec.len = RecordHeaderLen + 8 * rec.nfolds

(* Every record is looked at, also those of other namespaces, and the      *)
(* records fill the attribute.                                             *)
ValidV1(e, len) ==
    /\ e.flags = 0 /\ e.reserved = 0
    /\ e.len = len
    /\ e.count = Len(e.recs)
    /\ \A i \in DOMAIN e.recs : WellFormed(e.recs[i])
    /\ Distinct([i \in DOMAIN e.recs |-> e.recs[i].ns])
    /\ len = HeaderLen + MapThenSumSet(LAMBDA i : e.recs[i].len,
                                       DOMAIN e.recs)

VisitV1(e, len, ns) ==
    LET mine == {i \in DOMAIN e.recs : e.recs[i].ns = ns}
    IN  IF ~ValidV1(e, len) THEN Invalid
        ELSE IF mine = {} THEN NotFound
        ELSE Found(e.recs[CHOOSE i \in mine : TRUE])

VisitSingleton(e, len, ns) ==
    IF len # SingletonLen \/ e.flags # 0 THEN Invalid
    ELSE IF e.ns # ns THEN NotFound
    ELSE Found(e)

Visit(e, len, ns) ==
    CASE e.version = "v1" -> VisitV1(e, len, ns)
      [] e.version = "singleton" -> VisitSingleton(e, len, ns)
      [] OTHER -> Invalid

(***************************************************************************)
(* Checked for all short lists of small registrations                      *)
(***************************************************************************)
Digests == {"own", "other", "third"}
Keys == [fold : {"f", "g"}, seq : {1, 2}]
Registrations ==
    [ns : Digests, active : BOOLEAN,
     keys : {<<>>} \cup {<<k>> : k \in Keys}
                \cup {<<k, l>> : k \in Keys, l \in Keys}]
Lists == {<<r>> : r \in Registrations}
            \cup {<<r, s>> : r \in Registrations, s \in Registrations}

(* The damage to a v1 attribute that cachetag_test_corrupt_fellow_attr and *)
(* the end of cachetag_fellow_attr_fill_cb put there for the tests.        *)
Damaged(e) ==
    ({[e EXCEPT !.recs[1].len = @ - 8], [e EXCEPT !.recs[1].nfolds = 2],
      [e EXCEPT !.flags = 1], [e EXCEPT !.reserved = 1],
      [e EXCEPT !.recs[1].flags = 1], [e EXCEPT !.len = @ - 1],
      [e EXCEPT !.version = "v3"]}
         \cup IF Len(e.recs) < 2 THEN {}
              ELSE {[e EXCEPT !.recs[2].ns = e.recs[1].ns]}) \ {e}

(* Every namespace that takes part finds its own registration, and no      *)
(* other namespace finds one.                                              *)
ASSUME EveryNamespaceReadsItsOwn ==
    \A list \in Lists : Size(list) # 0 =>
        \A ns \in Digests :
            LET these == Included(list)
                mine == {i \in DOMAIN these : these[i].ns = ns}
                seen == Visit(Fill(list, Size(list)), Size(list), ns)
            IN  IF mine = {} THEN seen = NotFound
                ELSE \A i \in mine : seen = Found(Record(these[i]))

(* A damaged attribute is refused by every namespace, whichever record the *)
(* damage is in.                                                           *)
ASSUME DamageIsNoticed ==
    \A list \in Lists : Size(list) \notin {0, SingletonLen} =>
        \A e \in Damaged(Fill(list, Size(list))), ns \in Digests :
            Visit(e, Size(list), ns) = Invalid

(* A short attribute cannot be mistaken for one of the other kind.         *)
ASSUME LengthTellsTheKind ==
    \A list \in Lists :
        Size(list) = SingletonLen <=> /\ Len(Included(list)) = 1
                                      /\ Len(Included(list)[1].keys) = 1
===============================================================================
