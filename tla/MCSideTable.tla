----------------------------- MODULE MCSideTable -----------------------------
(* Instances of SideTable for model checking.                              *)
EXTENDS SideTable, TLC

(* An object is only told from the others by its hash and its slot.        *)
ObjectsSymmetry == Permutations(Cores)

(***************************************************************************)
(* Tables of the sizes the code starts with take too many objects for all  *)
(* behaviours to be searched.  These are some of them: object after object *)
(* is attached, lowest first, none goes, and the worker, which has been    *)
(* woken, does not get to run before the last attach.                      *)
(***************************************************************************)
ManyCores == 1 .. 134

NextCore(o) == o = Least(Cores \ InUse)

FillNext ==
    \E t \in Threads :
        \/ Begin(t) /\ \E o \in Cores : NextCore(o) /\ thr'[t].obj = o
        \/ SideAttach(t)

FillSpec == SideInit /\ [][FillNext]_sideVars
=============================================================================
