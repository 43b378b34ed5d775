-------------------------- MODULE MCPublicationGate --------------------------
(* Small instances of PublicationGate for TLC. *)
EXTENDS PublicationGate, TLC

(* Every object carries every tag.                                         *)
AllTags == [o \in Objects |-> Keys]

Symmetry == Permutations(Objects) \cup Permutations(Keys)
=============================================================================
