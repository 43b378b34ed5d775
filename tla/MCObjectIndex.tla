---------------------------- MODULE MCObjectIndex ----------------------------
(* Instances of ObjectIndex for model checking.                            *)
EXTENDS ObjectIndex, TLC

ObjectsSymmetry == Permutations(Objects)
=============================================================================
