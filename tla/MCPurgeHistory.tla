---------------------------- MODULE MCPurgeHistory ----------------------------
(* A small instance of PurgeHistory for TLC. *)
EXTENDS PurgeHistory, TLC

(* The object carries every tag, so that keys are told apart by nothing.   *)
Symmetry == Permutations(Keys)
=============================================================================
