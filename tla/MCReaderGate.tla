---------------------------- MODULE MCReaderGate ----------------------------
(* Small instances of ReaderGate for TLC. *)
EXTENDS ReaderGate, TLC

(* Readers and tables are interchangeable: Init and Next treat all alike.  *)
Symmetry == Permutations(Readers) \cup Permutations(Tables)
=============================================================================
