--------------------------- MODULE MCInternRegistry ---------------------------
(***************************************************************************)
(* InternRegistry with three tag sets, two of which share a bucket until   *)
(* the table has four; it starts with one.                                 *)
(***************************************************************************)
EXTENDS InternRegistry, TLC

CONSTANTS s1, s2, s3

MCTagSets == {s1, s2, s3}
MCLarge == {s3}
MCHash == (s1 :> 0) @@ (s2 :> 2) @@ (s3 :> 3)

Symmetry == Permutations(Objects) \cup Permutations(Threads)
===============================================================================
