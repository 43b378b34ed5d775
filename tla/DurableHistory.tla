---------------------------- MODULE DurableHistory ----------------------------
(***************************************************************************)
(* What a namespace with a persist_path promises of its purges across      *)
(* stops and starts (docs/usage.md:156): a purge that returned success     *)
(* stays in force, and no sequence that an object may have registered      *)
(* under is given out again.                                               *)
(*                                                                         *)
(* bound[t] is the newest sequence s such that an object with tag t that   *)
(* registered before s is refused; pruning may raise it, never lower it    *)
(* below what is owed.                                                     *)
(***************************************************************************)
EXTENDS Naturals

CONSTANT Tags

VARIABLES
    up,         \* the namespace is warm and serves
    seq,        \* newest sequence that has been published
    bound,      \* what the running instance refuses, per tag
    owed        \* newest purge of each tag that returned success

vars == <<up, seq, bound, owed>>

Covers(b) == \A t \in Tags : owed[t] <= b[t]

Init ==
    /\ up = FALSE
    /\ seq = 0
    /\ bound = [t \in Tags |-> 0]
    /\ owed = [t \in Tags |-> 0]

(* A purge takes the next sequence and is in force at once ...             *)
Purge(K) ==
    /\ up
    /\ seq' = seq + 1
    /\ bound' = [t \in Tags |-> IF t \in K THEN seq' ELSE bound[t]]
    /\ UNCHANGED <<up, owed>>

(* ... and returns success once it will be in force after any stop.  The   *)
(* history may be trimmed meanwhile, or the trimming undone.               *)
Return(K) ==
    /\ up
    /\ owed' = [t \in Tags |-> IF t \in K THEN seq ELSE owed[t]]
    /\ bound' \in [Tags -> 0 .. seq]
    /\ \A t \in Tags : owed'[t] <= bound'[t]
    /\ UNCHANGED <<up, seq>>

Trim ==
    /\ up
    /\ bound' \in [Tags -> 0 .. seq]
    /\ Covers(bound')
    /\ UNCHANGED <<up, seq, owed>>

Stop ==
    /\ up
    /\ up' = FALSE
    /\ bound' = owed
    /\ UNCHANGED <<seq, owed>>

(* A purge that failed may or may not be in force after a start.           *)
Start ==
    /\ ~up
    /\ up' = TRUE
    /\ seq' >= seq
    /\ bound' \in [Tags -> 0 .. seq']
    /\ Covers(bound')
    /\ UNCHANGED owed

Next ==
    \/ \E K \in SUBSET Tags : Purge(K) \/ Return(K)
    \/ Trim \/ Stop \/ Start

Spec == Init /\ [][Next]_vars
=============================================================================
