---------------------------- MODULE TrackedObjects ---------------------------
(***************************************************************************)
(* What the object index promises to the purge map: a set of tracked       *)
(* objects that come and go one by one, and sweeps that judge every object *)
(* which was tracked when they began and is tracked still when they reach  *)
(* it, each exactly once.  ObjectIndex implements this with an array, a    *)
(* map of positions and a cursor.                                          *)
(***************************************************************************)

CONSTANT Objects        \* object cores

VARIABLES
    tracked,            \* the objects in the index
    stale,              \* the objects that a probe would find purged (HARD)
    todo,               \* those the sweep under way has yet to judge
    sweeping,           \* is there a sweep
    closed              \* the index takes no more objects

vars == <<tracked, stale, todo, sweeping, closed>>

Init ==
    /\ tracked = {}
    /\ stale = {}
    /\ todo = {}
    /\ sweeping = FALSE
    /\ closed = FALSE

(* An object that is new here, whatever purges it has missed.              *)
Track(o) ==
    /\ ~closed
    /\ o \notin tracked
    /\ tracked' = tracked \cup {o}
    /\ stale' \in {stale \cup {o}, stale \ {o}}
    /\ UNCHANGED <<todo, sweeping, closed>>

(* Departure, a refused probe, or the end of the index.                    *)
Depart(o) ==
    /\ o \in tracked
    /\ tracked' = tracked \ {o}
    /\ todo' = todo \ {o}
    /\ UNCHANGED <<stale, sweeping, closed>>

Purge(S) ==
    /\ stale' = stale \cup S
    /\ UNCHANGED <<tracked, todo, sweeping, closed>>

BeginSweep ==
    /\ ~sweeping
    /\ sweeping' = TRUE
    /\ todo' = tracked
    /\ UNCHANGED <<tracked, stale, closed>>

(* A stale object leaves the index, any other stays.                       *)
Judge(o) ==
    /\ o \in todo
    /\ todo' = todo \ {o}
    /\ tracked' = IF o \in stale THEN tracked \ {o} ELSE tracked
    /\ UNCHANGED <<stale, sweeping, closed>>

EndSweep ==
    /\ sweeping
    /\ todo = {}
    /\ sweeping' = FALSE
    /\ UNCHANGED <<tracked, stale, todo, closed>>

(* An aborted sweep certifies nothing.                                     *)
AbortSweep ==
    /\ sweeping
    /\ todo # {}
    /\ sweeping' = FALSE
    /\ todo' = {}
    /\ UNCHANGED <<tracked, stale, closed>>

Close ==
    /\ closed' = TRUE
    /\ UNCHANGED <<tracked, stale, todo, sweeping>>

Next ==
    \/ \E o \in Objects : Track(o) \/ Depart(o) \/ Judge(o)
    \/ \E S \in SUBSET Objects : Purge(S)
    \/ BeginSweep \/ EndSweep \/ AbortSweep \/ Close

Spec == Init /\ [][Next]_vars
=============================================================================
