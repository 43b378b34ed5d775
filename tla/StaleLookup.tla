----------------------------- MODULE StaleLookup -----------------------------
(***************************************************************************)
(* The life of one tagged object between its registration and its release, *)
(* as stale() on request threads, the insert callback, the sweep and the   *)
(* expiry of the cache act on it at once.                                  *)
(*                                                                         *)
(* Where the object can be found moves: first it is on ns->pending, then   *)
(* also in the object index, then only there, then nowhere.  Each look at  *)
(* the pending list is under ns->mtx, each look at the index under         *)
(* obj_mtx, and OC_F_DYING is read under no lock at all, so a stale() call *)
(* makes several looks with anything in between.                           *)
(*                                                                         *)
(* A request that hits the object calls stale() in vcl_hit and again in    *)
(* vcl_deliver, where the answer may come from the request's memo; one     *)
(* that missed, and fetched the object, only calls it in vcl_deliver.      *)
(*                                                                         *)
(* In a persistent namespace the object may be stored by Fellow, with its  *)
(* registration in an attribute that stale() reads from the storage when   *)
(* it finds the object nowhere else; such an object is never in the index, *)
(* and it may come from an earlier process.                                *)
(*                                                                         *)
(* The namespace is the last one with its index that is warm.  While it is *)
(* warm it hears of every object that leaves the cache; when it goes cold  *)
(* it first stops listening, and only then empties the index.              *)
(*                                                                         *)
(* The purge history is a verdict here, which only grows; what a probe of  *)
(* it may miss is the subject of PurgeHistory and PublicationGate.         *)
(***************************************************************************)
EXTENDS Naturals, FiniteSets, FellowEnvelope

CONSTANTS
    Callers,        \* requests that may deliver the object
    Misses,         \* those of them that fetched it
    MaxPurges,      \* purges, of any tag, that a run makes at most
    SweepRuns       \* limits.purgemap_sweep_interval > 0, or compact() is used

ASSUME CallersFinite == IsFiniteSet(Callers)
ASSUME MissesCall == Misses \subseteq Callers
ASSUME MaxPurgesNat == MaxPurges \in Nat
ASSUME SweepBoolean == SweepRuns \in BOOLEAN

VARIABLES
    memo_seq,       \* pm->memo_seq, the purges that are complete
    due,            \* what a probe of the history answers for the object
    storage,        \* where the object is stored, see Storages
    temp,           \* ns->warm_pid and ns->obj_cb, see Temps
    record,         \* the object has a record in the index
    pending,        \* the object's registration is on ns->pending
    ipc,            \* control point of the fetch and its insert callback
    attach_purge,   \* verdict of the probe of the attachment
    busy, dying,    \* OC_F_BUSY and OC_F_DYING of the objcore
    reduced,        \* EXP_Reduce has ended the object's TTL
    expired, freed, \* OEV_EXPIRE has been sent; the objcore is gone
    pc,             \* control point of every request
    call,           \* the call of stale() it is in
    probe,          \* verdict of that call so far
    seq_seen, memo, \* the request's memo: its sequence and its answer
    dueAtStart,     \* due when a request that hit began (not in the code)
    dueAtCall,      \* due when the call began (not in the code)
    overlapped      \* another stale() was removing the object while such a
                    \* request was under way (not in the code)

history == <<memo_seq, due, storage>>
world == <<history, temp>>
places == <<record, pending>>
insertVars == <<ipc, attach_purge>>
objVars == <<busy, dying, reduced, expired, freed>>
memoVars == <<call, seq_seen, memo, dueAtStart, dueAtCall>>
callVars == <<pc, memoVars, probe, overlapped>>
vars == <<memo_seq, due, storage, temp, record, pending, ipc, attach_purge,
          busy, dying, reduced, expired, freed, pc, call, probe, seq_seen, memo,
          dueAtStart, dueAtCall, overlapped>>

Verdicts == {"none", "soft", "hard"}

(* Of a memory-only namespace; or of a persistent one, where Fellow may    *)
(* have put it in memory, or stored it with its registration, or without   *)
(* (tp->fellow_attr_included is 0), or have kept it since an earlier run.  *)
Storages == {"memory", "fallback", "fellow", "unmarked", "restored"}

Fetched == storage # "restored"

(* Warm; or on the way to cold: unsubscribed from object events, while the *)
(* index still has its records; or cold.                                   *)
Temps == {"warm", "unsubscribed", "cold"}

Init ==
    /\ storage \in Storages
    /\ temp = "warm"
    /\ memo_seq = 0
    /\ due \in IF Fetched THEN {"none"} ELSE Verdicts
    /\ record = FALSE
    /\ pending = Fetched
    /\ ipc = IF Fetched THEN "fetch" ELSE "end"
    /\ attach_purge = "none"
    /\ busy = Fetched
    /\ dying = FALSE
    /\ reduced = FALSE
    /\ expired = FALSE
    /\ freed = FALSE
    /\ pc = [c \in Callers |-> "idle"]
    /\ call = [c \in Callers |-> "hit"]
    /\ probe = [c \in Callers |-> "none"]
    /\ seq_seen = [c \in Callers |-> 0]
    /\ memo = [c \in Callers |-> "empty"]
    /\ dueAtStart = [c \in Callers |-> "none"]
    /\ dueAtCall = [c \in Callers |-> "none"]
    /\ overlapped = [c \in Callers |-> FALSE]

(* A purge completes; m is "none" when it is of a tag of other objects.    *)
(* None follows a HARD one of the object, besides the bound MaxPurges.     *)
Purge(m) ==
    /\ temp = "warm"
    /\ memo_seq < MaxPurges /\ due # "hard"
    /\ memo_seq' = memo_seq + 1
    /\ due' = IF m = "none" THEN due ELSE m
    /\ UNCHANGED <<storage, temp, places, insertVars, objVars, callVars>>

(***************************************************************************)
(* The fetch, and OEV_INSERT                                               *)
(***************************************************************************)

(* HSH_Unbusy: the object can be hit before the insert event is sent.      *)
Unbusy ==
    /\ ipc = "fetch"
    /\ busy' = FALSE
    /\ ipc' = "insert"
    /\ UNCHANGED <<world, places, attach_purge, dying, reduced, expired,
                   freed, callVars>>

(* The callback marks the registration consumed, which stays listed.       *)
Consume ==
    /\ ipc = "insert"
    /\ ipc' = "attach"
    /\ UNCHANGED <<world, places, attach_purge, objVars, callVars>>

(* cachetag_attach: append the record and probe, under obj_mtx.            *)
Attach ==
    /\ ipc = "attach" /\ storage \in {"memory", "fallback"}
    /\ record' = TRUE
    /\ attach_purge' = due
    /\ ipc' = "apply"
    /\ UNCHANGED <<world, pending, objVars, callVars>>

(* It fails closed: no record, and a HARD verdict.                         *)
AttachFails ==
    /\ ipc = "attach" /\ storage \in {"memory", "fallback"}
    /\ attach_purge' = "hard"
    /\ ipc' = "apply"
    /\ UNCHANGED <<world, places, objVars, callVars>>

(* cachetag_purgemap_probe_snapshots: an object with its attribute on      *)
(* Fellow is probed, not attached ...                                      *)
ProbeStored ==
    /\ ipc = "attach" /\ storage = "fellow"
    /\ attach_purge' = due
    /\ ipc' = "apply"
    /\ UNCHANGED <<world, places, objVars, callVars>>

(* ... and killed if that fails, as is one without its attribute.          *)
KillStored ==
    /\ ipc = "attach" /\ storage \in {"fellow", "unmarked"}
    /\ dying' = TRUE
    /\ ipc' = "death"
    /\ UNCHANGED <<world, places, attach_purge, busy, reduced, expired,
                   freed, callVars>>

(* cachetag_apply_attach_purge.  A busy object would be left alone.  Here  *)
(* and in ActOther a local that is not used any more is reset.             *)
ApplyAttachPurge ==
    /\ ipc = "apply"
    /\ dying' = (dying \/ (attach_purge = "hard" /\ ~busy))
    /\ reduced' = (reduced \/ attach_purge = "soft")
    /\ ipc' = IF attach_purge = "hard" THEN "death" ELSE "done"
    /\ attach_purge' = "none"
    /\ UNCHANGED <<world, places, busy, expired, freed, callVars>>

(* cachetag_death of the insert callback.                                  *)
InsertDeath ==
    /\ ipc = "death"
    /\ record' = FALSE
    /\ ipc' = "done"
    /\ UNCHANGED <<world, pending, attach_purge, objVars, callVars>>

(* The backend task ends: cachetag_pending_fini unlinks the registration.  *)
TaskEnd ==
    /\ ipc = "done"
    /\ pending' = FALSE
    /\ ipc' = "end"
    /\ UNCHANGED <<world, record, attach_purge, objVars, callVars>>

InsertStep ==
    \/ Unbusy \/ Consume \/ Attach \/ ProbeStored \/ KillStored
    \/ ApplyAttachPurge \/ InsertDeath \/ TaskEnd

(***************************************************************************)
(* stale() on the thread of request c                                      *)
(***************************************************************************)
Goto(c, l) == pc' = [pc EXCEPT ![c] = l]

(* Another stale() has taken the record away but not killed the object.    *)
Window == \E c \in Callers : pc[c] = "kill"

(* A lookup hands the request a reference to the object, unless it is busy *)
(* or dying, and vcl_hit calls stale(); or the request's own fetch has     *)
(* made the object, and vcl_deliver does.                                  *)
BeginRequest(c) ==
    /\ pc[c] = "idle"
    /\ temp = "warm"
    /\ ~busy /\ ~freed
    /\ c \notin Misses => ~dying
    /\ c \in Misses => ipc # "end"
    /\ call' = [call EXCEPT ![c] = IF c \in Misses THEN "deliver" ELSE "hit"]
    /\ dueAtStart' = [dueAtStart EXCEPT ![c] = IF c \in Misses THEN @ ELSE due]
    /\ overlapped' = [overlapped EXCEPT ![c] = c \notin Misses /\ Window]
    /\ Goto(c, "memo")
    /\ UNCHANGED <<world, places, insertVars, objVars, probe, seq_seen, memo,
                   dueAtCall>>

(* The request ends, and with it the workspace that holds its memo.        *)
Leave(c) ==
    /\ Goto(c, "idle")
    /\ call' = [call EXCEPT ![c] = "hit"]
    /\ probe' = [probe EXCEPT ![c] = "none"]
    /\ seq_seen' = [seq_seen EXCEPT ![c] = 0]
    /\ memo' = [memo EXCEPT ![c] = "empty"]
    /\ dueAtStart' = [dueAtStart EXCEPT ![c] = "none"]
    /\ dueAtCall' = [dueAtCall EXCEPT ![c] = "none"]
    /\ overlapped' = [overlapped EXCEPT ![c] = FALSE]

(* A call begins with the memo; when it does not answer, the sequence of   *)
(* the next memo is read before the probe.                                 *)
MemoCall(c, answers, next) ==
    /\ pc[c] = "memo"
    /\ dueAtCall' = [dueAtCall EXCEPT ![c] = due]
    /\ \/ /\ answers
          /\ Goto(c, "fresh")
          /\ UNCHANGED <<seq_seen, probe>>
       \/ /\ ~answers
          /\ Goto(c, "check")
          /\ seq_seen' = [seq_seen EXCEPT ![c] = next]
          /\ probe' = [probe EXCEPT ![c] = "none"]
    /\ UNCHANGED <<world, places, insertVars, objVars, call, memo, dueAtStart,
                   overlapped>>

(* No purge has been published since the answer was found.                 *)
MemoCurrent(c) == memo[c] = "fresh" /\ seq_seen[c] = memo_seq

(* Mutant: the memo answers for an object that has been killed since.      *)
ReadMemoOfDying(c) == MemoCall(c, MemoCurrent(c), memo_seq)

(* Mutant: the memo counts the purge that may be under way.                *)
ReadMemoAhead(c) == MemoCall(c, MemoCurrent(c) /\ ~dying, memo_seq + 1)

ReadMemo(c) == MemoCall(c, MemoCurrent(c) /\ ~dying, memo_seq)

CheckDying(c) ==
    /\ pc[c] = "check"
    /\ Goto(c, IF dying THEN "kill2" ELSE "record")
    /\ UNCHANGED <<world, places, insertVars, objVars, memoVars, probe,
                   overlapped>>

(* One look at a place where the object may be found.                      *)
Look(c, here, there, answers, next) ==
    /\ pc[c] = here
    /\ \E v \in answers :
          probe' = [probe EXCEPT ![c] = IF there THEN v ELSE @]
    /\ Goto(c, IF there THEN "act" ELSE next)
    /\ UNCHANGED <<world, places, insertVars, objVars, memoVars, overlapped>>

(* cachetag_record_probe_purgemap, under obj_mtx.                          *)
ProbeRecord(c) == Look(c, "record", record, {due}, "pending")

(* Mutant: the look skips a registration that has been consumed.           *)
ProbeUnconsumed(c) ==
    Look(c, "pending", ipc \in {"fetch", "insert"}, {due, "hard"}, "record2")

(* cachetag_pending_probe, under ns->mtx; a registration that the insert   *)
(* callback has consumed still counts.  A probe that runs out of memory is *)
(* answered with HARD.                                                     *)
ProbePending(c) == Look(c, "pending", pending, {due, "hard"}, "record2")

(* The insert callback may have attached after the first look.             *)
ProbeRecordAgain(c) ==
    Look(c, "record2", record, {due},
         IF storage = "memory" THEN "act" ELSE "fellow")

(* What Fellow has stored of the object: its registration in this          *)
(* namespace, and perhaps one in another.                                  *)
Registered(ns, seq) ==
    [ns |-> ns, active |-> TRUE, keys |-> <<[fold |-> "f", seq |-> seq]>>]
StoredLists ==
    {<<Registered("own", 1)>>,
     <<Registered("other", 2), Registered("own", 1)>>}

Reads == {Visit(Fill(list, Size(list)), Size(list), "own") :
             list \in StoredLists}

(* No choice of constants is in this: EveryNamespaceReadsItsOwn for the    *)
(* two lists.                                                              *)
ASSUME OwnRegistrationIsRead ==
    Reads = {Found(Record(Registered("own", 1)))}

(* An attribute that cannot be read, or has no record of the namespace's   *)
(* own registration, gives another answer than that registration.          *)
Answer(seen) ==
    IF seen.invalid THEN "hard"
    ELSE IF seen = Found(Record(Registered("own", 1))) THEN due
    ELSE "none"

(* cachetag_fellow_attr_probe, in a persistent namespace: Fellow does not  *)
(* know an object in memory; one without an attribute, and one whose       *)
(* attribute cannot be read, are taken for purged.                         *)
FellowAnswers ==
    CASE storage = "fallback" -> {"none"}
      [] storage = "unmarked" -> {"none", "hard"}
      [] OTHER -> {Answer(seen) : seen \in Reads} \cup {"hard"}

ProbeFellow(c) ==
    /\ pc[c] = "fellow"
    /\ \E v \in FellowAnswers : probe' = [probe EXCEPT ![c] = v]
    /\ Goto(c, "act")
    /\ UNCHANGED <<world, places, insertVars, objVars, memoVars, overlapped>>

(* A HARD verdict removes the record inside cachetag_stale ...             *)
ActHard(c) ==
    /\ pc[c] = "act" /\ probe[c] = "hard"
    /\ record' = FALSE
    /\ Goto(c, "kill")
    /\ overlapped' = [d \in Callers |->
                       \/ overlapped[d]
                       \/ d \notin Misses \cup {c} /\ pc[d] # "idle"]
    /\ UNCHANGED <<world, pending, insertVars, objVars, memoVars, probe>>

(* ... any other verdict answers FALSE, which the memo keeps ...           *)
ActOther(c) ==
    /\ pc[c] = "act" /\ probe[c] # "hard"
    /\ reduced' = (reduced \/ probe[c] = "soft")
    /\ memo' = [memo EXCEPT ![c] = "fresh"]
    /\ probe' = [probe EXCEPT ![c] = "none"]
    /\ Goto(c, "fresh")
    /\ UNCHANGED <<world, places, insertVars, busy, dying, expired, freed,
                   call, seq_seen, dueAtStart, dueAtCall, overlapped>>

(* ... and only vmod_namespace_stale kills the object ...                  *)
Kill(c) ==
    /\ pc[c] \in {"kill", "kill2"}
    /\ dying' = TRUE
    /\ Goto(c, "death")
    /\ UNCHANGED <<world, places, insertVars, busy, reduced, expired, freed,
                   memoVars, probe, overlapped>>

(* ... and calls cachetag_death again; the VCL restarts the request.       *)
Death(c) ==
    /\ pc[c] = "death"
    /\ record' = FALSE
    /\ Leave(c)
    /\ UNCHANGED <<world, pending, insertVars, objVars>>

(* A FALSE in vcl_hit leads to vcl_deliver; there it leads to delivery.    *)
Fresh(c) ==
    /\ pc[c] = "fresh"
    /\ Goto(c, IF call[c] = "hit" THEN "memo" ELSE "delivered")
    /\ call' = [call EXCEPT ![c] = "deliver"]
    /\ UNCHANGED <<world, places, insertVars, objVars, probe, seq_seen, memo,
                   dueAtStart, dueAtCall, overlapped>>

(* The response is on its way and the reference dropped.                   *)
EndRequest(c) ==
    /\ pc[c] = "delivered"
    /\ Leave(c)
    /\ UNCHANGED <<world, places, insertVars, objVars>>

CallerStep(c) ==
    \/ ReadMemo(c) \/ CheckDying(c)
    \/ ProbeRecord(c) \/ ProbePending(c) \/ ProbeRecordAgain(c)
    \/ ProbeFellow(c)
    \/ ActHard(c) \/ ActOther(c) \/ Kill(c) \/ Death(c)
    \/ Fresh(c) \/ EndRequest(c)

(***************************************************************************)
(* Sweeps, the end of the namespace, and the departure of the object       *)
(***************************************************************************)

(* Mutant: an object whose TTL was ended by a SOFT purge is passed over.   *)
SweepKillUnreduced ==
    /\ SweepRuns
    /\ record /\ due = "hard" /\ ~reduced
    /\ record' = FALSE
    /\ dying' = TRUE
    /\ UNCHANGED <<world, pending, insertVars, busy, reduced, expired, freed,
                   callVars>>

(* One object of record_sweep_purgemap, under obj_mtx.                     *)
SweepKill ==
    /\ SweepRuns
    /\ record /\ due = "hard"
    /\ record' = FALSE
    /\ dying' = TRUE
    /\ UNCHANGED <<world, pending, insertVars, busy, reduced, expired, freed,
                   callVars>>

SweepReduce ==
    /\ SweepRuns
    /\ record /\ due = "soft"
    /\ reduced' = TRUE
    /\ UNCHANGED <<world, places, insertVars, busy, dying, expired, freed,
                   callVars>>

(* retire, by a newer VCL; this one goes on listening.                    *)
Retire ==
    /\ temp = "warm" /\ record
    /\ record' = FALSE
    /\ dying' = TRUE
    /\ UNCHANGED <<world, pending, insertVars, busy, reduced, expired, freed,
                   callVars>>

(* cachetag_namespace_cold first stops listening: the CLI makes a VCL cold *)
(* when no task uses it any more ...                                       *)
Unsubscribe ==
    /\ temp = "warm"
    /\ ipc = "end" /\ \A c \in Callers : pc[c] = "idle"
    /\ temp' = "unsubscribed"
    /\ UNCHANGED <<history, places, insertVars, objVars, callVars>>

(* ... and then kills every object that has a record.                      *)
KillAll ==
    /\ temp = "unsubscribed"
    /\ temp' = "cold"
    /\ record' = FALSE
    /\ dying' = (dying \/ record)
    /\ UNCHANGED <<history, pending, insertVars, busy, reduced, expired, freed,
                   callVars>>

Warm ==
    /\ temp = "cold"
    /\ temp' = "warm"
    /\ UNCHANGED <<history, places, insertVars, objVars, callVars>>

(* The cache drops the object by itself: its TTL ends, it is banned, or it *)
(* is nuked.                                                               *)
Depart ==
    /\ ~busy /\ ~dying
    /\ dying' = TRUE
    /\ UNCHANGED <<world, places, insertVars, busy, reduced, expired, freed,
                   callVars>>

(* Mutant: the event does not reach the index.                             *)
ExpireIgnored ==
    /\ dying /\ ~expired
    /\ ipc \in {"done", "end"}
    /\ expired' = TRUE
    /\ UNCHANGED <<world, places, insertVars, busy, dying, reduced, freed,
                   callVars>>

(* The cache sends OEV_EXPIRE, after OEV_INSERT has been handled, to those *)
(* who listen ...                                                          *)
Expire ==
    /\ dying /\ ~expired
    /\ ipc \in {"done", "end"}
    /\ record' = (record /\ temp # "warm")
    /\ expired' = TRUE
    /\ UNCHANGED <<world, pending, insertVars, busy, dying, reduced, freed,
                   callVars>>

(* ... and lets the objcore go with the last reference.                    *)
Free ==
    /\ expired /\ ~freed
    /\ ipc = "end"
    /\ \A c \in Callers : pc[c] = "idle"
    /\ freed' = TRUE
    /\ UNCHANGED <<world, places, insertVars, busy, dying, reduced, expired,
                   callVars>>

Next ==
    \/ \E m \in Verdicts : Purge(m)
    \/ InsertStep
    \/ AttachFails
    \/ \E c \in Callers : BeginRequest(c) \/ CallerStep(c)
    \/ SweepKill \/ SweepReduce
    \/ Retire \/ Unsubscribe \/ KillAll \/ Warm
    \/ Depart \/ Expire \/ Free

Spec == Init /\ [][Next]_vars

(* The fetch and the requests that have begun keep running, and the sweep  *)
(* gets round to every object.  Nothing makes a client come back.          *)
Fairness ==
    /\ WF_vars(InsertStep)
    /\ WF_vars(SweepKill)
    /\ \A c \in Callers : WF_vars(CallerStep(c))

FairSpec == Spec /\ Fairness

(***************************************************************************)
(* Properties                                                              *)
(***************************************************************************)
CallerPoints ==
    {"idle", "memo", "check", "record", "pending", "record2", "fellow", "act",
     "kill", "kill2", "death", "fresh", "delivered"}

(* Every variable has its type.                                            *)
TypeOK ==
    /\ memo_seq \in 0 .. MaxPurges
    /\ due \in Verdicts
    /\ storage \in Storages /\ temp \in Temps
    /\ record \in BOOLEAN /\ pending \in BOOLEAN
    /\ ipc \in {"fetch", "insert", "attach", "apply", "death", "done", "end"}
    /\ attach_purge \in Verdicts
    /\ busy \in BOOLEAN /\ dying \in BOOLEAN /\ reduced \in BOOLEAN
    /\ expired \in BOOLEAN /\ freed \in BOOLEAN
    /\ pc \in [Callers -> CallerPoints]
    /\ call \in [Callers -> {"hit", "deliver"}]
    /\ probe \in [Callers -> Verdicts]
    /\ seq_seen \in [Callers -> 0 .. MaxPurges]
    /\ memo \in [Callers -> {"empty", "fresh"}]
    /\ dueAtStart \in [Callers -> Verdicts]
    /\ dueAtCall \in [Callers -> Verdicts]
    /\ overlapped \in [Callers -> BOOLEAN]

(* The response of c, a hit, is delivered although a HARD purge returned   *)
(* before its lookup.                                                      *)
StaleDelivery(c) == pc[c] = "delivered" /\ dueAtStart[c] = "hard"

(* The two calls of a hit refuse the object wherever it is: on its way     *)
(* from the pending list to the index, being killed by the insert          *)
(* callback, a sweep or the end of the namespace, expiring, or behind a    *)
(* memo.  The one exception is the window of another request's stale().    *)
HitsRefuseStale ==
    \A c \in Callers \ Misses : ~overlapped[c] => ~StaleDelivery(c)

(* A purge that returned before the last call of a request takes effect,   *)
(* even where the request itself may still deliver the object: a HARD one   *)
(* has killed the object or another request is about to, and a SOFT one    *)
(* has ended its TTL or it was killed.  Nobody looks where it is no more    *)
(* and leaves it to the next lookup.                                       *)
PurgesTakeEffect ==
    \A c \in Callers :
        pc[c] = "delivered" =>
            /\ dueAtCall[c] = "hard" => dying \/ Window
            /\ dueAtCall[c] = "soft" => reduced \/ dying \/ Window

(* The index names no objcore that is gone, from the time the namespace is *)
(* warm until it begins to go cold, and none when it is cold: the sweep    *)
(* and retire dereference the oc of every record they find.                *)
RecordsAlive == record => ~freed \/ temp = "unsubscribed"

(* What the callback's comment on OEV_EXPIRE promises: every departure is  *)
(* heard while the objcore is valid, so that no record outlives it.  The   *)
(* sweep and kill_all rely on this, also while the namespace goes cold.    *)
RecordsNeverFreed == record => ~freed

(* A HARD purge ends the object, wherever the object was when it came.     *)
(* One on Fellow is left to the next request that hits it.                 *)
HardPurgeKills ==
    due = "hard" /\ storage \in {"memory", "fallback"} ~> dying
=============================================================================
