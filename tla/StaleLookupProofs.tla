-------------------------- MODULE StaleLookupProofs --------------------------
(***************************************************************************)
(* Theorems about StaleLookup, for any number of requests, hits and        *)
(* misses, and any number of purges.                                       *)
(***************************************************************************)
EXTENDS StaleLookup, TLAPS

Indexable == storage \in {"memory", "fallback"}

(* The registration is listed from the fetch to the end of the backend     *)
(* task; only an object that Fellow did not store gets a record; the       *)
(* insert callback ends an object that it does not leave findable.         *)
InsertInv ==
    /\ pending <=> ipc # "end"
    /\ busy <=> ipc = "fetch"
    /\ record => Indexable
    /\ storage = "restored" => ipc = "end"
    /\ ipc = "death" => dying
    /\ storage = "unmarked" => ipc # "apply"
    /\ storage = "unmarked" /\ ipc \in {"done", "end"} => dying

(* Once the callback is past the attachment, an object without its record  *)
(* is dying, or about to.                                                  *)
AttachInv ==
    (/\ Indexable
     /\ ~record
     /\ \/ ipc \in {"done", "end"}
        \/ ipc = "apply" /\ attach_purge # "hard") => dying \/ Window

(* No record comes back after the departure of the object, which only a    *)
(* namespace that is going cold does not hear of; one that does not listen *)
(* has no task under way.                                                  *)
DepartureInv ==
    /\ expired => dying /\ ipc \in {"done", "end"}
    /\ expired /\ record => temp = "unsubscribed"
    /\ freed => expired
    /\ temp # "warm" => ipc = "end"
    /\ temp = "cold" => ~record

(* A purge with verdict v has taken effect.                                *)
Effective(v) ==
    /\ v = "hard" => dying \/ Window
    /\ v = "soft" => reduced \/ dying \/ Window

(* The purges behind verdict v are behind verdict w.                       *)
Below(v, w) ==
    /\ v = "hard" => w = "hard"
    /\ v = "soft" => w \in {"soft", "hard"}

InCall == {"check", "record", "pending", "record2", "fellow", "act"}

(* What a call of stale() knows on its way to an answer.                   *)
CallInv(c) ==
    /\ pc[c] = "idle" => memo[c] = "empty"
    /\ pc[c] = "death" => dying
    /\ pc[c] \in {"record2", "fellow"} => ipc = "end"
    /\ pc[c] = "fellow" => storage # "memory" /\ ~record
    /\ Below(dueAtCall[c], due)
    /\ seq_seen[c] <= memo_seq
    /\ pc[c] \in InCall /\ seq_seen[c] = memo_seq => dueAtCall[c] = due
    /\ pc[c] = "act" =>
          Effective(dueAtCall[c]) \/ Below(dueAtCall[c], probe[c])
    /\ pc[c] \in {"fresh", "delivered"} => Effective(dueAtCall[c])
    /\ pc[c] \in {"fresh", "memo"} /\ memo[c] = "fresh" /\ seq_seen[c] = memo_seq
          => Effective(due)

(* A request other than c is in the window.                                *)
Elsewhere(c) == \E d \in Callers \ {c} : pc[d] = "kill"

(* What a hit whose object was purged before it began goes through: its    *)
(* first call ends the object or finds it dying, its second finds it dying. *)
HitInv(c) ==
    /\ c \notin Misses /\ pc[c] # "idle" /\ Elsewhere(c) => overlapped[c]
    /\ Below(dueAtStart[c], due)
    /\ (/\ c \notin Misses
        /\ ~overlapped[c]
        /\ dueAtStart[c] = "hard") =>
          \/ /\ call[c] = "hit"
             /\ pc[c] # "delivered"
             /\ pc[c] = "memo" => memo[c] = "empty"
             /\ pc[c] = "act" => probe[c] = "hard" \/ dying
             /\ pc[c] = "fresh" => dying
          \/ /\ call[c] = "deliver"
             /\ pc[c] \in {"memo", "check", "kill2", "death"}
             /\ dying

StaleInv ==
    /\ TypeOK
    /\ InsertInv /\ AttachInv /\ DepartureInv
    /\ \A c \in Callers : CallInv(c) /\ HitInv(c)

(***************************************************************************)
(* Steps that leave a request alone                                        *)
(***************************************************************************)

(* A verdict stays in effect: the window closes with the kill.             *)
LEMMA EffectiveStays ==
    ASSUME NEW v, Effective(v), dying => dying', reduced => reduced',
           Window => Window' \/ dying'
    PROVE  Effective(v)'
BY DEF Effective

(* What a request knows stays true while others act.                       *)
LEMMA OthersKeep ==
    ASSUME NEW c \in Callers, CallInv(c), HitInv(c),
           pc'[c] = pc[c], call'[c] = call[c], probe'[c] = probe[c],
           seq_seen'[c] = seq_seen[c], memo'[c] = memo[c],
           dueAtStart'[c] = dueAtStart[c], dueAtCall'[c] = dueAtCall[c],
           overlapped[c] => overlapped'[c],
           UNCHANGED history,
           dying => dying', reduced => reduced',
           ipc = "end" => ipc' = "end",
           ipc = "end" /\ record' => record,
           Window => Window' \/ dying',
           \/ c \in Misses
           \/ Elsewhere(c)' => Elsewhere(c) \/ pc[c] = "idle" \/ overlapped'[c]
    PROVE  CallInv(c)' /\ HitInv(c)'
<1>1. CallInv(c)'
  <2>1. Effective(dueAtCall[c]) => Effective(dueAtCall[c])'
    BY EffectiveStays DEF Effective
  <2>2. Effective(due) => Effective(due)'
    BY EffectiveStays DEF Effective, history
  <2> QED
    BY <2>1, <2>2 DEF CallInv, Below, InCall, history
<1>2. HitInv(c)'
  BY DEF HitInv, Below, history
<1> QED
  BY <1>1, <1>2

(* In particular while the object is inserted, swept or removed.           *)
LEMMA ObjectStepKeepsCalls ==
    ASSUME StaleInv, UNCHANGED <<history, callVars>>,
           dying => dying', reduced => reduced',
           ipc = "end" => ipc' = "end",
           ipc = "end" /\ record' => record
    PROVE  \A c \in Callers : CallInv(c)' /\ HitInv(c)'
<1>1. Window' = Window /\ \A c \in Callers : Elsewhere(c)' = Elsewhere(c)
  BY DEF Window, Elsewhere, callVars
<1> QED
  BY <1>1, OthersKeep DEF StaleInv, callVars, memoVars

(* The object stays consistent while a request calls stale().              *)
LEMMA ObjectKept ==
    ASSUME InsertInv, AttachInv, DepartureInv,
           UNCHANGED <<storage, temp, pending, insertVars, busy, expired,
                       freed>>,
           record' => record, dying => dying',
           Window => Window' \/ dying',
           record => record' \/ Window' \/ dying'
    PROVE  InsertInv' /\ AttachInv' /\ DepartureInv'
BY DEF InsertInv, AttachInv, DepartureInv, Indexable, insertVars

(***************************************************************************)
(* Purges, and the object's own steps                                      *)
(***************************************************************************)
LEMMA TypeNext == TypeOK /\ [Next]_vars => TypeOK'
<1> SUFFICES ASSUME TypeOK, [Next]_vars PROVE TypeOK'
  OBVIOUS
<1> USE DEF TypeOK
<1>1. CASE \E m \in Verdicts : Purge(m)
  BY <1>1, MaxPurgesNat
     DEF Purge, places, insertVars, objVars, callVars, memoVars
<1>2. CASE InsertStep \/ AttachFails
  <2> USE DEF world, history, places, objVars, callVars, memoVars
  <2>1. CASE Unbusy \/ Consume \/ InsertDeath \/ TaskEnd \/ KillStored
    BY ZenonT(120), <2>1 DEF Unbusy, Consume, InsertDeath, TaskEnd, KillStored
  <2>2. CASE Attach \/ AttachFails \/ ProbeStored
    BY ZenonT(120), <2>2 DEF Attach, AttachFails, ProbeStored, Verdicts
  <2>3. CASE ApplyAttachPurge
    <3>1. dying' \in BOOLEAN /\ reduced' \in BOOLEAN
      BY <2>3 DEF ApplyAttachPurge
    <3>2. ipc' \in {"death", "done"} /\ attach_purge' \in Verdicts
      BY <2>3 DEF ApplyAttachPurge, Verdicts
    <3> QED
      BY <2>3, <3>1, <3>2 DEF ApplyAttachPurge
  <2> QED
    BY <1>2, <2>1, <2>2, <2>3 DEF InsertStep
<1>3. CASE SweepKill \/ SweepReduce \/ Retire \/ Depart \/ Expire \/ Free
  BY ZenonT(120), <1>3 DEF SweepKill, SweepReduce, Retire, Depart, Expire, Free, world, history,
              places, insertVars, callVars, memoVars
<1>4. ASSUME NEW c \in Callers, BeginRequest(c) \/ CallerStep(c)
      PROVE  TypeOK'
  <2> USE DEF world, history, places, insertVars, objVars, memoVars, Goto
  <2>1. CASE BeginRequest(c)
    <3>1. Window \in BOOLEAN
      BY DEF Window
    <3> QED
      BY <2>1, <3>1 DEF BeginRequest, CallerPoints
  <2>2. CASE ReadMemo(c)
    BY <2>2, MaxPurgesNat DEF ReadMemo, MemoCall, CallerPoints, Verdicts
  <2>3. CASE CheckDying(c)
    BY <2>3 DEF CheckDying, CallerPoints
  <2>4. CASE ProbeRecord(c) \/ ProbePending(c) \/ ProbeRecordAgain(c)
    BY <2>4 DEF ProbeRecord, ProbePending, ProbeRecordAgain, Look,
                CallerPoints, Verdicts
  <2>5. CASE ProbeFellow(c)
    <3>1. FellowAnswers \subseteq Verdicts
      BY DEF FellowAnswers, Answer, Verdicts
    <3> QED
      BY <2>5, <3>1 DEF ProbeFellow, CallerPoints
  <2>6. CASE ActHard(c) \/ ActOther(c)
    <3>1. CASE ActHard(c)
      <4>1. overlapped' \in [Callers -> BOOLEAN]
        BY <3>1 DEF ActHard
      <4> QED
        BY <3>1, <4>1 DEF ActHard, CallerPoints
    <3>2. CASE ActOther(c)
      <4>1. reduced' \in BOOLEAN
        BY <3>2 DEF ActOther
      <4> QED
        BY <3>2, <4>1 DEF ActOther, CallerPoints, Verdicts
    <3> QED
      BY <2>6, <3>1, <3>2
  <2>7. CASE Kill(c)
    BY <2>7 DEF Kill, CallerPoints
  <2>8. CASE Death(c) \/ EndRequest(c)
    <3>1. Leave(c)
      BY <2>8 DEF Death, EndRequest
    <3>2. /\ pc' \in [Callers -> CallerPoints]
          /\ call' \in [Callers -> {"hit", "deliver"}]
          /\ memo' \in [Callers -> {"empty", "fresh"}]
          /\ overlapped' \in [Callers -> BOOLEAN]
      BY <3>1 DEF Leave, CallerPoints
    <3>3. /\ probe' \in [Callers -> Verdicts]
          /\ dueAtStart' \in [Callers -> Verdicts]
          /\ dueAtCall' \in [Callers -> Verdicts]
      BY <3>1 DEF Leave, Verdicts
    <3>4. seq_seen' \in [Callers -> 0 .. MaxPurges]
      BY <3>1, MaxPurgesNat DEF Leave
    <3>5. /\ record' \in BOOLEAN
          /\ UNCHANGED <<world, pending, insertVars, objVars>>
      BY <2>8 DEF Death, EndRequest
    <3> QED
      BY <3>2, <3>3, <3>4, <3>5
  <2>9. CASE Fresh(c)
    BY <2>9 DEF Fresh, CallerPoints
  <2> QED
    BY <1>4, <2>1, <2>2, <2>3, <2>4, <2>5, <2>6, <2>7, <2>8, <2>9
       DEF CallerStep
<1>5. CASE Unsubscribe \/ KillAll \/ Warm
  <2>1. temp' \in Temps /\ record' \in BOOLEAN /\ dying' \in BOOLEAN
    BY <1>5 DEF Unsubscribe, KillAll, Warm, Temps, places, objVars
  <2>2. UNCHANGED <<history, pending, insertVars, busy, reduced, expired,
                    freed, callVars>>
    BY <1>5 DEF Unsubscribe, KillAll, Warm, places, objVars
  <2> QED
    BY <2>1, <2>2 DEF history, insertVars, callVars, memoVars
<1>6. CASE UNCHANGED vars
  BY <1>6 DEF vars
<1> QED
  BY <1>1, <1>2, <1>3, <1>4, <1>5, <1>6 DEF Next

(* A purge only adds to what is due, and outdates every memo.              *)
LEMMA PurgeKeeps ==
    ASSUME StaleInv, NEW m \in Verdicts, Purge(m)
    PROVE  /\ InsertInv' /\ AttachInv' /\ DepartureInv'
           /\ \A c \in Callers : CallInv(c)' /\ HitInv(c)'
<1> USE DEF StaleInv, Purge, places, insertVars, objVars, callVars, memoVars
<1>1. InsertInv' /\ AttachInv' /\ DepartureInv'
  BY DEF InsertInv, AttachInv, DepartureInv, Indexable, Window
<1>2. ASSUME NEW c \in Callers PROVE CallInv(c)' /\ HitInv(c)'
  <2>1. memo_seq \in Nat /\ seq_seen[c] \in Nat /\ seq_seen[c] <= memo_seq
    BY MaxPurgesNat DEF TypeOK, CallInv
  <2>2. seq_seen'[c] <= memo_seq' /\ seq_seen'[c] # memo_seq'
    BY <2>1
  <2>3. ASSUME NEW v, Below(v, due) PROVE Below(v, due)'
    BY <2>3 DEF Below, Verdicts
  <2>4. Below(dueAtCall[c], due)' /\ Below(dueAtStart[c], due)'
    BY <2>3 DEF CallInv, HitInv, Below
  <2>5. CallInv(c)'
    BY <2>2, <2>4 DEF CallInv, Effective, Window, Below
  <2>6. HitInv(c)'
    BY <2>4 DEF HitInv, Elsewhere
  <2> QED
    BY <2>5, <2>6
<1> QED
  BY <1>1, <1>2

LEMMA InsertKeeps ==
    ASSUME StaleInv, InsertStep \/ AttachFails
    PROVE  /\ InsertInv' /\ AttachInv' /\ DepartureInv'
           /\ \A c \in Callers : CallInv(c)' /\ HitInv(c)'
<1> USE DEF world, history, places, objVars
<1>1. CASE Unbusy \/ Consume \/ Attach \/ AttachFails \/ ProbeStored
  <2> USE DEF Unbusy, Consume, Attach, AttachFails, ProbeStored
  <2>1. InsertInv' /\ DepartureInv'
    BY <1>1 DEF StaleInv, InsertInv, DepartureInv, Indexable
  <2>2. AttachInv'
    BY <1>1 DEF StaleInv, AttachInv, Indexable, Window, callVars
  <2>3. \A c \in Callers : CallInv(c)' /\ HitInv(c)'
    BY <1>1, ObjectStepKeepsCalls DEF insertVars
  <2> QED
    BY <2>1, <2>2, <2>3
<1>2. CASE ApplyAttachPurge
  <2>1. /\ dying \in BOOLEAN /\ reduced \in BOOLEAN /\ busy \in BOOLEAN
        /\ ~busy
    BY <1>2 DEF ApplyAttachPurge, StaleInv, TypeOK, InsertInv
  <2>2. /\ dying => dying'
        /\ reduced => reduced'
        /\ attach_purge = "hard" => dying'
    BY <1>2, <2>1 DEF ApplyAttachPurge
  <2>3. InsertInv' /\ DepartureInv'
    BY <1>2, <2>2
       DEF ApplyAttachPurge, StaleInv, InsertInv, DepartureInv, Indexable
  <2>4. AttachInv'
    BY <1>2, <2>2
       DEF ApplyAttachPurge, StaleInv, AttachInv, Indexable, Window, callVars
  <2>5. \A c \in Callers : CallInv(c)' /\ HitInv(c)'
    BY <1>2, <2>2, ObjectStepKeepsCalls DEF ApplyAttachPurge
  <2> QED
    BY <2>3, <2>4, <2>5
<1>3. CASE KillStored \/ InsertDeath \/ TaskEnd
  <2> USE DEF KillStored, InsertDeath, TaskEnd
  <2>1. InsertInv' /\ DepartureInv'
    BY <1>3 DEF StaleInv, InsertInv, DepartureInv, Indexable
  <2>2. AttachInv'
    BY <1>3 DEF StaleInv, InsertInv, AttachInv, Indexable, Window, callVars
  <2>3. \A c \in Callers : CallInv(c)' /\ HitInv(c)'
    BY <1>3, ObjectStepKeepsCalls
  <2> QED
    BY <2>1, <2>2, <2>3
<1> QED
  BY <1>1, <1>2, <1>3 DEF InsertStep

LEMMA RemovalKeeps ==
    ASSUME StaleInv,
           SweepKill \/ SweepReduce \/ Retire \/ Depart \/ Expire \/ Free
    PROVE  /\ InsertInv' /\ AttachInv' /\ DepartureInv'
           /\ \A c \in Callers : CallInv(c)' /\ HitInv(c)'
<1> USE DEF SweepKill, SweepReduce, Retire, Depart, Expire, Free, world,
            history, places, insertVars
<1>1. record \in BOOLEAN /\ dying \in BOOLEAN /\ reduced \in BOOLEAN
  BY DEF StaleInv, TypeOK
<1>2. /\ record' => record
      /\ dying => dying'
      /\ reduced => reduced'
      /\ record => record' \/ dying'
      /\ UNCHANGED <<history, temp, pending, insertVars, busy, callVars>>
  BY <1>1
<1>3. InsertInv'
  BY <1>2 DEF StaleInv, InsertInv, Indexable
<1>4. AttachInv'
  BY <1>2 DEF StaleInv, AttachInv, Indexable, Window, callVars
<1>5. DepartureInv'
  <2>1. CASE Expire
    <3>1. expired' /\ dying' /\ ipc \in {"done", "end"} /\ UNCHANGED freed
      BY <2>1
    <3>2. record' => temp # "warm" /\ record
      BY <2>1, <1>1
    <3> QED
      BY <1>2, <3>1, <3>2 DEF StaleInv, TypeOK, Temps, DepartureInv
  <2>2. CASE SweepKill \/ SweepReduce \/ Retire \/ Depart \/ Free
    <3>1. UNCHANGED expired /\ (freed' => freed \/ expired)
      BY <2>2
    <3> QED
      BY <1>2, <3>1 DEF StaleInv, DepartureInv
  <2> QED
    BY <2>1, <2>2
<1>6. \A c \in Callers : CallInv(c)' /\ HitInv(c)'
  BY <1>2, ObjectStepKeepsCalls
<1> QED
  BY <1>3, <1>4, <1>5, <1>6

(* The namespace goes cold when nothing uses it, and warm without a record. *)
LEMMA TemperatureKeeps ==
    ASSUME StaleInv, Unsubscribe \/ KillAll \/ Warm
    PROVE  /\ InsertInv' /\ AttachInv' /\ DepartureInv'
           /\ \A c \in Callers : CallInv(c)' /\ HitInv(c)'
<1> USE DEF Unsubscribe, KillAll, Warm, history, places, insertVars, objVars
<1>1. /\ dying => dying'
      /\ record => record' \/ dying'
      /\ record' => record
      /\ UNCHANGED <<history, pending, insertVars, busy, reduced, expired,
                     freed, callVars>>
  BY DEF StaleInv, TypeOK
<1>2. InsertInv'
  BY <1>1 DEF StaleInv, InsertInv, Indexable
<1>3. AttachInv'
  BY <1>1 DEF StaleInv, AttachInv, Indexable, Window, callVars
<1>4. DepartureInv'
  BY <1>1 DEF StaleInv, DepartureInv
<1>5. \A c \in Callers : CallInv(c)' /\ HitInv(c)'
  BY <1>1, ObjectStepKeepsCalls
<1> QED
  BY <1>2, <1>3, <1>4, <1>5

(***************************************************************************)
(* The steps of a request                                                  *)
(***************************************************************************)

(* No request but c moves; one may be told that c's window overlaps it.    *)
Alone(c) ==
    \A d \in Callers \ {c} :
        /\ pc'[d] = pc[d] /\ call'[d] = call[d] /\ probe'[d] = probe[d]
        /\ seq_seen'[d] = seq_seen[d] /\ memo'[d] = memo[d]
        /\ dueAtStart'[d] = dueAtStart[d] /\ dueAtCall'[d] = dueAtCall[d]
        /\ overlapped[d] => overlapped'[d]

(* The window opens and closes with the request that is in it.             *)
LEMMA WindowMoves ==
    ASSUME NEW c \in Callers, Alone(c), pc[c] = "kill" => dying'
    PROVE  /\ Window => Window' \/ dying'
           /\ Elsewhere(c)' => Elsewhere(c)
           /\ Elsewhere(c) => Window
           /\ Window /\ pc[c] # "kill" => Elsewhere(c)
BY DEF Window, Elsewhere, Alone

LEMMA RequestStepKeeps ==
    ASSUME StaleInv, NEW c \in Callers, Alone(c),
           UNCHANGED <<world, pending, insertVars, busy, expired, freed>>,
           record' => record, dying => dying', reduced => reduced',
           record => record' \/ dying' \/ pc'[c] = "kill",
           pc[c] = "kill" => dying',
           pc'[c] = "kill" =>
               \A d \in Callers \ {c} :
                  overlapped'[d] \/ pc[d] = "idle" \/ d \in Misses,
           CallInv(c)', HitInv(c)'
    PROVE  /\ InsertInv' /\ AttachInv' /\ DepartureInv'
           /\ \A d \in Callers : CallInv(d)' /\ HitInv(d)'
<1>1. Window => Window' \/ dying'
  BY WindowMoves
<1>2. pc'[c] = "kill" => Window'
  BY DEF Window
<1>3. InsertInv' /\ AttachInv' /\ DepartureInv'
  BY <1>1, <1>2, ObjectKept DEF StaleInv, world, history
<1>4. ASSUME NEW d \in Callers, d # c PROVE CallInv(d)' /\ HitInv(d)'
  <2>1. \/ d \in Misses
        \/ Elsewhere(d)' => Elsewhere(d) \/ pc[d] = "idle" \/ overlapped'[d]
    BY <1>4 DEF Elsewhere, Alone
  <2> QED
    BY <1>1, <1>4, <2>1, OthersKeep DEF StaleInv, Alone, insertVars, world
<1> QED
  BY <1>3, <1>4

Kept(c) ==
    /\ InsertInv' /\ AttachInv' /\ DepartureInv'
    /\ \A d \in Callers : CallInv(d)' /\ HitInv(d)'

LEMMA BeginKeeps ==
    ASSUME StaleInv, NEW c \in Callers, BeginRequest(c)
    PROVE  Kept(c)
<1> USE DEF BeginRequest, Goto, world, history, places, insertVars, objVars
<1>1. Alone(c)
  BY DEF Alone, StaleInv, TypeOK
<1>2. /\ pc'[c] = "memo" /\ memo'[c] = "empty"
      /\ dueAtStart'[c] \in {due, dueAtStart[c]}
      /\ c \notin Misses => call'[c] = "hit"
  BY DEF StaleInv, TypeOK, CallInv
<1>3. c \notin Misses => dueAtStart'[c] = due /\ (Window => overlapped'[c])
  <2> SUFFICES ASSUME c \notin Misses
               PROVE  dueAtStart'[c] = due /\ (Window => overlapped'[c])
    OBVIOUS
  <2>1. dueAtStart'[c] = due
    BY DEF StaleInv, TypeOK
  <2>2. overlapped' = [overlapped EXCEPT ![c] = Window] /\ Window \in BOOLEAN
    BY Zenon DEF Window
  <2>3. overlapped'[c] = Window
    BY <2>2 DEF StaleInv, TypeOK
  <2> QED
    BY <2>1, <2>3
<1>4. Elsewhere(c)' => Window
  BY <1>1, <1>2, WindowMoves
<1>5. CallInv(c)'
  BY <1>2 DEF StaleInv, CallInv, Below, InCall
<1>6. HitInv(c)'
  BY <1>2, <1>3, <1>4 DEF StaleInv, HitInv, Below
<1> QED
  BY <1>1, <1>2, <1>5, <1>6, RequestStepKeeps DEF Kept

LEMMA ReadMemoKeeps ==
    ASSUME StaleInv, NEW c \in Callers, ReadMemo(c)
    PROVE  Kept(c)
<1> USE DEF ReadMemo, MemoCall, Goto, world, history, places, insertVars, objVars
<1>1. Alone(c)
  BY DEF Alone, StaleInv, TypeOK
<1>2. /\ dueAtCall'[c] = due /\ UNCHANGED <<call[c], memo[c]>>
      /\ UNCHANGED <<dueAtStart[c], overlapped[c]>>
      /\ pc[c] = "memo"
      /\ \/ /\ MemoCurrent(c) /\ ~dying
            /\ pc'[c] = "fresh" /\ seq_seen'[c] = seq_seen[c]
         \/ /\ ~(MemoCurrent(c) /\ ~dying)
            /\ pc'[c] = "check" /\ seq_seen'[c] = memo_seq
  BY DEF StaleInv, TypeOK
<1>3. /\ Window => Window' \/ dying'
      /\ Elsewhere(c)' => Elsewhere(c)
  BY <1>1, <1>2, WindowMoves
<1>4. CallInv(c)'
  <2>1. Effective(due) => Effective(due)'
    BY <1>3, EffectiveStays DEF Effective
  <2>2. memo_seq <= memo_seq
    BY MaxPurgesNat DEF StaleInv, TypeOK
  <2> QED
    BY <1>2, <2>1, <2>2
       DEF StaleInv, CallInv, Below, InCall, MemoCurrent, Effective
<1>5. HitInv(c)'
  BY <1>2, <1>3 DEF StaleInv, HitInv, Below, MemoCurrent
<1> QED
  BY <1>1, <1>2, <1>4, <1>5, RequestStepKeeps DEF Kept

LEMMA CheckKeeps ==
    ASSUME StaleInv, NEW c \in Callers, CheckDying(c)
    PROVE  Kept(c)
<1> USE DEF CheckDying, Goto, world, history, places, insertVars, objVars, memoVars
<1>1. Alone(c)
  BY DEF Alone, StaleInv, TypeOK
<1>2. pc[c] = "check" /\ pc'[c] = IF dying THEN "kill2" ELSE "record"
  BY DEF StaleInv, TypeOK
<1>3. Elsewhere(c)' => Elsewhere(c)
  BY <1>1, <1>2, WindowMoves
<1>4. CallInv(c)'
  BY <1>2 DEF StaleInv, CallInv, Below, InCall
<1>5. HitInv(c)'
  BY <1>2, <1>3 DEF StaleInv, HitInv, Below
<1> QED
  BY <1>1, <1>2, <1>4, <1>5, RequestStepKeeps DEF Kept

(* A look that finds the object learns what is due; one that does not      *)
(* leaves the object to the next look, or finds it dying.                  *)
LEMMA LookKeeps ==
    ASSUME StaleInv, NEW c \in Callers,
           ProbeRecord(c) \/ ProbePending(c) \/ ProbeRecordAgain(c)
    PROVE  Kept(c)
<1> USE DEF ProbeRecord, ProbePending, ProbeRecordAgain, Look, Goto, world, history,
            places, insertVars, objVars, memoVars
<1>1. Alone(c)
  BY DEF Alone, StaleInv, TypeOK
<1>2. /\ UNCHANGED <<world, places, insertVars, objVars>>
      /\ UNCHANGED <<call[c], seq_seen[c], memo[c], dueAtStart[c],
                     dueAtCall[c], overlapped[c]>>
  BY DEF StaleInv, TypeOK
<1>3. \/ /\ pc[c] \in {"record", "pending", "record2"}
         /\ pc'[c] = "act" /\ probe'[c] \in {due, "hard"}
      \/ pc[c] = "record" /\ pc'[c] = "pending"
      \/ pc[c] = "pending" /\ ~pending /\ pc'[c] = "record2"
      \/ /\ pc[c] = "record2" /\ ~record
         /\ \/ storage = "memory" /\ pc'[c] = "act"
            \/ storage # "memory" /\ pc'[c] = "fellow"
  BY DEF StaleInv, TypeOK
<1>4. /\ Window => Window' \/ dying'
      /\ Elsewhere(c)' => Elsewhere(c)
  BY <1>1, <1>3, WindowMoves
<1>5. pc[c] = "record2" /\ ~record /\ storage = "memory" => dying \/ Window
  BY DEF StaleInv, AttachInv, Indexable, CallInv
<1>6. CallInv(c)'
  BY <1>2, <1>3, <1>4, <1>5
     DEF StaleInv, InsertInv, CallInv, Below, InCall, Effective
<1>7. Window => Elsewhere(c)
  BY <1>1, <1>3, WindowMoves
<1>8. HitInv(c)'
  BY <1>2, <1>3, <1>4, <1>5, <1>7 DEF StaleInv, HitInv, Below
<1> QED
  BY <1>1, <1>2, <1>3, <1>6, <1>8, RequestStepKeeps DEF Kept

(* Fellow answers for the objects it has stored with their registration;   *)
(* the others it is asked about are dying, or about to.                    *)
LEMMA FellowKeeps ==
    ASSUME StaleInv, NEW c \in Callers, ProbeFellow(c)
    PROVE  Kept(c)
<1> USE DEF ProbeFellow, Goto, world, history, places, insertVars, objVars, memoVars
<1>1. Alone(c)
  BY DEF Alone, StaleInv, TypeOK
<1>2. PICK v \in FellowAnswers : probe' = [probe EXCEPT ![c] = v]
  OBVIOUS
<1>3. /\ UNCHANGED <<call[c], seq_seen[c], memo[c], dueAtStart[c],
                     dueAtCall[c], overlapped[c]>>
      /\ pc[c] = "fellow" /\ pc'[c] = "act" /\ probe'[c] = v
  BY <1>2 DEF StaleInv, TypeOK
<1>4. v \in {"hard", due} \/ storage \in {"fallback", "unmarked"}
  BY OwnRegistrationIsRead DEF FellowAnswers, Answer, Found
<1>5. storage \in {"fallback", "unmarked"} => dying \/ Window
  BY <1>3 DEF StaleInv, CallInv, InsertInv, AttachInv, Indexable
<1>6. /\ Window => Window' \/ dying'
      /\ Elsewhere(c)' => Elsewhere(c)
  BY <1>1, <1>3, WindowMoves
<1>7. CallInv(c)'
  BY <1>3, <1>4, <1>5, <1>6 DEF StaleInv, CallInv, Below, InCall, Effective
<1>8. Window => Elsewhere(c)
  BY <1>1, <1>3, WindowMoves
<1>9. HitInv(c)'
  BY <1>3, <1>4, <1>5, <1>6, <1>8 DEF StaleInv, HitInv, Below
<1> QED
  BY <1>1, <1>3, <1>7, <1>9, RequestStepKeeps DEF Kept

LEMMA ActHardKeeps ==
    ASSUME StaleInv, NEW c \in Callers, ActHard(c)
    PROVE  Kept(c)
<1> USE DEF ActHard, Goto, world, history, insertVars, objVars, memoVars
<1>1. Alone(c)
  BY DEF Alone, StaleInv, TypeOK
<1>2. /\ \A d \in Callers \ {c} :
            overlapped'[d] \/ pc[d] = "idle" \/ d \in Misses
      /\ overlapped[c] => overlapped'[c]
      /\ pc[c] = "act" /\ pc'[c] = "kill"
      /\ UNCHANGED <<call[c], seq_seen[c], memo[c], dueAtStart[c],
                     dueAtCall[c]>>
      /\ ~record'
  BY DEF StaleInv, TypeOK
<1>3. CallInv(c)'
  BY <1>2 DEF StaleInv, CallInv, Below, InCall
<1>4. Elsewhere(c)' => Elsewhere(c)
  BY <1>1 DEF Elsewhere, Alone
<1>5. HitInv(c)'
  BY <1>2, <1>4 DEF StaleInv, HitInv, Below
<1> QED
  BY <1>1, <1>2, <1>3, <1>5, RequestStepKeeps DEF Kept

LEMMA ActOtherKeeps ==
    ASSUME StaleInv, NEW c \in Callers, ActOther(c)
    PROVE  Kept(c)
<1> USE DEF ActOther, Goto, world, history, places, insertVars
<1>1. Alone(c)
  BY DEF Alone, StaleInv, TypeOK
<1>2. /\ UNCHANGED <<call[c], seq_seen[c], dueAtStart[c], dueAtCall[c],
                     overlapped[c]>>
      /\ pc[c] = "act" /\ probe[c] # "hard"
      /\ pc'[c] = "fresh" /\ memo'[c] = "fresh"
  BY DEF StaleInv, TypeOK
<1>3. reduced \in BOOLEAN
  BY DEF StaleInv, TypeOK
<1>4. (reduced => reduced') /\ (probe[c] = "soft" => reduced')
  BY <1>3
<1>5. /\ Window => Window' \/ dying'
      /\ Elsewhere(c)' => Elsewhere(c)
  BY <1>1, <1>2, WindowMoves
<1>6. Effective(dueAtCall[c])'
  <2>1. CASE Effective(dueAtCall[c])
    BY <1>2, <1>4, <1>5, <2>1 DEF Effective
  <2>2. CASE Below(dueAtCall[c], probe[c])
    BY <1>2, <1>4, <2>2 DEF Effective, Below
  <2> QED
    BY <1>2, <2>1, <2>2 DEF StaleInv, CallInv
<1>7. CallInv(c)'
  BY <1>2, <1>6 DEF StaleInv, CallInv, Below, InCall
<1>8. HitInv(c)'
  BY <1>2, <1>5 DEF StaleInv, HitInv, Below
<1> QED
  BY <1>1, <1>2, <1>4, <1>7, <1>8, RequestStepKeeps DEF Kept

(* The kill, the second cachetag_death, and the ends of a request.         *)
LEMMA EndKeeps ==
    ASSUME StaleInv, NEW c \in Callers,
           Kill(c) \/ Death(c) \/ Fresh(c) \/ EndRequest(c)
    PROVE  Kept(c)
<1> USE DEF Goto, world, history, places, insertVars, objVars, memoVars
<1>1. CASE Kill(c)
  <2>1. Alone(c)
    BY <1>1 DEF Kill, Alone, StaleInv, TypeOK
  <2>2. /\ pc[c] \in {"kill", "kill2"} /\ pc'[c] = "death" /\ dying'
        /\ UNCHANGED <<world, places, insertVars, busy, reduced, expired,
                       freed, memoVars, probe, overlapped>>
    BY <1>1 DEF Kill, StaleInv, TypeOK
  <2>3. Elsewhere(c)' => Elsewhere(c)
    BY <2>1, <2>2, WindowMoves
  <2>4. CallInv(c)'
    BY <2>2 DEF StaleInv, CallInv, Below, InCall
  <2>5. HitInv(c)'
    BY <2>2, <2>3 DEF StaleInv, HitInv, Below
  <2> QED
    BY <2>1, <2>2, <2>4, <2>5, RequestStepKeeps DEF Kept
<1>2. CASE Death(c) \/ EndRequest(c)
  <2> USE DEF Death, EndRequest, Leave
  <2>1. Alone(c)
    BY <1>2 DEF Alone, StaleInv, TypeOK
  <2>2. /\ pc[c] \in {"death", "delivered"} /\ pc'[c] = "idle"
        /\ call'[c] = "hit" /\ memo'[c] = "empty" /\ seq_seen'[c] = 0
        /\ dueAtStart'[c] = "none" /\ dueAtCall'[c] = "none"
        /\ pc[c] = "death" => dying
        /\ UNCHANGED <<world, pending, insertVars, objVars>>
        /\ pc[c] = "delivered" => UNCHANGED record
        /\ record' => record
    BY <1>2 DEF StaleInv, TypeOK, CallInv
  <2>3. CallInv(c)'
    BY <2>2 DEF StaleInv, TypeOK, CallInv, Below, InCall
  <2>4. HitInv(c)'
    BY <2>2 DEF HitInv, Below
  <2> QED
    BY <2>1, <2>2, <2>3, <2>4, RequestStepKeeps DEF Kept
<1>3. CASE Fresh(c)
  <2> USE DEF Fresh
  <2>1. Alone(c)
    BY <1>3 DEF Alone, StaleInv, TypeOK
  <2>2. /\ pc[c] = "fresh" /\ call'[c] = "deliver"
        /\ pc'[c] = IF call[c] = "hit" THEN "memo" ELSE "delivered"
        /\ UNCHANGED <<world, places, insertVars, objVars, probe, seq_seen,
                       memo, dueAtStart, dueAtCall, overlapped>>
    BY <1>3 DEF StaleInv, TypeOK
  <2>3. /\ Window => Window' \/ dying'
        /\ Elsewhere(c)' => Elsewhere(c)
    BY <2>1, <2>2, WindowMoves
  <2>4. CallInv(c)'
    BY <2>2, <2>3 DEF StaleInv, CallInv, Below, InCall, Effective
  <2>5. HitInv(c)'
    BY <2>2, <2>3 DEF StaleInv, HitInv, Below
  <2> QED
    BY <2>1, <2>2, <2>4, <2>5, RequestStepKeeps DEF Kept
<1> QED
  BY <1>1, <1>2, <1>3

(***************************************************************************)
(* The theorems                                                            *)
(***************************************************************************)
LEMMA InitInv == Init => StaleInv
<1> SUFFICES ASSUME Init PROVE StaleInv
  OBVIOUS
<1> USE DEF Init
<1>1. TypeOK
  <2>1. 0 \in 0 .. MaxPurges
    BY MaxPurgesNat
  <2>2. due \in Verdicts /\ "none" \in Verdicts /\ temp \in Temps
    BY DEF Verdicts, Temps
  <2>3. pending \in BOOLEAN /\ busy \in BOOLEAN /\ ipc \in {"fetch", "end"}
    BY DEF Fetched
  <2> QED
    BY <2>1, <2>2, <2>3 DEF TypeOK, CallerPoints
<1>2. InsertInv /\ AttachInv /\ DepartureInv
  BY DEF InsertInv, AttachInv, DepartureInv, Indexable, Storages, Fetched
<1>3. \A c \in Callers : CallInv(c) /\ HitInv(c)
  BY DEF CallInv, HitInv, Elsewhere, Below, InCall
<1> QED
  BY <1>1, <1>2, <1>3 DEF StaleInv

LEMMA NextInv == StaleInv /\ [Next]_vars => StaleInv'
<1> SUFFICES ASSUME StaleInv, [Next]_vars PROVE StaleInv'
  OBVIOUS
<1>1. TypeOK'
  BY TypeNext DEF StaleInv
<1>2. CASE \E m \in Verdicts : Purge(m)
  BY <1>1, <1>2, PurgeKeeps DEF StaleInv
<1>3. CASE InsertStep \/ AttachFails
  BY <1>1, <1>3, InsertKeeps DEF StaleInv
<1>4. CASE SweepKill \/ SweepReduce \/ Retire \/ Depart \/ Expire \/ Free
  BY <1>1, <1>4, RemovalKeeps DEF StaleInv
<1>5. ASSUME NEW c \in Callers, BeginRequest(c) \/ CallerStep(c)
      PROVE  Kept(c)
  BY <1>5, BeginKeeps, ReadMemoKeeps, CheckKeeps, LookKeeps, FellowKeeps,
     ActHardKeeps, ActOtherKeeps, EndKeeps DEF CallerStep
<1>6. CASE Unsubscribe \/ KillAll \/ Warm
  BY <1>1, <1>6, TemperatureKeeps DEF StaleInv
<1>7. CASE UNCHANGED vars
  <2>1. InsertInv' /\ AttachInv' /\ DepartureInv'
    BY <1>7 DEF StaleInv, InsertInv, AttachInv, DepartureInv, Indexable,
                Window, vars
  <2>2. \A c \in Callers : CallInv(c)' /\ HitInv(c)'
    BY <1>7, ObjectStepKeepsCalls DEF vars, world, history, callVars, memoVars
  <2> QED
    BY <1>1, <2>1, <2>2 DEF StaleInv
<1> QED
  BY <1>1, <1>2, <1>3, <1>4, <1>5, <1>6, <1>7 DEF Next, Kept, StaleInv

LEMMA Invariance == Spec => []StaleInv
BY InitInv, NextInv, PTL DEF Spec

(* Every variable keeps its type: the memo's sequence, say, is never ahead *)
(* of the purges.                                                          *)
THEOREM TypeCorrect == Spec => []TypeOK
<1>1. StaleInv => TypeOK
  BY DEF StaleInv
<1> QED
  BY <1>1, Invariance, PTL

(* The index names no objcore that is gone, however attachments, sweeps,   *)
(* requests, purges and the expiry of the object interleave, except        *)
(* between the unsubscription and the kill_all of a namespace that goes    *)
(* cold; a warm or a cold namespace is left with no such record.           *)
THEOREM RecordsLive == Spec => []RecordsAlive
<1>1. StaleInv => RecordsAlive
  BY DEF StaleInv, DepartureInv, RecordsAlive
<1> QED
  BY <1>1, Invariance, PTL

(* A request that hits an object which a HARD purge met before its lookup  *)
(* does not deliver it, but in the window of another request.              *)
THEOREM HitsRefused == Spec => []HitsRefuseStale
<1>1. StaleInv => HitsRefuseStale
  BY DEF StaleInv, HitInv, HitsRefuseStale, StaleDelivery
<1> QED
  BY <1>1, Invariance, PTL

(* When a response is delivered, every purge that returned before its last *)
(* call of stale() has taken effect on the object.                         *)
THEOREM PurgesEffective == Spec => []PurgesTakeEffect
<1>1. StaleInv => PurgesTakeEffect
  BY DEF StaleInv, CallInv, Effective, PurgesTakeEffect
<1> QED
  BY <1>1, Invariance, PTL
=============================================================================
