---------------------------- MODULE VclLifecycle ----------------------------
(***************************************************************************)
(* The namespaces of all loaded VCLs: which index each uses, when a new    *)
(* VCL takes over the index of an older one, when an index is retired,     *)
(* stopped, emptied and deleted, and when the storage engine's provider is *)
(* registered.                                                             *)
(*                                                                         *)
(* Loading, warming, cooling and discarding a VCL happen on Vinyl's CLI    *)
(* thread, one call at a time; its control point is pc, and todo lists the *)
(* namespaces that the call has yet to deal with, the current one first.   *)
(* Requests of any warm VCL, and the expiry of objects, go on meanwhile.   *)
(***************************************************************************)
EXTENDS Naturals, Sequences, FiniteSets, SequencesExt

CONSTANTS
    VCLs,           \* names of VCLs; a name is used again once discarded
    Volatile,       \* a namespace's name, interning and limits together
    Persistent,     \* the same, of namespaces with a persist_path
    Programs,       \* what a VCL declares: sequences of the above
    Indexes,        \* index structures in memory
    Objects,        \* addresses of objects
    NoVcl

Settings == Volatile \cup Persistent

ASSUME ProgramsDeclare == Programs \subseteq Seq(Settings) \ {<<>>}
ASSUME Distinct == Volatile \cap Persistent = {} /\ NoVcl \notin VCLs

VARIABLES
    temp, program,              \* per VCL: the core's state, declarations
    namespaces,                 \* cachetag_namespaces, newest first
    index,                      \* ns->index
    warm, subscribed, active,   \* ns->warm_pid, ns->obj_cb,
                                \* ns->fellow_direct_active
    live, settings,             \* allocated indexes, and what they are for
    retired, running,           \* idx->retired, idx->sweep_running
    tracked,                    \* objects with a record, per index
    provider,                   \* cachetag_fellow_regs # NULL
    object, owner,              \* per object: its state, the namespace that
                                \* fetched it
    pc, op, cur, todo,          \* the CLI thread: control point, call, its
                                \* VCL, namespaces to deal with
    last, failed,               \* locals of the constructor and destructor
    latest                      \* the VCL that was warmed last (not in the
                                \* code)

registry == <<namespaces, index>>
flags == <<warm, subscribed, active>>
indexes == <<live, settings, retired, running>>
cache == <<tracked, object, owner>>
cli == <<op, cur, todo, last, failed>>
vars == <<temp, program, namespaces, index, warm, subscribed, active, live,
          settings, retired, running, tracked, provider, object, owner, pc,
          op, cur, todo, last, failed, latest>>

(* The i-th namespace that VCL v declares.                                 *)
Namespaces == VCLs \X Nat
Declared(v) == [i \in 1 .. Len(program[v]) |-> <<v, i>>]
DeclaredAs(n) == program[n[1]][n[2]]

Listed == {namespaces[k] : k \in 1 .. Len(namespaces)}
UsersOf(i) == {n \in Listed : index[n] = i}
VclsOf(i) == {n[1] : n \in UsersOf(i)}
Hear(i) == \E n \in subscribed : index[n] = i

(* Function f with the value y for x.                                      *)
With(f, x, y) == [z \in DOMAIN f \cup {x} |-> IF z = x THEN y ELSE f[z]]

N == Head(todo)
I == index[N]

Init ==
    /\ temp = [v \in VCLs |-> "none"] /\ program = [v \in VCLs |-> <<>>]
    /\ namespaces = <<>> /\ index = <<>>
    /\ warm = {} /\ subscribed = {} /\ active = {}
    /\ live = {} /\ settings = <<>> /\ retired = {} /\ running = {}
    /\ tracked = [i \in Indexes |-> {}]
    /\ provider = FALSE
    /\ object = [o \in Objects |-> "none"] /\ owner = <<>>
    /\ pc = "idle" /\ op = "load" /\ cur = NoVcl /\ todo = <<>>
    /\ last = FALSE /\ failed = FALSE
    /\ latest = NoVcl

(***************************************************************************)
(* The core's calls                                                        *)
(***************************************************************************)
Begin(o, v, work, first) ==
    /\ op' = o
    /\ cur' = v
    /\ todo' = work
    /\ pc' = first
    /\ UNCHANGED <<last, failed>>

Load(v, p) ==
    /\ pc = "idle"
    /\ temp[v] = "none"
    /\ program' = [program EXCEPT ![v] = p]
    /\ Begin("load", v, [i \in 1 .. Len(p) |-> <<v, i>>], "add")
    /\ UNCHANGED <<temp, registry, flags, indexes, cache, provider, latest>>

(* vmod_event_function sends an event to the VCL's namespaces in list      *)
(* order: From is what is left of list s at the next of them.              *)
From(s, v) ==
    LET found == {k \in 1 .. Len(s) : s[k][1] = v}
        first == CHOOSE k \in found : \A j \in found : k <= j
    IN  IF found = {} THEN <<>> ELSE SubSeq(s, first, Len(s))

InListOrder(v) == From(namespaces, v)

WarmEvent(v) ==
    /\ pc = "idle"
    /\ temp[v] \in {"init", "cold"}
    /\ Begin("warm", v, InListOrder(v), "start")
    /\ UNCHANGED <<temp, program, registry, flags, indexes, cache, provider,
                   latest>>

(* A VCL goes cold when no request or fetch uses it any more.              *)
ColdEvent(v) ==
    /\ pc = "idle"
    /\ temp[v] \in {"init", "warm"}
    /\ \A o \in Objects : object[o] = "fetched" => owner[o][1] # v
    /\ temp' = [temp EXCEPT ![v] = "cold"]
    /\ Begin("cold", v, InListOrder(v), "mark")
    /\ UNCHANGED <<program, registry, flags, indexes, cache, provider,
                   latest>>

(* Of a cold VCL, or of one that fails to load after its constructors.     *)
Discard(v) ==
    /\ pc = "idle"
    /\ temp[v] \in {"init", "cold"}
    /\ Begin("discard", v, Reverse(Declared(v)), "remove")
    /\ UNCHANGED <<temp, program, registry, flags, indexes, cache, provider,
                   latest>>

(* The current namespace is done with, and the call with the last of them. *)
Advance(first) ==
    /\ todo' = From(Tail(todo), cur)
    /\ IF todo' # <<>>
       THEN pc' = first /\ UNCHANGED temp
       ELSE CASE op = "load" ->
                    pc' = "idle" /\ temp' = [temp EXCEPT ![cur] = "init"]
              [] op = "warm" -> pc' = "retire" /\ UNCHANGED temp
              [] op = "cold" -> pc' = "idle" /\ UNCHANGED temp
              [] op = "discard" ->
                    pc' = "idle" /\ temp' = [temp EXCEPT ![cur] = "none"]

(***************************************************************************)
(* vmod_namespace__init, and cachetag_namespace_global_add                 *)
(***************************************************************************)
Adoptable(m, s) ==
    /\ m[1] # cur
    /\ cur \notin VclsOf(index[m])
    /\ index[m] \notin retired
    /\ settings[index[m]] = s

(* The first namespace of the list with an index that fits gives its       *)
(* index; otherwise it is a new one.                                       *)
IndexFor(s) ==
    LET fit == {k \in 1 .. Len(namespaces) : Adoptable(namespaces[k], s)}
        first == CHOOSE k \in fit : \A j \in fit : k <= j
    IN  IF s \in Volatile /\ fit # {} THEN index[namespaces[first]]
        ELSE CHOOSE i \in Indexes : i \notin live

GlobalAdd ==
    LET s == DeclaredAs(N)
        i == IndexFor(s)
    IN  /\ pc = "add"
        /\ Indexes # live
        /\ namespaces' = <<N>> \o namespaces
        /\ index' = With(index, N, i)
        /\ live' = live \cup {i}
        /\ settings' = With(settings, i, s)
        /\ pc' = "start"
        /\ UNCHANGED <<temp, program, flags, retired, running, cache, provider,
                       cli, latest>>

(***************************************************************************)
(* cachetag_namespace_warm                                                 *)
(***************************************************************************)
AlreadyWarm ==
    /\ pc = "start"
    /\ N \in warm
    /\ Advance("start")
    /\ UNCHANGED <<program, registry, flags, indexes, cache, provider, op, cur,
                   last, failed, latest>>

(* A failure ends the constructor or the event; the core then discards or  *)
(* cools the VCL.                                                          *)
WarmFails ==
    IF op = "load"
    THEN pc' = "unlist" /\ UNCHANGED <<temp, op, todo>>
    ELSE /\ pc' = "mark"
         /\ op' = "cold"
         /\ todo' = InListOrder(cur)
         /\ temp' = [temp EXCEPT ![cur] = "cold"]

(* cachetag_index_start: replay, which may fail, and the sweep thread.     *)
IndexStart ==
    /\ pc = "start"
    /\ N \notin warm
    /\ \/ /\ running' = running \cup {I}
          /\ pc' = "subscribe"
          /\ UNCHANGED <<temp, op, todo>>
       \/ /\ settings[I] \in Persistent
          /\ WarmFails
          /\ UNCHANGED running
    /\ UNCHANGED <<program, registry, flags, live, settings, retired, cache,
                   provider, cur, last, failed, latest>>

(* Mutant: one subscription for each index, its first user's.              *)
SubscribeOnce ==
    /\ pc = "subscribe"
    /\ subscribed' = IF Hear(I) THEN subscribed ELSE subscribed \cup {N}
    /\ IF settings[I] \in Persistent
       THEN pc' = "provider" /\ UNCHANGED <<warm, temp, todo>>
       ELSE warm' = warm \cup {N} /\ Advance(IF op = "load" THEN "add"
                                             ELSE "start")
    /\ UNCHANGED <<program, registry, active, indexes, cache, provider, op,
                   cur, last, failed, latest>>

Subscribe ==
    /\ pc = "subscribe"
    /\ subscribed' = subscribed \cup {N}
    /\ IF settings[I] \in Persistent
       THEN pc' = "provider" /\ UNCHANGED <<warm, temp, todo>>
       ELSE warm' = warm \cup {N} /\ Advance(IF op = "load" THEN "add"
                                             ELSE "start")
    /\ UNCHANGED <<program, registry, active, indexes, cache, provider, op,
                   cur, last, failed, latest>>

(* cachetag_fellow_provider_ensure registers when nobody has; without the  *)
(* engine it cannot.                                                       *)
ProviderEnsure ==
    /\ pc = "provider"
    /\ provider' = TRUE
    /\ warm' = warm \cup {N}
    /\ active' = active \cup {N}
    /\ Advance(IF op = "load" THEN "add" ELSE "start")
    /\ UNCHANGED <<program, registry, subscribed, indexes, cache, op, cur,
                   last, failed, latest>>

ProviderAbsent ==
    /\ pc = "provider"
    /\ ~provider
    /\ pc' = "mark"
    /\ failed' = TRUE
    /\ UNCHANGED <<temp, program, registry, flags, indexes, cache, provider,
                   op, cur, todo, last, latest>>

(***************************************************************************)
(* cachetag_namespace_retire_unshared                                      *)
(***************************************************************************)
Killed(S) == [o \in Objects |-> IF o \in S /\ object[o] = "cached"
                                THEN "dying" ELSE object[o]]

Unshared == {i \in live \ retired : UsersOf(i) # {} /\ cur \notin VclsOf(i)}

RetireUnshared ==
    /\ pc = "retire"
    /\ IF Unshared # {}
       THEN \E i \in Unshared :
               /\ retired' = retired \cup {i}
               /\ object' = Killed(tracked[i])
               /\ tracked' = [tracked EXCEPT ![i] = {}]
               /\ UNCHANGED <<pc, temp, latest>>
       ELSE /\ pc' = "idle"
            /\ temp' = [temp EXCEPT ![cur] = "warm"]
            /\ latest' = cur
            /\ UNCHANGED <<retired, object, tracked>>
    /\ UNCHANGED <<program, registry, flags, live, settings, running, owner,
                   provider, cli>>

(***************************************************************************)
(* cachetag_namespace_cold                                                 *)
(***************************************************************************)
(* Mutant: sharing is not looked at.                                       *)
WarmPeerNever == FALSE
WarmPeer == \E m \in Listed \ {N} : index[m] = I /\ m \in warm

MarkCold ==
    /\ pc = "mark"
    /\ warm' = warm \ {N}
    /\ active' = active \ {N}
    /\ subscribed' = subscribed \ {N}
    /\ pc' = IF WarmPeer THEN "release" ELSE "stop"
    /\ UNCHANGED <<temp, program, registry, indexes, cache, provider, cli,
                   latest>>

IndexStop ==
    /\ pc = "stop"
    /\ running' = running \ {I}
    /\ pc' = "kill"
    /\ UNCHANGED <<temp, program, registry, flags, live, settings, retired,
                   cache, provider, cli, latest>>

(* cachetag_index_kill_all, cachetag_index_detach_all                      *)
KillAll ==
    /\ pc = "kill"
    /\ object' = Killed(tracked[I])
    /\ tracked' = [tracked EXCEPT ![I] = {}]
    /\ pc' = "release"
    /\ UNCHANGED <<temp, program, registry, flags, indexes, owner, provider,
                   cli, latest>>

(* Mutant: a cold namespace keeps the provider.                            *)
ProviderNeededBy(S) == \E n \in S : settings[index[n]] \in Persistent
ProviderNeeded(S) == \E n \in S : n \in active

(* cachetag_fellow_provider_release_if_idle                                *)
ProviderRelease ==
    /\ pc = "release"
    /\ provider' = (provider /\ ProviderNeeded(Listed))
    /\ failed' = FALSE
    /\ \/ failed /\ WarmFails
       \/ ~failed /\ op = "discard" /\ pc' = "delete"
          /\ UNCHANGED <<temp, op, todo>>
       \/ ~failed /\ op = "cold" /\ Advance("mark") /\ UNCHANGED op
    /\ UNCHANGED <<program, registry, flags, indexes, cache, cur, last,
                   latest>>

(***************************************************************************)
(* vmod_namespace__fini, and the end of a constructor that failed          *)
(***************************************************************************)

(* Mutants: the index always stays; it always goes.                        *)
LastUserNever == FALSE
LastUserAlways == TRUE
LastUser == UsersOf(I) \subseteq {N}

(* cachetag_namespace_global_remove: the index goes with its last user.    *)
GlobalRemove ==
    /\ \/ pc = "remove" /\ pc' = "mark"
       \/ pc = "unlist" /\ pc' = "delete"
    /\ \E k \in 1 .. Len(namespaces) :
          namespaces[k] = N /\ namespaces' = RemoveAt(namespaces, k)
    /\ last' = LastUser
    /\ provider' = (provider /\ ProviderNeeded(Listed \ {N}))
    /\ UNCHANGED <<temp, program, index, flags, indexes, cache, op, cur, todo,
                   failed, latest>>

(* After a failed constructor the core discards what the VCL constructed.  *)
IndexDelete ==
    /\ pc = "delete"
    /\ index' = Restrict(index, DOMAIN index \ {N})
    /\ IF last
       THEN /\ live' = live \ {I}
            /\ retired' = retired \ {I}
            /\ running' = running \ {I}
            /\ settings' = Restrict(settings, live')
       ELSE UNCHANGED indexes
    /\ IF op = "discard"
       THEN Advance("remove") /\ UNCHANGED op
       ELSE /\ op' = "discard"
            /\ todo' = Reverse(SubSeq(Declared(cur), 1, N[2] - 1))
            /\ IF N[2] > 1
               THEN pc' = "remove" /\ UNCHANGED temp
               ELSE pc' = "idle" /\ UNCHANGED temp
    /\ program' = IF pc' = "idle" THEN [program EXCEPT ![cur] = <<>>]
                  ELSE program
    /\ UNCHANGED <<namespaces, flags, cache, provider, cur, last, failed,
                   latest>>

(***************************************************************************)
(* Requests and objects                                                    *)
(***************************************************************************)

(* A fetch registers tags with a namespace of its VCL.                     *)
Fetch(o, n) ==
    /\ object[o] = "none"
    /\ temp[n[1]] = "warm"
    /\ object' = [object EXCEPT ![o] = "fetched"]
    /\ owner' = With(owner, o, n)
    /\ UNCHANGED <<temp, program, registry, flags, indexes, tracked, provider,
                   pc, cli, latest>>

(* Mutant: the seal is not looked at.                                      *)
InsertUnsealed(o) ==
    /\ object[o] = "fetched"
    /\ object' = [object EXCEPT ![o] = "cached"]
    /\ tracked' = [tracked EXCEPT ![index[owner[o]]] = @ \cup {o}]
    /\ owner' = Restrict(owner, DOMAIN owner \ {o})
    /\ UNCHANGED <<temp, program, registry, flags, indexes, provider, pc, cli,
                   latest>>

(* OEV_INSERT: a retired index refuses the object, which is killed.        *)
Insert(o) ==
    LET i == index[owner[o]] IN
    /\ object[o] = "fetched"
    /\ IF i \in retired
       THEN /\ object' = [object EXCEPT ![o] = "dying"]
            /\ UNCHANGED tracked
       ELSE /\ object' = [object EXCEPT ![o] = "cached"]
            /\ tracked' = [tracked EXCEPT ![i] = @ \cup {o}]
    /\ owner' = Restrict(owner, DOMAIN owner \ {o})
    /\ UNCHANGED <<temp, program, registry, flags, indexes, provider, pc, cli,
                   latest>>

(* An object leaves the cache: OEV_EXPIRE goes to every namespace that     *)
(* subscribes to it, and the object is freed.                              *)
Expire(o) ==
    /\ object[o] \in {"cached", "dying"}
    /\ object' = [object EXCEPT ![o] = "none"]
    /\ tracked' = [i \in Indexes |-> IF Hear(i) THEN tracked[i] \ {o}
                                     ELSE tracked[i]]
    /\ UNCHANGED <<temp, program, registry, flags, indexes, owner, provider,
                   pc, cli, latest>>

Next ==
    \/ \E v \in VCLs : \/ \E p \in Programs : Load(v, p)
                       \/ WarmEvent(v) \/ ColdEvent(v) \/ Discard(v)
    \/ GlobalAdd \/ AlreadyWarm \/ IndexStart \/ Subscribe
    \/ ProviderEnsure \/ ProviderAbsent \/ RetireUnshared
    \/ MarkCold \/ IndexStop \/ KillAll \/ ProviderRelease
    \/ GlobalRemove \/ IndexDelete
    \/ \E o \in Objects : \/ \E n \in Listed : Fetch(o, n)
                          \/ Insert(o) \/ Expire(o)

Spec == Init /\ [][Next]_vars

(***************************************************************************)
(* Properties                                                              *)
(***************************************************************************)
TypeOK ==
    /\ temp \in [VCLs -> {"none", "init", "warm", "cold"}]
    /\ program \in [VCLs -> Programs \cup {<<>>}]
    /\ IsInjective(namespaces) /\ Listed \subseteq DOMAIN index
    /\ DOMAIN index \subseteq Namespaces /\ Range(index) \subseteq live
    /\ warm \cup subscribed \subseteq DOMAIN index
    /\ active \subseteq warm
    /\ live \subseteq Indexes /\ DOMAIN settings = live
    /\ retired \subseteq live /\ running \subseteq live
    /\ tracked \in [Indexes -> SUBSET Objects]
    /\ \A i \in Indexes \ live : tracked[i] = {}
    /\ provider \in BOOLEAN
    /\ object \in [Objects -> {"none", "fetched", "cached", "dying"}]
    /\ DOMAIN owner = {o \in Objects : object[o] = "fetched"}
    /\ pc \in {"idle", "add", "start", "subscribe", "provider", "retire",
               "unlist", "remove", "mark", "stop", "kill", "release", "delete"}
    /\ op \in {"load", "warm", "cold", "discard"}
    /\ cur \in VCLs \cup {NoVcl} /\ latest \in VCLs \cup {NoVcl}
    /\ last \in BOOLEAN /\ failed \in BOOLEAN

(* No listed namespace, nor the one that is being destroyed, names a       *)
(* deleted index, and no index without a namespace is left allocated       *)
(* (vmod_cachetag.c:460, 2834).                                            *)
InHand == IF pc = "delete" \/ (op = "discard" /\ pc \in
                {"mark", "stop", "kill", "release"}) THEN {N} ELSE {}

IndexesOwned == live = {index[n] : n \in Listed \cup InHand}

(* A warm namespace's index is swept, and when the CLI thread is done no   *)
(* other is, and no other has objects (docs/usage.md:123, 129).            *)
SweptIffWarm ==
    LET inUse == {index[n] : n \in warm} IN
    /\ inUse \subseteq running
    /\ pc = "idle" => /\ running = inUse
                      /\ \A i \in Indexes \ inUse : tracked[i] = {}

(* Once a VCL has become warm it can purge every tagged object that may    *)
(* still be hit (docs/usage.md:125).                                       *)
PurgesReach ==
    latest # NoVcl /\ temp[latest] = "warm" =>
        \A o \in Objects : object[o] = "cached" =>
            \E i \in live : o \in tracked[i] /\ latest \in VclsOf(i)

(* An index with records is told when an object leaves the cache, except   *)
(* while its last warm namespace goes cold (vmod_cachetag.c:2490).         *)
DeparturesHeard ==
    \A i \in live :
        tracked[i] # {} => Hear(i) \/ (pc \in {"stop", "kill"} /\ I = i)

(* The provider stays registered while a listed namespace depends on it,   *)
(* and no longer (vmod_cachetag.c:430, 2560).                              *)
ProviderHeld ==
    /\ active \cap Listed # {} => provider
    /\ pc = "idle" => (provider => active # {})
=============================================================================
