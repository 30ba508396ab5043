------------------------ MODULE ManagedRepositories ------------------------
(***************************************************************************)
(* The managed repositories of a project (app/projects/managed.py) and     *)
(* their registration (app/projects/registry.py): reference clones and     *)
(* forks under one root, named by a manifest; a reference clone of what is *)
(* already there becomes an alias of its storage.  Collection removes the  *)
(* storage that nobody has used for days.                                  *)
(*                                                                         *)
(* The service awaits only git; what lies between two awaits is a step,    *)
(* which an exception or the end of the Bridge may cut.  Staging           *)
(* directories and the trash are not kept, nor is what a clone contains:   *)
(* whether git finds it equal, clean or whole is left open.  One project,  *)
(* one origin; ages are fresh or past the threshold of their retention.    *)
(***************************************************************************)
EXTENDS Naturals, FiniteSets

CONSTANTS
    Ids,         \* repository ids
    Users,       \* operations of tools on a repository they looked up
    Collectors,  \* calls of repository_gc_apply
    None

ASSUME ManagedAssumption ==
    /\ None \notin Ids \cup Collectors \cup {"clone"}
    /\ "clone" \notin Collectors
    /\ IsFiniteSet(Ids)

VARIABLES
    up,           \* the Bridge runs
    records,      \* id -> _records
    manifest,     \* id -> the record in manifest.json
    registry,     \* ids that a lookup finds
    dirs,         \* storage that is on the disk
    holder,       \* who has the service's lock: a collector, "clone" or None
    clone,        \* the clone that is made, or None
    stage,        \* collector -> "idle", "waiting" for the lock or "planning"
    plan,         \* storage groups the collector found eligible
    maintenance,  \* the registry's flag
    users,        \* user -> the lookup it works with, or None
    booted,       \* the host has been up for less than a minute
    torn,         \* history: a collection was cut and its moves not undone
    wronged       \* history: records collected though they were not collectable

state == <<records, manifest, registry, dirs>>
collection == <<stage, plan, maintenance>>
vars == <<up, state, holder, clone, collection, users, booted, torn, wronged>>

Record == [of : Ids, fork : BOOLEAN, kept : BOOLEAN, old : BOOLEAN]
Records == [Ids -> Record \cup {None}]
Clone == [id : Ids, fork : BOOLEAN, kept : BOOLEAN, alias : Ids \cup {None}]
Use == [id : Ids, of : Ids, noted : BOOLEAN]

\* None is none of the records whose absence it stands for.
ASSUME NoneAssumption == None \notin Record \cup Clone \cup Use

TypeOK ==
    /\ up \in BOOLEAN /\ booted \in BOOLEAN /\ torn \in BOOLEAN
    /\ records \in Records /\ manifest \in Records
    /\ registry \subseteq Ids /\ dirs \subseteq Ids /\ wronged \subseteq Ids
    /\ holder \in Collectors \cup {"clone", None}
    /\ clone \in Clone \cup {None}
    /\ stage \in [Collectors -> {"idle", "waiting", "planning"}]
    /\ plan \subseteq Ids /\ maintenance \in BOOLEAN
    /\ users \in [Users -> Use \cup {None}]

Empty == [r \in Ids |-> None]

Init ==
    /\ up = TRUE
    /\ records = Empty /\ manifest = Empty /\ registry = {} /\ dirs = {}
    /\ holder = None /\ clone = None
    /\ stage = [g \in Collectors |-> "idle"] /\ plan = {} /\ maintenance = FALSE
    /\ users = [u \in Users |-> None]
    /\ booted = FALSE /\ torn = FALSE /\ wronged = {}

Live == {r \in Ids : records[r] # None}
Group(s) == {r \in Live : records[r].of = s}

\* _write_manifest, and what is done in memory with it.
Save(recs) == records' = recs /\ manifest' = recs

-----------------------------------------------------------------------------
(* Lookups. *)

\* Mutant of MayLookup: a lookup goes on during maintenance.
MayLookupAnytime(r) == up /\ r \in registry

MayLookup(r) == up /\ r \in registry /\ ~maintenance

\* get notes the access, but for the first minute of the host, when the
\* monotonic clock is nearer to 0.0 than the interval between two notes.
Lookup(u, r) ==
    /\ users[u] = None /\ MayLookup(r)
    /\ users' = [users EXCEPT ![u] =
                   [id |-> r, of |-> records[r].of, noted |-> ~(booted /\ records[r].old)]]
    /\ IF booted THEN UNCHANGED <<records, manifest>>
       ELSE Save([records EXCEPT ![r].old = FALSE])
    /\ UNCHANGED <<up, registry, dirs, holder, clone, collection, booted, torn, wronged>>

Done(u) ==
    /\ users[u] # None /\ users' = [users EXCEPT ![u] = None]
    /\ UNCHANGED <<up, state, holder, clone, collection, booted, torn, wronged>>

\* Days go by, the shortest threshold is one: no operation takes that long.
Days ==
    LET Aged(recs) == [r \in Ids |-> IF recs[r] = None THEN None ELSE [recs[r] EXCEPT !.old = TRUE]]
    IN  /\ \A u \in Users : users[u] = None
        /\ records' = Aged(records) /\ manifest' = Aged(manifest) /\ booted' = FALSE
        /\ UNCHANGED <<up, registry, dirs, holder, clone, collection, users, torn, wronged>>

Minute ==
    /\ booted /\ booted' = FALSE
    /\ UNCHANGED <<up, state, holder, clone, collection, users, torn, wronged>>

\* Mutant of MaySet: a retention is set without the lock.
MaySetAnytime(r) == up /\ r \in Live

MaySet(r) == up /\ r \in Live /\ holder = None

\* set_retention, under the lock; a fork stays pinned.
SetRetention(r, kept) ==
    /\ MaySet(r)
    /\ records[r].fork => kept
    /\ Save([records EXCEPT ![r].kept = kept])
    /\ UNCHANGED <<up, registry, dirs, holder, clone, collection, users, booted, torn, wronged>>

-----------------------------------------------------------------------------
(* Clones. *)

\* A repository that is recorded is answered "already_present"; a directory
\* that no record names is refused.
CloneBegins(r, fork, kept) ==
    /\ up /\ holder = None /\ records[r] = None /\ r \notin dirs
    /\ fork => kept
    /\ holder' = "clone"
    /\ clone' = [id |-> r, fork |-> fork, kept |-> kept, alias |-> None]
    /\ UNCHANGED <<up, state, collection, users, booted, torn, wronged>>

\* _alias_candidate has git inspect the storage of a reference clone.
CloneCompares(r) ==
    /\ clone # None /\ ~clone.fork /\ clone.alias = None
    /\ r \in Live /\ ~records[r].fork /\ records[r].of \in dirs
    /\ clone' = [clone EXCEPT !.alias = records[r].of]
    /\ UNCHANGED <<up, state, holder, collection, users, booted, torn, wronged>>

Recorded(of) == [of |-> of, fork |-> clone.fork, kept |-> clone.kept, old |-> FALSE]

CloneEnds == holder' = None /\ clone' = None

\* The storage compared is the same, or there is none that is: the clone is
\* moved into place, then the manifest written, then the registry.
CloneSucceeds ==
    /\ clone # None
    /\ LET r == clone.id
           of == IF clone.alias = None THEN r ELSE clone.alias
       IN  /\ Save([records EXCEPT ![r] = Recorded(of)])
           /\ registry' = registry \cup {r}
           /\ dirs' = IF clone.alias = None THEN dirs \cup {r} ELSE dirs
    /\ CloneEnds
    /\ UNCHANGED <<up, collection, users, booted, torn, wronged>>

\* Git fails, the client is gone, or the manifest cannot be written after the
\* clone was moved into place: it is removed again, unless that fails too.
\* Or the comparison fails and the clone is installed after all.
CloneFails ==
    /\ clone # None /\ CloneEnds
    /\ \/ UNCHANGED dirs
       \/ clone.alias = None /\ dirs' = dirs \cup {clone.id}
    /\ UNCHANGED <<up, records, manifest, registry, collection, users, booted, torn, wronged>>

CloneDiffers ==
    /\ clone # None /\ clone.alias # None
    /\ clone' = [clone EXCEPT !.alias = None]
    /\ UNCHANGED <<up, state, holder, collection, users, booted, torn, wronged>>

-----------------------------------------------------------------------------
(* Collection. *)

\* run_when_globally_idle: one at a time.
MayCollect(g) == up /\ \A h \in Collectors : stage[h] = "idle"

\* The flag is set before the lock is waited for.
GcBegins(g) ==
    /\ MayCollect(g)
    /\ stage' = [stage EXCEPT ![g] = "waiting"] /\ maintenance' = TRUE
    /\ UNCHANGED <<up, state, holder, clone, plan, users, booted, torn, wronged>>

Collectable(r) == ~records[r].fork /\ ~records[r].kept /\ records[r].old

Eligible(s) ==
    /\ s \in Live /\ records[s].of = s
    /\ \A r \in Group(s) : Collectable(r)

\* gc_plan reads the records, then has git look at each group.
GcPlans(g) ==
    /\ stage[g] = "waiting" /\ holder = None
    /\ holder' = g /\ stage' = [stage EXCEPT ![g] = "planning"]
    /\ plan' = {s \in Ids : Eligible(s)}
    /\ UNCHANGED <<up, state, clone, maintenance, users, booted, torn, wronged>>

GcEnds(g) ==
    /\ stage' = [stage EXCEPT ![g] = "idle"] /\ maintenance' = FALSE /\ plan' = {}
    /\ holder' = IF holder = g THEN None ELSE holder

\* Nothing is selected, or git fails, or the client is gone.
GcGivesUp(g) ==
    /\ stage[g] # "idle" /\ GcEnds(g)
    /\ UNCHANGED <<up, state, clone, users, booted, torn, wronged>>

\* What is selected: clean groups, up to a limit.
Selections == SUBSET plan \ {{}}

\* The directories are moved, the manifest written, the ids unregistered.
GcCollects(g) ==
    /\ stage[g] = "planning"
    /\ \E S \in Selections :
         LET gone == UNION {Group(s) : s \in S}
         IN  /\ dirs' = dirs \ S
             /\ Save([r \in Ids |-> IF r \in gone THEN None ELSE records[r]])
             /\ registry' = registry \ gone
             /\ wronged' = wronged \cup {r \in gone : ~Collectable(r)}
    /\ GcEnds(g)
    /\ UNCHANGED <<up, clone, users, booted, torn>>

\* Mutant of PutBack: an exception leaves what was moved where it is.
PutBackNothing(S) == dirs \ S

\* The storage after an exception among the moves of S.
PutBack(S) == dirs

GcFails(g) ==
    /\ stage[g] = "planning"
    /\ \E S \in Selections : dirs' = PutBack(S)
    /\ GcEnds(g)
    /\ UNCHANGED <<up, records, manifest, registry, clone, users, booted, torn, wronged>>

\* Putting back fails as well: the error is passed over.
GcTears(g) ==
    /\ stage[g] = "planning"
    /\ \E S \in Selections : dirs' = dirs \ S
    /\ torn' = TRUE /\ GcEnds(g)
    /\ UNCHANGED <<up, records, manifest, registry, clone, users, booted, wronged>>

-----------------------------------------------------------------------------
(* The end of the Bridge, and its start. *)

Stops ==
    /\ up /\ up' = FALSE
    /\ records' = Empty /\ registry' = {} /\ UNCHANGED manifest
    /\ holder' = None /\ clone' = None
    /\ stage' = [g \in Collectors |-> "idle"] /\ plan' = {} /\ maintenance' = FALSE
    /\ users' = [u \in Users |-> None]
    /\ booted' \in {booted, TRUE}
    /\ UNCHANGED wronged

\* Between two steps, with the host or without it.
Crash == Stops /\ UNCHANGED <<dirs, torn>>

\* A clone is in place and not in the manifest.
CrashInClone ==
    /\ clone # None /\ clone.alias = None
    /\ Stops /\ dirs' = dirs \cup {clone.id} /\ UNCHANGED torn

\* Directories are in the trash and still in the manifest.
CrashInGc(g) ==
    /\ stage[g] = "planning" /\ Stops
    /\ \E S \in Selections : dirs' = dirs \ S
    /\ torn' = TRUE

\* What _load accepts: every record has its storage, and every alias an owner.
Loads(recs) ==
    \A r \in Ids : recs[r] # None =>
        LET s == recs[r].of
        IN  /\ s \in dirs /\ recs[s] # None /\ recs[s].of = s
            /\ s # r => ~recs[s].fork /\ ~recs[r].fork

Starts ==
    /\ ~up /\ Loads(manifest)
    /\ up' = TRUE /\ records' = manifest
    /\ registry' = {r \in Ids : manifest[r] # None}
    /\ UNCHANGED <<manifest, dirs, holder, clone, collection, users, booted, torn, wronged>>

Next ==
    \/ \E u \in Users : Done(u) \/ \E r \in Ids : Lookup(u, r)
    \/ \E r \in Ids :
         \/ \E kept \in BOOLEAN :
              \/ SetRetention(r, kept)
              \/ \E fork \in BOOLEAN : CloneBegins(r, fork, kept)
         \/ CloneCompares(r)
    \/ CloneSucceeds \/ CloneFails \/ CloneDiffers
    \/ \E g \in Collectors :
         \/ GcBegins(g) \/ GcPlans(g) \/ GcGivesUp(g)
         \/ GcCollects(g) \/ GcFails(g) \/ GcTears(g) \/ CrashInGc(g)
    \/ Days \/ Minute \/ Crash \/ CrashInClone \/ Starts

Spec == Init /\ [][Next]_vars

-----------------------------------------------------------------------------
(* What the service promises. *)

\* The storage of a repository that a tool works with is not collected under
\* its hands: its access was noted, and maintenance keeps lookups out until
\* the collection is over.  An access in the first minute of the host to a
\* repository that was not used for days is not noted (get, _touch_access).
InUseSurvives ==
    \A u \in Users : users[u] # None /\ users[u].noted /\ ~torn => users[u].of \in dirs

\* A record that is pinned, writable or used since is never collected, though
\* git is awaited between the plan and the moves (gc_apply, set_retention).
KeptAsAsked == wronged = {}

\* Unless a collection was cut between its moves and its manifest, the Bridge
\* starts on what is on the disk; and while it runs the manifest, the records
\* and the registry say the same (clone, gc_apply, _load).
RecordsStand ==
    /\ ~torn => Loads(manifest)
    /\ up => records = manifest /\ registry = Live
=============================================================================
