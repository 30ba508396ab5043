-------------------- MODULE ManagedRepositoriesProofs --------------------
(***************************************************************************)
(* Proofs about ManagedRepositories, for every set of repositories and any *)
(* number of users and collectors.  What a collector found eligible stays  *)
(* so until it is moved, for nothing that could change a record gets past  *)
(* the maintenance flag and the lock; the records, the manifest and the    *)
(* storage are compared field by field.                                    *)
(***************************************************************************)
EXTENDS ManagedRepositories, TLAPS

-----------------------------------------------------------------------------
(* The inductive invariant. *)

\* The lock has one holder, maintenance goes with a collection, and nothing
\* is under way in a Bridge that is down.
LockHeld ==
    /\ \A g \in Collectors : stage[g] = "planning" <=> holder = g
    /\ \A g, h \in Collectors : stage[g] # "idle" /\ stage[h] # "idle" => g = h
    /\ \A g \in Collectors : stage[g] # "idle" => maintenance
    /\ clone # None => holder = "clone"
    /\ ~up => /\ clone = None
              /\ \A g \in Collectors : stage[g] = "idle"
              /\ \A u \in Users : users[u] = None

\* What a collector plans to move is still eligible.
PlanHolds == \A g \in Collectors : stage[g] = "planning" => \A s \in plan : Eligible(s)

\* Every record is of a record that owns its storage, alone if it is a fork.
Grouped(recs) ==
    \A r \in Ids : recs[r] # None =>
        /\ recs[recs[r].of] # None /\ recs[recs[r].of].of = recs[r].of
        /\ recs[r].of # r => ~recs[recs[r].of].fork /\ ~recs[r].fork

\* The clone that is made is of nothing that is there, the storage it was
\* compared with is that of a reference clone.
CloneFits ==
    clone # None =>
        /\ records[clone.id] = None /\ clone.id \notin dirs
        /\ clone.alias # None =>
              /\ ~clone.fork /\ clone.alias \in dirs
              /\ records[clone.alias] # None /\ records[clone.alias].of = clone.alias
              /\ ~records[clone.alias].fork

\* What a user works with is recorded, and as used when its access was noted.
NotedIsFresh ==
    \A u \in Users : users[u] # None /\ users[u].noted =>
        /\ records[users[u].id] # None
        /\ records[users[u].id].of = users[u].of
        /\ ~records[users[u].id].old

IInv ==
    /\ TypeOK /\ LockHeld
    /\ PlanHolds /\ CloneFits /\ NotedIsFresh
    /\ Grouped(manifest) /\ RecordsStand /\ KeptAsAsked

-----------------------------------------------------------------------------
(* What an operation does to the records. *)

\* The same ids, of the same storage and with the same forks.
Alike(recs, new) ==
    /\ new \in Records
    /\ \A r \in Ids : /\ new[r] = None <=> recs[r] = None
                      /\ recs[r] # None => new[r].of = recs[r].of /\ new[r].fork = recs[r].fork

LEMMA Noted ==
    ASSUME NEW recs \in Records, NEW i \in Ids, recs[i] # None,
           NEW new, new = [recs EXCEPT ![i].old = FALSE]
    PROVE  Alike(recs, new)
  <1>1. \A r \in Ids : new[r] = IF r = i THEN [recs[i] EXCEPT !.old = FALSE] ELSE recs[r]
    BY DEF Records
  <1>2. \A r \in Ids : recs[r] \in Record \cup {None}
    BY DEF Records
  <1>3. /\ [recs[i] EXCEPT !.old = FALSE] \in Record
        /\ [recs[i] EXCEPT !.old = FALSE].of = recs[i].of
        /\ [recs[i] EXCEPT !.old = FALSE].fork = recs[i].fork
        /\ [recs[i] EXCEPT !.old = FALSE].kept = recs[i].kept
        /\ [recs[i] EXCEPT !.old = FALSE].old = FALSE
    BY <1>2 DEF Record
  <1>4. new \in Records
    BY <1>1, <1>2, <1>3 DEF Records
  <1>5. \A r \in Ids : /\ new[r] = None <=> recs[r] = None
                       /\ recs[r] # None => new[r].of = recs[r].of /\ new[r].fork = recs[r].fork
    BY <1>1, <1>3, NoneAssumption
  <1> QED
    BY <1>4, <1>5 DEF Alike

LEMMA Retained ==
    ASSUME NEW recs \in Records, NEW i \in Ids, recs[i] # None, NEW kept \in BOOLEAN,
           NEW new, new = [recs EXCEPT ![i].kept = kept]
    PROVE  /\ Alike(recs, new)
           /\ \A r \in Ids : recs[r] # None => new[r].old = recs[r].old
  <1>1. \A r \in Ids : new[r] = IF r = i THEN [recs[i] EXCEPT !.kept = kept] ELSE recs[r]
    BY DEF Records
  <1>2. \A r \in Ids : recs[r] \in Record \cup {None}
    BY DEF Records
  <1>3. /\ [recs[i] EXCEPT !.kept = kept] \in Record
        /\ [recs[i] EXCEPT !.kept = kept].of = recs[i].of
        /\ [recs[i] EXCEPT !.kept = kept].fork = recs[i].fork
        /\ [recs[i] EXCEPT !.kept = kept].old = recs[i].old
    BY <1>2 DEF Record
  <1>4. new \in Records
    BY <1>1, <1>2, <1>3 DEF Records
  <1>5. \A r \in Ids : /\ new[r] = None <=> recs[r] = None
                       /\ recs[r] # None => new[r].of = recs[r].of /\ new[r].fork = recs[r].fork
    BY <1>1, <1>3, NoneAssumption
  <1>6. \A r \in Ids : recs[r] # None => new[r].old = recs[r].old
    BY <1>1, <1>3
  <1> QED
    BY <1>4, <1>5, <1>6 DEF Alike

LEMMA Ages ==
    ASSUME NEW recs \in Records, NEW new,
           new = [r \in Ids |-> IF recs[r] = None THEN None ELSE [recs[r] EXCEPT !.old = TRUE]]
    PROVE  Alike(recs, new)
  <1>1. ASSUME NEW r \in Ids, recs[r] # None
        PROVE  /\ new[r] \in Record /\ new[r] # None
               /\ new[r].of = recs[r].of /\ new[r].fork = recs[r].fork
    <2>1. recs[r] \in Record
      BY <1>1 DEF Records
    <2>2. new[r] = [recs[r] EXCEPT !.old = TRUE]
      BY <1>1
    <2> QED
      BY <2>1, <2>2, NoneAssumption DEF Record
  <1>2. \A r \in Ids : recs[r] = None => new[r] = None
    OBVIOUS
  <1>3. new = [r \in Ids |-> new[r]]
    OBVIOUS
  <1>4. new \in Records
    BY <1>1, <1>2, <1>3 DEF Records
  <1> QED
    BY <1>1, <1>2, <1>4 DEF Alike

\* Records that are alike are grouped, load and register the same.
LEMMA AlikeStand ==
    ASSUME NEW recs \in Records, NEW new, Alike(recs, new), UNCHANGED dirs
    PROVE  /\ Grouped(recs) => Grouped(new)
           /\ Loads(recs) => Loads(new)'
  <1>1. \A r \in Ids : recs[r] # None => recs[r].of \in Ids
    BY DEF Records, Record
  <1>2. Grouped(recs) => Grouped(new)
    BY <1>1 DEF Grouped, Alike
  <1>3. Loads(recs) => Loads(new)'
    BY <1>1 DEF Loads, Alike
  <1> QED
    BY <1>2, <1>3

\* Nothing is recorded in a Bridge that is down.
LEMMA StopsEmpty ==
    ASSUME TypeOK, Stops
    PROVE  /\ up' = FALSE /\ records' \in Records /\ \A r \in Ids : records'[r] = None
           /\ manifest' = manifest /\ registry' = {}
           /\ holder' = None /\ clone' = None /\ plan' = {} /\ maintenance' = FALSE
           /\ stage' \in [Collectors -> {"idle", "waiting", "planning"}]
           /\ \A g \in Collectors : stage'[g] = "idle"
           /\ users' \in [Users -> Use \cup {None}] /\ \A u \in Users : users'[u] = None
           /\ booted' \in BOOLEAN /\ wronged' = wronged
  BY DEF TypeOK, Stops, Records, Empty

\* A collection removes whole groups.
LEMMA Collects ==
    ASSUME TypeOK, NEW g \in Collectors, GcCollects(g)
    PROVE  \E S \in SUBSET plan :
             /\ dirs' = dirs \ S
             /\ records' \in Records /\ manifest' = records'
             /\ \A r \in Ids :
                  IF records[r] # None /\ records[r].of \in S
                  THEN records'[r] = None ELSE records'[r] = records[r]
             /\ registry' = registry \ {r \in Live : records[r].of \in S}
             /\ wronged' = wronged \cup {r \in Live : records[r].of \in S /\ ~Collectable(r)}
  <1>1. PICK S \in Selections :
          LET gone == UNION {Group(s) : s \in S}
          IN  /\ dirs' = dirs \ S
              /\ Save([r \in Ids |-> IF r \in gone THEN None ELSE records[r]])
              /\ registry' = registry \ gone
              /\ wronged' = wronged \cup {r \in gone : ~Collectable(r)}
    BY DEF GcCollects
  <1> DEFINE gone == UNION {Group(s) : s \in S}
  <1>2. S \in SUBSET plan
    BY DEF Selections
  <1>3. \A r : r \in gone <=> r \in Live /\ records[r].of \in S
    BY <1>2 DEF Group
  <1>4. gone = {r \in Live : records[r].of \in S}
    BY <1>3
  <1>5. {r \in gone : ~Collectable(r)} = {r \in Live : records[r].of \in S /\ ~Collectable(r)}
    BY <1>3
  <1>6. records' = [r \in Ids |-> IF r \in gone THEN None ELSE records[r]] /\ manifest' = records'
    BY <1>1 DEF Save
  <1>7. dirs' = dirs \ S /\ registry' = registry \ gone
        /\ wronged' = wronged \cup {r \in gone : ~Collectable(r)}
    BY <1>1
  <1> HIDE DEF gone
  <1>8. \A r \in Ids : IF records[r] # None /\ records[r].of \in S
                       THEN records'[r] = None ELSE records'[r] = records[r]
    BY <1>3, <1>6 DEF Live
  <1>9. records' \in Records
    BY <1>6 DEF TypeOK, Records
  <1> QED
    BY <1>2, <1>4, <1>5, <1>6, <1>7, <1>8, <1>9

\* A clone that succeeds adds its record.
LEMMA Installs ==
    ASSUME TypeOK, CloneSucceeds
    PROVE  LET of == IF clone.alias = None THEN clone.id ELSE clone.alias
           IN  /\ clone \in Clone /\ of \in Ids
               /\ records' \in Records /\ manifest' = records'
               /\ \A r \in Ids : r # clone.id => records'[r] = records[r]
               /\ records'[clone.id] # None
               /\ records'[clone.id].of = of /\ records'[clone.id].fork = clone.fork
               /\ registry' = registry \cup {clone.id}
               /\ dirs' = IF clone.alias = None THEN dirs \cup {clone.id} ELSE dirs
  <1> DEFINE of == IF clone.alias = None THEN clone.id ELSE clone.alias
  <1>1. clone \in Clone /\ of \in Ids
    BY NoneAssumption DEF CloneSucceeds, TypeOK, Clone
  <1>2. Recorded(of) \in Record /\ Recorded(of).of = of /\ Recorded(of).fork = clone.fork
    BY <1>1 DEF Recorded, Record, Clone
  <1>3. records' = [records EXCEPT ![clone.id] = Recorded(of)] /\ manifest' = records'
    BY DEF CloneSucceeds, Save
  <1>4. /\ registry' = registry \cup {clone.id}
        /\ dirs' = IF clone.alias = None THEN dirs \cup {clone.id} ELSE dirs
    BY DEF CloneSucceeds
  <1> HIDE DEF of
  <1>5. records' \in Records
    BY <1>1, <1>2, <1>3 DEF TypeOK, Records
  <1>6. records'[clone.id] = Recorded(of) /\ \A r \in Ids : r # clone.id => records'[r] = records[r]
    BY <1>1, <1>3 DEF TypeOK, Records, Clone
  <1> QED
    BY <1>1, <1>2, <1>3, <1>4, <1>5, <1>6, NoneAssumption DEF of

\* A lookup changes nothing but the access.
LEMMA LookupKeeps ==
    ASSUME TypeOK, RecordsStand, NEW u \in Users, NEW i \in Ids, Lookup(u, i)
    PROVE  /\ up /\ ~maintenance /\ records[i] # None
           /\ Alike(records, records') /\ Alike(manifest, manifest')
           /\ records = manifest => records' = manifest'
           /\ \A r \in Ids : records[r] # None =>
                /\ records'[r].kept = records[r].kept
                /\ r # i => records'[r].old = records[r].old
                /\ ~records[r].old => ~records'[r].old
           /\ users'[u] # None /\ users' \in [Users -> Use \cup {None}]
           /\ \A v \in Users : v # u => users'[v] = users[v]
           /\ users'[u].id = i /\ users'[u].of = records[i].of
           /\ users'[u].noted => ~records'[i].old
  <1>1. up /\ ~maintenance /\ records[i] # None /\ records = manifest
    BY DEF Lookup, MayLookup, RecordsStand, Live
  <1>2. records \in Records /\ booted \in BOOLEAN
    BY DEF TypeOK
  <1>3. records[i] \in Record
    BY <1>1, <1>2 DEF Records
  <1> DEFINE use == [id |-> i, of |-> records[i].of, noted |-> ~(booted /\ records[i].old)]
  <1>4. use \in Use
    BY <1>3 DEF Use, Record
  <1>5. users' = [users EXCEPT ![u] = use]
    BY DEF Lookup
  <1>6. use.id = i /\ use.of = records[i].of /\ use.noted = ~(booted /\ records[i].old)
    OBVIOUS
  <1> HIDE DEF use
  <1>7. users' \in [Users -> Use \cup {None}] /\ users'[u] = use /\ users'[u] # None
        /\ \A v \in Users : v # u => users'[v] = users[v]
    BY <1>4, <1>5, NoneAssumption DEF TypeOK
  <1>8. CASE booted
    <2>1. UNCHANGED <<records, manifest>>
      BY <1>8 DEF Lookup
    <2>2. Alike(records, records)
      BY <1>2 DEF Alike
    <2>3. use.noted => ~records[i].old
      BY <1>3, <1>6, <1>8 DEF Record
    <2> QED
      BY <1>1, <1>6, <1>7, <2>1, <2>2, <2>3
  <1>9. CASE ~booted
    <2>1. records' = [records EXCEPT ![i].old = FALSE] /\ manifest' = records'
      BY <1>9 DEF Lookup, Save
    <2>2. Alike(records, records')
      BY <1>1, <1>2, <2>1, Noted, Zenon
    <2>3. /\ \A r \in Ids : r # i => records'[r] = records[r]
          /\ records'[i].kept = records[i].kept /\ records'[i].old = FALSE
      BY <1>2, <1>3, <2>1 DEF Records, Record
    <2>4. Alike(manifest, manifest') /\ records' = manifest'
      BY <1>1, <2>1, <2>2
    <2>5. \A r \in Ids : records[r] # None /\ ~records[r].old => ~records'[r].old
      BY <2>3
    <2>6. \A r \in Ids : records'[r].kept = records[r].kept
      BY <2>3
    <2> QED
      BY <1>1, <1>6, <1>7, <2>2, <2>3, <2>4, <2>5, <2>6
  <1> QED
    BY <1>2, <1>8, <1>9

\* A retention is set by whoever has the lock, and changes nothing else.
LEMMA RetentionKeeps ==
    ASSUME TypeOK, RecordsStand, NEW i \in Ids, NEW kept \in BOOLEAN, SetRetention(i, kept)
    PROVE  /\ holder = None
           /\ Alike(records, records') /\ Alike(manifest, manifest') /\ records' = manifest'
           /\ \A r \in Ids : records[r] # None => records'[r].old = records[r].old
  <1>1. holder = None /\ records[i] # None /\ records = manifest /\ records \in Records
    BY DEF SetRetention, MaySet, RecordsStand, Live, TypeOK
  <1>2. records' = [records EXCEPT ![i].kept = kept] /\ manifest' = records'
    BY DEF SetRetention, Save
  <1> QED
    BY <1>1, <1>2, Retained DEF Records, Alike

LEMMA DaysKeep ==
    ASSUME TypeOK, Days
    PROVE  /\ Alike(records, records') /\ Alike(manifest, manifest')
           /\ records = manifest => records' = manifest'
           /\ \A r \in Ids : records[r] # None =>
                records'[r].kept = records[r].kept /\ records'[r].old
           /\ \A u \in Users : users[u] = None
  <1>1. /\ records \in Records /\ manifest \in Records
        /\ records' = [r \in Ids |-> IF records[r] = None THEN None
                                     ELSE [records[r] EXCEPT !.old = TRUE]]
        /\ manifest' = [r \in Ids |-> IF manifest[r] = None THEN None
                                      ELSE [manifest[r] EXCEPT !.old = TRUE]]
        /\ \A u \in Users : users[u] = None
    BY DEF Days, TypeOK
  <1>2. Alike(records, records')
    BY <1>1, Ages, Zenon
  <1>3. Alike(manifest, manifest')
    BY <1>1, Ages, Zenon
  <1>4. ASSUME NEW r \in Ids, records[r] # None
        PROVE  records'[r].kept = records[r].kept /\ records'[r].old
    <2>1. records[r] \in Record
      BY <1>1, <1>4 DEF Records
    <2>2. records'[r] = [records[r] EXCEPT !.old = TRUE]
      BY <1>1, <1>4
    <2> QED
      BY <2>1, <2>2 DEF Record
  <1> QED
    BY <1>1, <1>2, <1>3, <1>4

-----------------------------------------------------------------------------
(* Every step keeps each part of the invariant. *)

\* Every step keeps the variables in their domains.
LEMMA TypeStep == IInv /\ [Next]_vars => TypeOK'
  <1> SUFFICES ASSUME IInv, [Next]_vars PROVE TypeOK'
    OBVIOUS
  <1> USE ManagedAssumption, NoneAssumption DEF IInv, TypeOK
  <1>1. CASE UNCHANGED vars
    BY <1>1 DEF vars, state, collection
  <1>2. ASSUME NEW u \in Users, NEW r \in Ids, Lookup(u, r)
        PROVE  TypeOK'
    <2>1. /\ records' \in Records /\ manifest' \in Records
          /\ users' \in [Users -> Use \cup {None}]
      BY <1>2, LookupKeeps DEF Alike
    <2> QED
      BY <1>2, <2>1 DEF Lookup, state, collection
  <1>3. ASSUME NEW u \in Users, Done(u)
        PROVE  TypeOK'
    BY <1>3 DEF Done, state, collection
  <1>4. ASSUME NEW r \in Ids, NEW kept \in BOOLEAN, SetRetention(r, kept)
        PROVE  TypeOK'
    <2>1. records' \in Records /\ manifest' \in Records
      BY <1>4, RetentionKeeps DEF Alike
    <2> QED
      BY <1>4, <2>1 DEF SetRetention, collection
  <1>5. ASSUME NEW r \in Ids, NEW fork \in BOOLEAN, NEW kept \in BOOLEAN, CloneBegins(r, fork, kept)
        PROVE  TypeOK'
    BY <1>5 DEF CloneBegins, Clone, state, collection
  <1>6. ASSUME NEW r \in Ids, CloneCompares(r)
        PROVE  TypeOK'
    <2>1. records[r].of \in Ids
      BY <1>6 DEF CloneCompares, Live, Records, Record
    <2>2. clone' \in Clone
      BY <1>6, <2>1 DEF CloneCompares, Clone
    <2> QED
      BY <1>6, <2>2 DEF CloneCompares, state, collection
  <1>7. ASSUME NEW g \in Collectors, GcBegins(g)
        PROVE  TypeOK'
    BY <1>7 DEF GcBegins, MayCollect, state, collection
  <1>8. ASSUME NEW g \in Collectors, GcPlans(g)
        PROVE  TypeOK'
    BY <1>8 DEF GcPlans, state, collection
  <1>9. ASSUME NEW g \in Collectors, GcGivesUp(g)
        PROVE  TypeOK'
    BY <1>9 DEF GcGivesUp, GcEnds, state, collection
  <1>10. ASSUME NEW g \in Collectors, GcCollects(g)
        PROVE  TypeOK'
    <2>1. /\ stage' \in [Collectors -> {"idle", "waiting", "planning"}]
          /\ maintenance' \in BOOLEAN /\ plan' \subseteq Ids
          /\ holder' \in Collectors \cup {"clone", None}
      BY <1>10 DEF GcCollects, GcEnds
    <2>2. /\ dirs' \subseteq Ids /\ registry' \subseteq Ids /\ wronged' \subseteq Ids
          /\ records' \in Records /\ manifest' \in Records
      BY <1>10, Collects DEF Live
    <2> QED
      BY <1>10, <2>1, <2>2 DEF GcCollects
  <1>11. ASSUME NEW g \in Collectors, GcFails(g)
        PROVE  TypeOK'
    BY <1>11 DEF GcFails, GcEnds, PutBack, Selections, state, collection
  <1>12. ASSUME NEW g \in Collectors, GcTears(g)
        PROVE  TypeOK'
    BY <1>12 DEF GcTears, GcEnds, Selections, state, collection
  <1>13. ASSUME NEW g \in Collectors, CrashInGc(g)
        PROVE  TypeOK'
    <2>1. /\ records' \in Records /\ manifest' = manifest /\ registry' = {}
          /\ holder' = None /\ clone' = None /\ up' = FALSE
          /\ stage' \in [Collectors -> {"idle", "waiting", "planning"}]
          /\ plan' = {} /\ maintenance' = FALSE
          /\ users' \in [Users -> Use \cup {None}] /\ booted' \in BOOLEAN /\ wronged' = wronged
      BY <1>13, StopsEmpty DEF CrashInGc
    <2>2. dirs' \subseteq Ids /\ torn' = TRUE
      BY <1>13 DEF CrashInGc
    <2> QED
      BY <2>1, <2>2
  <1>14. CASE CloneSucceeds
    <2>1. /\ records' \in Records /\ manifest' \in Records
          /\ registry' \subseteq Ids /\ dirs' \subseteq Ids
      BY <1>14, Installs DEF Clone
    <2> QED
      BY <1>14, <2>1 DEF CloneSucceeds, CloneEnds, collection
  <1>15. CASE CloneFails
    <2>1. clone \in Clone /\ clone.id \in Ids
      BY <1>15 DEF CloneFails, Clone
    <2>2. dirs' \subseteq Ids
      BY <1>15, <2>1 DEF CloneFails
    <2> QED
      BY <1>15, <2>2 DEF CloneFails, CloneEnds, collection
  <1>16. CASE CloneDiffers
    <2>1. clone' \in Clone
      BY <1>16 DEF CloneDiffers, Clone
    <2> QED
      BY <1>16, <2>1 DEF CloneDiffers, state, collection
  <1>17. CASE Days
    <2>1. records' \in Records /\ manifest' \in Records
      BY <1>17, DaysKeep DEF Alike
    <2> QED
      BY <1>17, <2>1 DEF Days, collection
  <1>18. CASE Minute
    BY <1>18 DEF Minute, state, collection
  <1>19. CASE Crash
    <2>1. /\ records' \in Records /\ manifest' = manifest /\ registry' = {}
          /\ holder' = None /\ clone' = None /\ up' = FALSE
          /\ stage' \in [Collectors -> {"idle", "waiting", "planning"}]
          /\ plan' = {} /\ maintenance' = FALSE
          /\ users' \in [Users -> Use \cup {None}] /\ booted' \in BOOLEAN /\ wronged' = wronged
      BY <1>19, StopsEmpty DEF Crash
    <2> QED
      BY <1>19, <2>1 DEF Crash
  <1>20. CASE CrashInClone
    <2>1. /\ records' \in Records /\ manifest' = manifest /\ registry' = {}
          /\ holder' = None /\ clone' = None /\ up' = FALSE
          /\ stage' \in [Collectors -> {"idle", "waiting", "planning"}]
          /\ plan' = {} /\ maintenance' = FALSE
          /\ users' \in [Users -> Use \cup {None}] /\ booted' \in BOOLEAN /\ wronged' = wronged
      BY <1>20, StopsEmpty DEF CrashInClone
    <2>2. dirs' \subseteq Ids /\ torn' = torn
      BY <1>20 DEF CrashInClone, Clone
    <2> QED
      BY <2>1, <2>2
  <1>21. CASE Starts
    BY <1>21 DEF Starts, state, collection
  <1> QED
    BY <1>1, <1>2, <1>3, <1>4, <1>5, <1>6, <1>7, <1>8, <1>9, <1>10, <1>11,
       <1>12, <1>13, <1>14, <1>15, <1>16, <1>17, <1>18, <1>19,
       <1>20, <1>21
    DEF Next

\* The lock and the maintenance flag are given up by whoever took them.
LEMMA LockStep == IInv /\ [Next]_vars => LockHeld'
  <1> SUFFICES ASSUME IInv, [Next]_vars PROVE LockHeld'
    OBVIOUS
  <1> USE ManagedAssumption, NoneAssumption DEF IInv, LockHeld
  <1>t. /\ stage \in [Collectors -> {"idle", "waiting", "planning"}]
        /\ users \in [Users -> Use \cup {None}] /\ holder \in Collectors \cup {"clone", None}
    BY DEF TypeOK
  <1> USE <1>t
  <1>0. UNCHANGED <<up, holder, clone, stage, maintenance, users>> => LockHeld'
    OBVIOUS
  <1>1. CASE UNCHANGED vars
    BY <1>1, <1>0 DEF vars, state, collection
  <1>2. ASSUME NEW u \in Users, NEW r \in Ids, Lookup(u, r)
        PROVE  LockHeld'
    <2>1. up /\ \A v \in Users : v # u => users'[v] = users[v]
      BY <1>2, LookupKeeps
    <2> QED
      BY <1>2, <2>1 DEF Lookup, collection
  <1>3. ASSUME NEW u \in Users, Done(u)
        PROVE  LockHeld'
    BY <1>3 DEF Done, state, collection
  <1>4. ASSUME NEW r \in Ids, NEW kept \in BOOLEAN, SetRetention(r, kept)
        PROVE  LockHeld'
    BY <1>4, <1>0 DEF SetRetention, state, collection
  <1>5. ASSUME NEW r \in Ids, NEW fork \in BOOLEAN, NEW kept \in BOOLEAN, CloneBegins(r, fork, kept)
        PROVE  LockHeld'
    BY <1>5 DEF CloneBegins, state, collection
  <1>6. ASSUME NEW r \in Ids, CloneCompares(r)
        PROVE  LockHeld'
    BY <1>6 DEF CloneCompares, state, collection
  <1>7. ASSUME NEW g \in Collectors, GcBegins(g)
        PROVE  LockHeld'
    <2>1. /\ stage' = [stage EXCEPT ![g] = "waiting"] /\ maintenance' = TRUE /\ up
          /\ \A h \in Collectors : stage[h] = "idle"
          /\ UNCHANGED <<up, holder, clone, users>>
      BY <1>7 DEF GcBegins, MayCollect
    <2> QED
      BY <2>1
  <1>8. ASSUME NEW g \in Collectors, GcPlans(g)
        PROVE  LockHeld'
    <2>1. /\ stage' = [stage EXCEPT ![g] = "planning"] /\ stage[g] = "waiting"
          /\ holder = None /\ holder' = g
          /\ UNCHANGED <<up, clone, users, maintenance>>
      BY <1>8 DEF GcPlans
    <2> QED
      BY <2>1
  <1>9. ASSUME NEW g \in Collectors, GcGivesUp(g)
        PROVE  LockHeld'
    <2>1. /\ stage' = [stage EXCEPT ![g] = "idle"] /\ stage[g] # "idle"
          /\ holder' = IF holder = g THEN None ELSE holder
          /\ UNCHANGED <<up, clone, users>>
      BY <1>9 DEF GcGivesUp, GcEnds
    <2> QED
      BY <2>1
  <1>10. ASSUME NEW g \in Collectors, GcCollects(g)
        PROVE  LockHeld'
    <2>1. /\ stage' = [stage EXCEPT ![g] = "idle"] /\ stage[g] # "idle"
          /\ holder' = IF holder = g THEN None ELSE holder
          /\ UNCHANGED <<up, clone, users>>
      BY <1>10 DEF GcCollects, GcEnds
    <2> QED
      BY <2>1
  <1>11. ASSUME NEW g \in Collectors, GcFails(g)
        PROVE  LockHeld'
    <2>1. /\ stage' = [stage EXCEPT ![g] = "idle"] /\ stage[g] # "idle"
          /\ holder' = IF holder = g THEN None ELSE holder
          /\ UNCHANGED <<up, clone, users>>
      BY <1>11 DEF GcFails, GcEnds
    <2> QED
      BY <2>1
  <1>12. ASSUME NEW g \in Collectors, GcTears(g)
        PROVE  LockHeld'
    <2>1. /\ stage' = [stage EXCEPT ![g] = "idle"] /\ stage[g] # "idle"
          /\ holder' = IF holder = g THEN None ELSE holder
          /\ UNCHANGED <<up, clone, users>>
      BY <1>12 DEF GcTears, GcEnds
    <2> QED
      BY <2>1
  <1>13. ASSUME NEW g \in Collectors, CrashInGc(g)
        PROVE  LockHeld'
    <2>1. /\ up' = FALSE /\ clone' = None /\ holder' = None
          /\ \A h \in Collectors : stage'[h] = "idle"
          /\ \A u \in Users : users'[u] = None
      BY <1>13, StopsEmpty DEF CrashInGc
    <2> QED
      BY <2>1
  <1>14. CASE Days \/ Minute
    BY <1>14, <1>0 DEF Days, Minute, state, collection
  <1>15. CASE CloneSucceeds
    BY <1>15 DEF CloneSucceeds, CloneEnds, Save, state, collection
  <1>16. CASE CloneFails
    BY <1>16 DEF CloneFails, CloneEnds, collection
  <1>17. CASE CloneDiffers
    BY <1>17 DEF CloneDiffers, state, collection
  <1>18. CASE Crash
    <2>1. /\ up' = FALSE /\ clone' = None /\ holder' = None
          /\ \A g \in Collectors : stage'[g] = "idle"
          /\ \A u \in Users : users'[u] = None
      BY <1>18, StopsEmpty DEF Crash
    <2> QED
      BY <2>1
  <1>19. CASE CrashInClone
    <2>1. /\ up' = FALSE /\ clone' = None /\ holder' = None
          /\ \A g \in Collectors : stage'[g] = "idle"
          /\ \A u \in Users : users'[u] = None
      BY <1>19, StopsEmpty DEF CrashInClone
    <2> QED
      BY <2>1
  <1>20. CASE Starts
    BY <1>20 DEF Starts, state, collection
  <1> QED
    BY <1>1, <1>2, <1>3, <1>4, <1>5, <1>6, <1>7, <1>8, <1>9, <1>10, <1>11,
       <1>12, <1>13, <1>14, <1>15, <1>16, <1>17, <1>18, <1>19,
       <1>20
    DEF Next

\* No record is collected that is not collectable.
LEMMA KeptStep == IInv /\ [Next]_vars => KeptAsAsked'
  <1> SUFFICES ASSUME IInv, [Next]_vars PROVE KeptAsAsked'
    OBVIOUS
  <1> USE ManagedAssumption, NoneAssumption DEF IInv, KeptAsAsked
  <1>0. UNCHANGED <<wronged>> => KeptAsAsked'
    OBVIOUS
  <1>1. CASE UNCHANGED vars
    BY <1>1, <1>0 DEF vars, state, collection
  <1>2. ASSUME NEW u \in Users, NEW r \in Ids, Lookup(u, r)
        PROVE  KeptAsAsked'
    BY <1>2, <1>0 DEF Lookup, state, collection
  <1>3. ASSUME NEW u \in Users, Done(u)
        PROVE  KeptAsAsked'
    BY <1>3, <1>0 DEF Done, state, collection
  <1>4. ASSUME NEW r \in Ids, NEW kept \in BOOLEAN, SetRetention(r, kept)
        PROVE  KeptAsAsked'
    BY <1>4, <1>0 DEF SetRetention, state, collection
  <1>5. ASSUME NEW r \in Ids, NEW fork \in BOOLEAN, NEW kept \in BOOLEAN, CloneBegins(r, fork, kept)
        PROVE  KeptAsAsked'
    BY <1>5, <1>0 DEF CloneBegins, state, collection
  <1>6. ASSUME NEW r \in Ids, CloneCompares(r)
        PROVE  KeptAsAsked'
    BY <1>6, <1>0 DEF CloneCompares, state, collection
  <1>7. ASSUME NEW g \in Collectors, GcBegins(g) \/ GcPlans(g) \/ GcGivesUp(g) \/ GcFails(g) \/
            GcTears(g) \/ CrashInGc(g)
        PROVE  KeptAsAsked'
    BY <1>7, <1>0 DEF GcBegins, GcPlans, GcGivesUp, GcFails, GcTears, CrashInGc, Stops,
       state, collection
  <1>8. ASSUME NEW g \in Collectors, GcCollects(g)
        PROVE  KeptAsAsked'
    <2>1. \E S \in SUBSET plan :
            wronged' = wronged \cup {r \in Live : records[r].of \in S /\ ~Collectable(r)}
      BY <1>8, Collects
    <2>2. \A s \in plan : \A r \in Live : records[r].of = s => Collectable(r)
      BY <1>8 DEF GcCollects, PlanHolds, Eligible, Group
    <2> QED
      BY <2>1, <2>2
  <1>9. CASE CloneSucceeds \/ CloneFails \/ CloneDiffers \/ Days \/ Minute \/
            Crash \/ CrashInClone \/ Starts
    BY <1>9, <1>0 DEF CloneSucceeds, CloneFails, CloneDiffers, Days, Minute, Crash,
       CrashInClone, Starts, Stops, state, collection
  <1> QED
    BY <1>1, <1>2, <1>3, <1>4, <1>5, <1>6, <1>7, <1>8, <1>9
    DEF Next

\* What is found eligible stays so until the collection is over.
LEMMA PlanStep == IInv /\ [Next]_vars => PlanHolds'
  <1> SUFFICES ASSUME IInv, [Next]_vars PROVE PlanHolds'
    OBVIOUS
  <1> USE ManagedAssumption, NoneAssumption DEF IInv, PlanHolds
  <1>t. /\ stage \in [Collectors -> {"idle", "waiting", "planning"}] /\ plan \subseteq Ids
    BY DEF TypeOK
  <1>0. UNCHANGED <<stage, plan, records>> => PlanHolds'
    BY DEF Eligible, Group, Live, Collectable
  <1>1. CASE UNCHANGED vars
    BY <1>1, <1>0 DEF vars, state, collection
  <1>2. ASSUME NEW u \in Users, NEW r \in Ids, Lookup(u, r)
        PROVE  PlanHolds'
    <2>1. \A h \in Collectors : stage[h] # "planning"
      BY <1>2, LookupKeeps DEF LockHeld
    <2> QED
      BY <1>2, <2>1 DEF Lookup, collection
  <1>3. ASSUME NEW u \in Users, Done(u)
        PROVE  PlanHolds'
    BY <1>3, <1>0 DEF Done, state, collection
  <1>4. ASSUME NEW r \in Ids, NEW kept \in BOOLEAN, SetRetention(r, kept)
        PROVE  PlanHolds'
    <2>1. \A h \in Collectors : stage[h] # "planning"
      BY <1>4, RetentionKeeps, ManagedAssumption DEF LockHeld
    <2> QED
      BY <1>4, <2>1 DEF SetRetention, collection
  <1>5. ASSUME NEW r \in Ids, NEW fork \in BOOLEAN, NEW kept \in BOOLEAN, CloneBegins(r, fork, kept)
        PROVE  PlanHolds'
    BY <1>5, <1>0 DEF CloneBegins, state, collection
  <1>6. ASSUME NEW r \in Ids, CloneCompares(r)
        PROVE  PlanHolds'
    BY <1>6, <1>0 DEF CloneCompares, state, collection
  <1>7. ASSUME NEW g \in Collectors, GcBegins(g)
        PROVE  PlanHolds'
    <2>1. \A h \in Collectors : stage'[h] # "planning"
      BY <1>7, <1>t DEF GcBegins, MayCollect
    <2> QED
      BY <2>1
  <1>8. ASSUME NEW g \in Collectors, GcPlans(g)
        PROVE  PlanHolds'
    <2>1. plan' = {s \in Ids : Eligible(s)} /\ UNCHANGED records
      BY <1>8 DEF GcPlans, state
    <2>2. \A s \in Ids : Eligible(s)' <=> Eligible(s)
      BY <2>1 DEF Eligible, Group, Live, Collectable
    <2> QED
      BY <2>1, <2>2
  <1>9. ASSUME NEW g \in Collectors, GcGivesUp(g)
        PROVE  PlanHolds'
    <2>1. \A h \in Collectors : stage'[h] # "planning"
      BY <1>9, <1>t DEF GcGivesUp, GcEnds, LockHeld
    <2> QED
      BY <2>1
  <1>10. ASSUME NEW g \in Collectors, GcCollects(g)
        PROVE  PlanHolds'
    <2>1. \A h \in Collectors : stage'[h] # "planning"
      BY <1>10, <1>t DEF GcCollects, GcEnds, LockHeld
    <2> QED
      BY <2>1
  <1>11. ASSUME NEW g \in Collectors, GcFails(g)
        PROVE  PlanHolds'
    <2>1. \A h \in Collectors : stage'[h] # "planning"
      BY <1>11, <1>t DEF GcFails, GcEnds, LockHeld
    <2> QED
      BY <2>1
  <1>12. ASSUME NEW g \in Collectors, GcTears(g)
        PROVE  PlanHolds'
    <2>1. \A h \in Collectors : stage'[h] # "planning"
      BY <1>12, <1>t DEF GcTears, GcEnds, LockHeld
    <2> QED
      BY <2>1
  <1>13. ASSUME NEW g \in Collectors, CrashInGc(g)
        PROVE  PlanHolds'
    <2>1. \A h \in Collectors : stage'[h] # "planning"
      BY <1>13, StopsEmpty DEF CrashInGc
    <2> QED
      BY <2>1
  <1>14. CASE CloneFails \/ CloneDiffers \/ Minute
    BY <1>14, <1>0 DEF CloneFails, CloneDiffers, Minute, state, collection
  <1>15. CASE CloneSucceeds
    <2>1. \A h \in Collectors : stage[h] # "planning"
      BY <1>15, ManagedAssumption DEF CloneSucceeds, LockHeld
    <2> QED
      BY <1>15, <2>1 DEF CloneSucceeds, collection
  <1>16. CASE Days
    <2>1. Alike(records, records') /\ \A r \in Ids : records[r] # None => records'[r].kept = records[r].kept /\ records'[r].old
      BY <1>16, DaysKeep
    <2>2. \A s \in Ids : Eligible(s) => Eligible(s)'
      BY <2>1 DEF Eligible, Group, Live, Collectable, Alike
    <2>3. UNCHANGED <<stage, plan>>
      BY <1>16 DEF Days, collection
    <2> QED
      BY <1>t, <2>2, <2>3
  <1>17. CASE Crash
    <2>1. \A h \in Collectors : stage'[h] # "planning"
      BY <1>17, StopsEmpty DEF Crash
    <2> QED
      BY <2>1
  <1>18. CASE CrashInClone
    <2>1. \A h \in Collectors : stage'[h] # "planning"
      BY <1>18, StopsEmpty DEF CrashInClone
    <2> QED
      BY <2>1
  <1>19. CASE Starts
    <2>1. \A h \in Collectors : stage[h] # "planning"
      BY <1>19 DEF Starts, LockHeld
    <2> QED
      BY <1>19, <2>1 DEF Starts, collection
  <1> QED
    BY <1>1, <1>2, <1>3, <1>4, <1>5, <1>6, <1>7, <1>8, <1>9, <1>10, <1>11,
       <1>12, <1>13, <1>14, <1>15, <1>16, <1>17, <1>18, <1>19
    DEF Next

\* A record keeps the owner of its storage.
LEMMA GroupedStep == IInv /\ [Next]_vars => Grouped(manifest)'
  <1> SUFFICES ASSUME IInv, [Next]_vars PROVE Grouped(manifest)'
    OBVIOUS
  <1> USE ManagedAssumption, NoneAssumption DEF IInv
  <1>0. UNCHANGED <<manifest>> => Grouped(manifest)'
    BY DEF Grouped
  <1>1. CASE UNCHANGED vars
    BY <1>1, <1>0 DEF vars, state, collection
  <1>2. ASSUME NEW u \in Users, NEW r \in Ids, Lookup(u, r)
        PROVE  Grouped(manifest)'
    <2>1. Alike(manifest, manifest') /\ manifest \in Records
      BY <1>2, LookupKeeps DEF TypeOK
    <2>2. \A i \in Ids : manifest[i] # None => manifest[i].of \in Ids
      BY <2>1 DEF Records, Record
    <2> QED
      BY <2>1, <2>2 DEF Grouped, Alike
  <1>3. ASSUME NEW u \in Users, Done(u)
        PROVE  Grouped(manifest)'
    BY <1>3, <1>0 DEF Done, state, collection
  <1>4. ASSUME NEW r \in Ids, NEW kept \in BOOLEAN, SetRetention(r, kept)
        PROVE  Grouped(manifest)'
    <2>1. Alike(manifest, manifest') /\ manifest \in Records
      BY <1>4, RetentionKeeps DEF TypeOK
    <2>2. \A i \in Ids : manifest[i] # None => manifest[i].of \in Ids
      BY <2>1 DEF Records, Record
    <2> QED
      BY <2>1, <2>2 DEF Grouped, Alike
  <1>5. ASSUME NEW r \in Ids, NEW fork \in BOOLEAN, NEW kept \in BOOLEAN, CloneBegins(r, fork, kept)
        PROVE  Grouped(manifest)'
    BY <1>5, <1>0 DEF CloneBegins, state, collection
  <1>6. ASSUME NEW r \in Ids, CloneCompares(r)
        PROVE  Grouped(manifest)'
    BY <1>6, <1>0 DEF CloneCompares, state, collection
  <1>7. ASSUME NEW g \in Collectors, GcBegins(g) \/ GcPlans(g) \/ GcGivesUp(g) \/ GcFails(g) \/
            GcTears(g) \/ CrashInGc(g)
        PROVE  Grouped(manifest)'
    BY <1>7, <1>0 DEF GcBegins, GcPlans, GcGivesUp, GcFails, GcTears, CrashInGc, Stops,
       state, collection
  <1>8. ASSUME NEW g \in Collectors, GcCollects(g)
        PROVE  Grouped(manifest)'
    <2>1. records = manifest
      BY <1>8 DEF GcCollects, LockHeld, RecordsStand, TypeOK
    <2>2. \A i \in Ids : manifest[i] # None => manifest[i].of \in Ids
      BY DEF TypeOK, Records, Record
    <2>3. PICK S \in SUBSET plan :
            \A r \in Ids :
               IF manifest[r] # None /\ manifest[r].of \in S
               THEN manifest'[r] = None ELSE manifest'[r] = manifest[r]
      <3>1. PICK S \in SUBSET plan :
              /\ manifest' = records'
              /\ \A r \in Ids :
                   IF records[r] # None /\ records[r].of \in S
                   THEN records'[r] = None ELSE records'[r] = records[r]
        BY <1>8, Collects
      <3> QED
        BY <2>1, <3>1
    <2> QED
      BY <2>2, <2>3 DEF Grouped
  <1>9. CASE CloneFails \/ CloneDiffers \/ Minute \/ Crash \/ CrashInClone \/
            Starts
    BY <1>9, <1>0 DEF CloneFails, CloneDiffers, Minute, Crash, CrashInClone, Starts,
       Stops, state, collection
  <1>10. CASE CloneSucceeds
    <2>1. clone # None /\ records = manifest
      BY <1>10 DEF CloneSucceeds, LockHeld, RecordsStand, TypeOK
    <2>2. \A i \in Ids : manifest[i] # None => manifest[i].of \in Ids
      BY DEF TypeOK, Records, Record
    <2>3. /\ clone.id \in Ids /\ manifest[clone.id] = None
          /\ clone.alias # None =>
                /\ clone.alias \in Ids /\ ~clone.fork /\ manifest[clone.alias] # None
                /\ manifest[clone.alias].of = clone.alias /\ ~manifest[clone.alias].fork
      BY <1>10, <2>1, Installs DEF CloneFits, Clone
    <2>4. /\ \A r \in Ids : r # clone.id => manifest'[r] = manifest[r]
          /\ manifest'[clone.id] # None
          /\ manifest'[clone.id].of = IF clone.alias = None THEN clone.id ELSE clone.alias
          /\ manifest'[clone.id].fork = clone.fork
      BY <1>10, <2>1, Installs
    <2> QED
      BY <2>2, <2>3, <2>4 DEF Grouped
  <1>11. CASE Days
    <2>1. Alike(manifest, manifest') /\ manifest \in Records
      BY <1>11, DaysKeep DEF TypeOK
    <2>2. \A i \in Ids : manifest[i] # None => manifest[i].of \in Ids
      BY <2>1 DEF Records, Record
    <2> QED
      BY <2>1, <2>2 DEF Grouped, Alike
  <1> QED
    BY <1>1, <1>2, <1>3, <1>4, <1>5, <1>6, <1>7, <1>8, <1>9, <1>10, <1>11
    DEF Next

\* The manifest fits the storage, and the Bridge the manifest.
LEMMA RecordsStep == IInv /\ [Next]_vars => RecordsStand'
  <1> SUFFICES ASSUME IInv, [Next]_vars PROVE RecordsStand'
    OBVIOUS
  <1> USE ManagedAssumption, NoneAssumption DEF IInv, RecordsStand
  <1>0. UNCHANGED <<torn, manifest, dirs, up, records, registry>> => RecordsStand'
    BY DEF Loads, Live
  <1>1. CASE UNCHANGED vars
    BY <1>1, <1>0 DEF vars, state, collection
  <1>2. ASSUME NEW u \in Users, NEW r \in Ids, Lookup(u, r)
        PROVE  RecordsStand'
    <2>1. /\ Alike(records, records') /\ Alike(manifest, manifest')
          /\ manifest \in Records /\ UNCHANGED <<up, registry, dirs, torn>>
          /\ up => records' = manifest' /\ registry = Live
      BY <1>2, LookupKeeps DEF Lookup, TypeOK
    <2>2. Live' = Live
      BY <2>1 DEF Live, Alike
    <2>3. Loads(manifest) => Loads(manifest)'
      <3>1. \A i \in Ids : manifest[i] # None => manifest[i].of \in Ids
        BY <2>1 DEF Records, Record
      <3> QED
        BY <2>1, <3>1 DEF Loads, Alike
    <2> QED
      BY <2>1, <2>2, <2>3
  <1>3. ASSUME NEW u \in Users, Done(u)
        PROVE  RecordsStand'
    BY <1>3, <1>0 DEF Done, state, collection
  <1>4. ASSUME NEW r \in Ids, NEW kept \in BOOLEAN, SetRetention(r, kept)
        PROVE  RecordsStand'
    <2>1. /\ Alike(records, records') /\ Alike(manifest, manifest')
          /\ manifest \in Records /\ UNCHANGED <<up, registry, dirs, torn>>
          /\ up => records' = manifest' /\ registry = Live
      BY <1>4, RetentionKeeps DEF SetRetention, TypeOK
    <2>2. Live' = Live
      BY <2>1 DEF Live, Alike
    <2>3. Loads(manifest) => Loads(manifest)'
      <3>1. \A i \in Ids : manifest[i] # None => manifest[i].of \in Ids
        BY <2>1 DEF Records, Record
      <3> QED
        BY <2>1, <3>1 DEF Loads, Alike
    <2> QED
      BY <2>1, <2>2, <2>3
  <1>5. ASSUME NEW r \in Ids, NEW fork \in BOOLEAN, NEW kept \in BOOLEAN, CloneBegins(r, fork, kept)
        PROVE  RecordsStand'
    BY <1>5, <1>0 DEF CloneBegins, state, collection
  <1>6. ASSUME NEW r \in Ids, CloneCompares(r)
        PROVE  RecordsStand'
    BY <1>6, <1>0 DEF CloneCompares, state, collection
  <1>7. ASSUME NEW g \in Collectors, GcBegins(g) \/ GcPlans(g) \/ GcGivesUp(g)
        PROVE  RecordsStand'
    BY <1>7, <1>0 DEF GcBegins, GcPlans, GcGivesUp, state, collection
  <1>8. ASSUME NEW g \in Collectors, GcCollects(g)
        PROVE  RecordsStand'
    <2>1. up /\ UNCHANGED <<up, torn>>
      BY <1>8 DEF GcCollects, LockHeld, TypeOK
    <2>2. PICK S \in SUBSET plan :
            /\ dirs' = dirs \ S /\ manifest' = records'
            /\ \A r \in Ids :
                 IF records[r] # None /\ records[r].of \in S
                 THEN records'[r] = None ELSE records'[r] = records[r]
            /\ registry' = registry \ {r \in Live : records[r].of \in S}
      BY <1>8, Collects
    <2>3. registry' = Live'
      BY <2>1, <2>2 DEF Live
    <2>4. ~torn => Loads(manifest)'
      <3>1. Grouped(manifest)'
        BY GroupedStep
      <3>2. ~torn => \A r \in Ids : manifest'[r] # None => manifest'[r].of \in dirs'
        BY <2>1, <2>2 DEF Loads
      <3> QED
        BY <3>1, <3>2 DEF Loads, Grouped
    <2> QED
      BY <2>1, <2>2, <2>3, <2>4
  <1>9. ASSUME NEW g \in Collectors, GcFails(g)
        PROVE  RecordsStand'
    <2>1. UNCHANGED <<up, state, torn>>
      BY <1>9 DEF GcFails, PutBack, state
    <2> QED
      BY <2>1 DEF Loads, Live, state
  <1>10. ASSUME NEW g \in Collectors, GcTears(g)
        PROVE  RecordsStand'
    <2>1. torn' = TRUE /\ UNCHANGED <<up, records, manifest, registry>>
      BY <1>10 DEF GcTears
    <2> QED
      BY <2>1 DEF Live
  <1>11. ASSUME NEW g \in Collectors, CrashInGc(g)
        PROVE  RecordsStand'
    <2>1. up' = FALSE /\ torn' = TRUE
      BY <1>11 DEF CrashInGc, Stops
    <2> QED
      BY <2>1
  <1>12. CASE CloneDiffers \/ Minute
    BY <1>12, <1>0 DEF CloneDiffers, Minute, state
  <1>13. CASE CloneSucceeds
    <2>1. clone # None /\ up /\ UNCHANGED <<up, torn>>
      BY <1>13 DEF CloneSucceeds, LockHeld, TypeOK
    <2>2. registry' = Live'
      BY <1>13, <2>1, Installs DEF Live, Clone
    <2>3. manifest' = records'
      BY <1>13, Installs
    <2>4. ~torn => Loads(manifest)'
      <3>1. Grouped(manifest)'
        BY GroupedStep
      <3>2. ~torn => \A r \in Ids : manifest'[r] # None => manifest'[r].of \in dirs'
        BY <1>13, <2>1, Installs DEF Loads, CloneFits
      <3> QED
        BY <3>1, <3>2 DEF Loads, Grouped
    <2> QED
      BY <2>1, <2>2, <2>3, <2>4
  <1>14. CASE Days
    <2>1. /\ Alike(records, records') /\ Alike(manifest, manifest')
          /\ manifest \in Records /\ UNCHANGED <<up, registry, dirs, torn>>
          /\ up => records' = manifest' /\ registry = Live
      BY <1>14, DaysKeep DEF Days, TypeOK
    <2>2. Live' = Live
      BY <2>1 DEF Live, Alike
    <2>3. Loads(manifest) => Loads(manifest)'
      <3>1. \A i \in Ids : manifest[i] # None => manifest[i].of \in Ids
        BY <2>1 DEF Records, Record
      <3> QED
        BY <2>1, <3>1 DEF Loads, Alike
    <2> QED
      BY <2>1, <2>2, <2>3
  <1>15. CASE Crash
    <2>1. up' = FALSE /\ UNCHANGED <<manifest, dirs, torn>>
      BY <1>15 DEF Crash, Stops
    <2> QED
      BY <2>1 DEF Loads
  <1>16. CASE CrashInClone
    <2>1. up' = FALSE /\ UNCHANGED <<manifest, torn>> /\ dirs \subseteq dirs'
      BY <1>16 DEF CrashInClone, Stops
    <2> QED
      BY <2>1 DEF Loads
  <1>17. CASE Starts
    <2>1. /\ records' = manifest /\ registry' = {r \in Ids : manifest[r] # None}
          /\ UNCHANGED <<manifest, dirs, torn>>
      BY <1>17 DEF Starts
    <2> QED
      BY <2>1 DEF Loads, Live
  <1>18. CASE CloneFails
    <2>1. UNCHANGED <<up, records, manifest, registry, torn>> /\ dirs \subseteq dirs'
      BY <1>18 DEF CloneFails
    <2> QED
      BY <2>1 DEF Loads, Live
  <1> QED
    BY <1>1, <1>2, <1>3, <1>4, <1>5, <1>6, <1>7, <1>8, <1>9, <1>10, <1>11,
       <1>12, <1>13, <1>14, <1>15, <1>16, <1>17, <1>18
    DEF Next

\* What a clone found stays so until it ends: the lock is held.
LEMMA CloneStep == IInv /\ [Next]_vars => CloneFits'
  <1> SUFFICES ASSUME IInv, [Next]_vars PROVE CloneFits'
    OBVIOUS
  <1> USE ManagedAssumption, NoneAssumption DEF IInv, CloneFits
  <1>0. UNCHANGED <<clone, records, dirs>> => CloneFits'
    OBVIOUS
  <1>1. CASE UNCHANGED vars
    BY <1>1, <1>0 DEF vars, state, collection
  <1>2. ASSUME NEW u \in Users, NEW r \in Ids, Lookup(u, r)
        PROVE  CloneFits'
    <2>1. Alike(records, records') /\ UNCHANGED <<clone, dirs>>
      BY <1>2, LookupKeeps DEF Lookup
    <2>2. clone # None => clone \in Clone
      BY DEF TypeOK
    <2> QED
      BY <2>1, <2>2 DEF Alike, Clone
  <1>3. ASSUME NEW u \in Users, Done(u)
        PROVE  CloneFits'
    BY <1>3, <1>0 DEF Done, state, collection
  <1>4. ASSUME NEW r \in Ids, NEW kept \in BOOLEAN, SetRetention(r, kept)
        PROVE  CloneFits'
    <2>1. clone = None /\ UNCHANGED clone
      BY <1>4, RetentionKeeps DEF SetRetention, LockHeld
    <2> QED
      BY <2>1
  <1>5. ASSUME NEW r \in Ids, NEW fork \in BOOLEAN, NEW kept \in BOOLEAN, CloneBegins(r, fork, kept)
        PROVE  CloneFits'
    <2>1. /\ clone'.id = r /\ clone'.alias = None
          /\ records[r] = None /\ r \notin dirs /\ UNCHANGED <<records, dirs>>
      BY <1>5 DEF CloneBegins, state
    <2> QED
      BY <2>1
  <1>6. ASSUME NEW r \in Ids, CloneCompares(r)
        PROVE  CloneFits'
    <2>1. /\ clone # None /\ ~clone.fork /\ clone \in Clone
          /\ records[r] # None /\ ~records[r].fork /\ records[r].of \in dirs
          /\ clone' = [clone EXCEPT !.alias = records[r].of] /\ UNCHANGED <<records, dirs>>
      BY <1>6 DEF CloneCompares, Live, TypeOK, state
    <2>2. records = manifest
      BY <2>1 DEF LockHeld, RecordsStand, TypeOK
    <2>3. LET s == records[r].of
          IN  records[s] # None /\ records[s].of = s /\ ~records[s].fork
      BY <2>1, <2>2 DEF Grouped
    <2>4. /\ clone'.id = clone.id /\ clone'.fork = clone.fork
          /\ clone'.alias = records[r].of
      BY <2>1 DEF Clone
    <2> QED
      BY <2>1, <2>3, <2>4
  <1>7. ASSUME NEW g \in Collectors, GcBegins(g) \/ GcPlans(g) \/ GcGivesUp(g)
        PROVE  CloneFits'
    BY <1>7, <1>0 DEF GcBegins, GcPlans, GcGivesUp, state, collection
  <1>8. ASSUME NEW g \in Collectors, GcCollects(g)
        PROVE  CloneFits'
    <2>1. clone = None /\ UNCHANGED clone
      BY <1>8, ManagedAssumption DEF GcCollects, LockHeld
    <2> QED
      BY <2>1
  <1>9. ASSUME NEW g \in Collectors, GcFails(g)
        PROVE  CloneFits'
    <2>1. clone = None /\ UNCHANGED clone
      BY <1>9, ManagedAssumption DEF GcFails, LockHeld
    <2> QED
      BY <2>1
  <1>10. ASSUME NEW g \in Collectors, GcTears(g)
        PROVE  CloneFits'
    <2>1. clone = None /\ UNCHANGED clone
      BY <1>10, ManagedAssumption DEF GcTears, LockHeld
    <2> QED
      BY <2>1
  <1>11. ASSUME NEW g \in Collectors, CrashInGc(g)
        PROVE  CloneFits'
    <2>1. clone' = None
      BY <1>11 DEF CrashInGc, Stops
    <2> QED
      BY <2>1
  <1>12. CASE Minute
    BY <1>12, <1>0 DEF Minute, state, collection
  <1>13. CASE CloneSucceeds
    <2>1. clone' = None
      BY <1>13 DEF CloneSucceeds, CloneEnds
    <2> QED
      BY <2>1
  <1>14. CASE CloneFails
    <2>1. clone' = None
      BY <1>14 DEF CloneFails, CloneEnds
    <2> QED
      BY <2>1
  <1>15. CASE CloneDiffers
    <2>1. clone # None /\ clone'.id = clone.id /\ clone'.alias = None /\ UNCHANGED <<records, dirs>>
      BY <1>15 DEF CloneDiffers, TypeOK, Clone, state
    <2> QED
      BY <2>1
  <1>16. CASE Days
    <2>1. Alike(records, records') /\ UNCHANGED <<clone, dirs>>
      BY <1>16, DaysKeep DEF Days
    <2>2. clone # None => clone \in Clone
      BY DEF TypeOK
    <2> QED
      BY <2>1, <2>2 DEF Alike, Clone
  <1>17. CASE Crash
    <2>1. clone' = None
      BY <1>17 DEF Crash, Stops
    <2> QED
      BY <2>1
  <1>18. CASE CrashInClone
    <2>1. clone' = None
      BY <1>18 DEF CrashInClone, Stops
    <2> QED
      BY <2>1
  <1>19. CASE Starts
    <2>1. clone = None /\ UNCHANGED clone
      BY <1>19 DEF Starts, LockHeld
    <2> QED
      BY <2>1
  <1> QED
    BY <1>1, <1>2, <1>3, <1>4, <1>5, <1>6, <1>7, <1>8, <1>9, <1>10, <1>11,
       <1>12, <1>13, <1>14, <1>15, <1>16, <1>17, <1>18, <1>19
    DEF Next

\* An access that was noted keeps its record from aging and collection.
LEMMA NotedStep == IInv /\ [Next]_vars => NotedIsFresh'
  <1> SUFFICES ASSUME IInv, [Next]_vars PROVE NotedIsFresh'
    OBVIOUS
  <1> USE ManagedAssumption, NoneAssumption DEF IInv, NotedIsFresh
  <1>t. /\ users \in [Users -> Use \cup {None}] /\ records \in Records
        /\ \A u \in Users : users[u] # None => users[u].id \in Ids
    BY DEF TypeOK, Use
  <1>0. UNCHANGED <<users, records>> => NotedIsFresh'
    OBVIOUS
  <1>1. CASE UNCHANGED vars
    BY <1>1, <1>0 DEF vars, state, collection
  <1>2. ASSUME NEW u \in Users, NEW r \in Ids, Lookup(u, r)
        PROVE  NotedIsFresh'
    <2>1. /\ Alike(records, records') /\ records[r] # None
          /\ \A i \in Ids : records[i] # None =>
                /\ i # r => records'[i].old = records[i].old
                /\ ~records[i].old => ~records'[i].old
          /\ \A v \in Users : v # u => users'[v] = users[v]
          /\ users'[u].id = r /\ users'[u].of = records[r].of
          /\ users'[u].noted => ~records'[r].old
      BY <1>2, LookupKeeps
    <2> QED
      BY <1>t, <2>1 DEF Alike
  <1>3. ASSUME NEW u \in Users, Done(u)
        PROVE  NotedIsFresh'
    <2>1. users' = [users EXCEPT ![u] = None] /\ UNCHANGED records
      BY <1>3 DEF Done, state
    <2> QED
      BY <1>t, <2>1
  <1>4. ASSUME NEW r \in Ids, NEW kept \in BOOLEAN, SetRetention(r, kept)
        PROVE  NotedIsFresh'
    <2>1. /\ Alike(records, records') /\ UNCHANGED users
          /\ \A i \in Ids : records[i] # None => records'[i].old = records[i].old
      BY <1>4, RetentionKeeps DEF SetRetention
    <2> QED
      BY <1>t, <2>1 DEF Alike
  <1>5. ASSUME NEW r \in Ids, NEW fork \in BOOLEAN, NEW kept \in BOOLEAN, CloneBegins(r, fork, kept)
        PROVE  NotedIsFresh'
    BY <1>5, <1>0 DEF CloneBegins, state, collection
  <1>6. ASSUME NEW r \in Ids, CloneCompares(r)
        PROVE  NotedIsFresh'
    BY <1>6, <1>0 DEF CloneCompares, state, collection
  <1>7. ASSUME NEW g \in Collectors, GcBegins(g) \/ GcPlans(g) \/ GcGivesUp(g) \/ GcFails(g) \/
            GcTears(g)
        PROVE  NotedIsFresh'
    BY <1>7, <1>0 DEF GcBegins, GcPlans, GcGivesUp, GcFails, GcTears, state, collection
  <1>8. ASSUME NEW g \in Collectors, GcCollects(g)
        PROVE  NotedIsFresh'
    <2>1. PICK S \in SUBSET plan :
            \A r \in Ids :
               IF records[r] # None /\ records[r].of \in S
               THEN records'[r] = None ELSE records'[r] = records[r]
      BY <1>8, Collects
    <2>2. \A r \in Ids : records[r] # None /\ records[r].of \in S => records[r].old
      BY <1>8 DEF GcCollects, PlanHolds, Eligible, Group, Live, Collectable
    <2>3. UNCHANGED users
      BY <1>8 DEF GcCollects
    <2> QED
      BY <1>t, <2>1, <2>2, <2>3
  <1>9. ASSUME NEW g \in Collectors, CrashInGc(g)
        PROVE  NotedIsFresh'
    <2>1. \A u \in Users : users'[u] = None
      BY <1>9, StopsEmpty DEF CrashInGc
    <2> QED
      BY <2>1
  <1>10. CASE CloneFails \/ CloneDiffers \/ Minute
    BY <1>10, <1>0 DEF CloneFails, CloneDiffers, Minute, state, collection
  <1>11. CASE CloneSucceeds
    <2>1. records[clone.id] = None /\ UNCHANGED users
      BY <1>11 DEF CloneSucceeds, CloneFits
    <2>2. \A i \in Ids : i # clone.id => records'[i] = records[i]
      BY <1>11, Installs
    <2> QED
      BY <1>t, <2>1, <2>2
  <1>12. CASE Days
    <2>1. \A u \in Users : users[u] = None
      BY <1>12, DaysKeep
    <2>2. UNCHANGED users
      BY <1>12 DEF Days
    <2> QED
      BY <2>1, <2>2
  <1>13. CASE Crash
    <2>1. \A u \in Users : users'[u] = None
      BY <1>13, StopsEmpty DEF Crash
    <2> QED
      BY <2>1
  <1>14. CASE CrashInClone
    <2>1. \A u \in Users : users'[u] = None
      BY <1>14, StopsEmpty DEF CrashInClone
    <2> QED
      BY <2>1
  <1>15. CASE Starts
    <2>1. \A u \in Users : users[u] = None
      BY <1>15 DEF Starts, LockHeld
    <2>2. UNCHANGED users
      BY <1>15 DEF Starts
    <2> QED
      BY <2>1, <2>2
  <1> QED
    BY <1>1, <1>2, <1>3, <1>4, <1>5, <1>6, <1>7, <1>8, <1>9, <1>10, <1>11,
       <1>12, <1>13, <1>14, <1>15
    DEF Next

-----------------------------------------------------------------------------
\* The service without a manifest satisfies the invariant.
LEMMA InitIInv == Init => IInv
  <1> SUFFICES ASSUME Init PROVE IInv
    OBVIOUS
  <1> USE ManagedAssumption, NoneAssumption DEF Init
  <1>1. TypeOK
    BY DEF TypeOK, Records, Empty
  <1>2. \A r \in Ids : records[r] = None /\ manifest[r] = None
    BY DEF Empty
  <1>3. LockHeld /\ PlanHolds /\ CloneFits /\ NotedIsFresh
    BY DEF LockHeld, PlanHolds, CloneFits, NotedIsFresh
  <1>4. Grouped(manifest) /\ Loads(manifest) /\ Live = {}
    BY <1>2 DEF Grouped, Loads, Live
  <1>5. RecordsStand /\ KeptAsAsked
    BY <1>4 DEF RecordsStand, KeptAsAsked
  <1> QED
    BY <1>1, <1>3, <1>4, <1>5 DEF IInv

\* IInv holds in every reachable state.
THEOREM Invariance == Spec => []IInv
  <1>1. IInv /\ [Next]_vars => IInv'
    BY TypeStep, LockStep, PlanStep, CloneStep, NotedStep, GroupedStep,
       RecordsStep, KeptStep DEF IInv
  <1> QED
    BY InitIInv, <1>1, PTL DEF Spec

\* The variables of the service keep to their domains, at whatever size.
THEOREM TypeCorrect == Spec => []TypeOK
  <1>1. IInv => TypeOK
    BY DEF IInv
  <1> QED
    BY Invariance, <1>1, PTL

\* The storage that a tool works with is there, if its access was noted and no
\* collection was cut.
THEOREM InUse == Spec => []InUseSurvives
  <1>1. IInv => InUseSurvives
    <2> SUFFICES ASSUME IInv, NEW u \in Users,
                        users[u] # None, users[u].noted, ~torn
                 PROVE  users[u].of \in dirs
      BY DEF InUseSurvives
    <2>1. up /\ users[u].id \in Ids
      BY DEF IInv, LockHeld, TypeOK, Use
    <2>2. records = manifest /\ Loads(manifest)
      BY <2>1 DEF IInv, RecordsStand
    <2>3. records[users[u].id] # None /\ records[users[u].id].of = users[u].of
      BY DEF IInv, NotedIsFresh
    <2> QED
      BY <2>1, <2>2, <2>3 DEF Loads
  <1> QED
    BY Invariance, <1>1, PTL

\* No record is collected that is pinned, writable or used since.
THEOREM Kept == Spec => []KeptAsAsked
  <1>1. IInv => KeptAsAsked
    BY DEF IInv
  <1> QED
    BY Invariance, <1>1, PTL

\* The Bridge starts on what is on the disk, unless a collection was cut, and
\* while it runs its records, its registry and the manifest agree.
THEOREM Stands == Spec => []RecordsStand
  <1>1. IInv => RecordsStand
    BY DEF IInv
  <1> QED
    BY Invariance, <1>1, PTL
=============================================================================
